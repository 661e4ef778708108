------------------------- MODULE MessagePath_proofs -------------------------
(***************************************************************************)
(* The two ends of a message's way: the queue that brings it to the table, *)
(* and the conversations that say it and remember it.                      *)
(*                                                                         *)
(* The queue, for any number of messages, workers, channels, exceptions    *)
(* and deaths of the process: it loses nothing between publication and the *)
(* table, a row is repeated only after its message was delivered again,    *)
(* and every step is one of MessageLog.  The argument: a message that is   *)
(* not lost is in one channel, in the queue or in one hand, and in one of  *)
(* them only.  So the death of the process loses only what the broker      *)
(* never had, and what is inserted for the first time is in no row yet.    *)
(*                                                                         *)
(* The conversations, over MessageLog: ChatInv, further down.              *)
(***************************************************************************)
EXTENDS MessageQueue, ChatService, FiniteSetTheorems, SequenceTheorems,
        WellFoundedInduction, TLAPS

Sequenced == /\ transit \in [Channels -> Seq(Messages)]
             /\ queue \in Seq(Messages)
             /\ rows \in Seq(Messages)

\* A message in transit is in one place of one channel, and nowhere else.
TransitOnce ==
  /\ \A c, d \in Channels : \A i \in DOMAIN transit[c], j \in DOMAIN transit[d] :
       transit[c][i] = transit[d][j] => c = d /\ i = j
  /\ InTransit \intersect (RangeOf(queue) \union InHand \union RangeOf(rows)) = {}

\* A message the broker has is once in the queue or in one hand.
OnePlace ==
  /\ \A i, j \in DOMAIN queue : queue[i] = queue[j] => i = j
  /\ RangeOf(queue) \intersect InHand = {}
  /\ \A v, w \in Workers : inHand[v] = inHand[w] /\ inHand[v] # None => v = w

\* What is to be inserted has a row only if it was delivered before.
FirstRow ==
  /\ RangeOf(queue) \intersect RangeOf(rows) \subseteq redelivered
  /\ \A w \in Workers : worker[w] = "handling" /\ inHand[w] \in RangeOf(rows)
                          => inHand[w] \in redelivered
  /\ \A w \in Workers : worker[w] = "acking" => inHand[w] \in RangeOf(rows)

Down == ~up => \A w \in Workers : worker[w] = "off"

Inv == /\ TypeOK /\ Sequenced /\ NothingLost /\ TransitOnce /\ OnePlace
       /\ FirstRow /\ DuplicatesExplained /\ Down

-----------------------------------------------------------------------------
(* Sequences, by the messages that are in them.                            *)
LEMMA RangeOfEmpty == RangeOf(<<>>) = {}
BY DEF RangeOf

LEMMA RangeOfAppend ==
  ASSUME NEW s \in Seq(Messages), NEW m \in Messages
  PROVE  /\ Append(s, m) \in Seq(Messages)
         /\ DOMAIN Append(s, m) = DOMAIN s \union {Len(s) + 1}
         /\ Len(s) + 1 \notin DOMAIN s
         /\ Append(s, m)[Len(s) + 1] = m
         /\ \A i \in DOMAIN s : Append(s, m)[i] = s[i]
         /\ RangeOf(Append(s, m)) = RangeOf(s) \union {m}
<1>1. /\ Append(s, m) \in Seq(Messages)
      /\ DOMAIN Append(s, m) = DOMAIN s \union {Len(s) + 1}
      /\ Len(s) + 1 \notin DOMAIN s
      /\ Append(s, m)[Len(s) + 1] = m
      /\ \A i \in DOMAIN s : Append(s, m)[i] = s[i]
  BY AppendProperties
<1> QED BY <1>1 DEF RangeOf

LEMMA RangeOfTail ==
  ASSUME NEW s \in Seq(Messages), s # <<>>
  PROVE  /\ Head(s) \in Messages /\ Tail(s) \in Seq(Messages)
         /\ 1 \in DOMAIN s /\ s[1] = Head(s)
         /\ \A i \in DOMAIN Tail(s) : i + 1 \in DOMAIN s /\ Tail(s)[i] = s[i + 1]
                                      /\ i + 1 # 1 /\ i \in Nat
         /\ RangeOf(s) = {Head(s)} \union RangeOf(Tail(s))
<1>1. /\ Head(s) \in Messages /\ Tail(s) \in Seq(Messages) /\ Len(Tail(s)) = Len(s) - 1
      /\ Len(s) \in Nat \ {0} /\ Head(s) = s[1]
      /\ \A i \in 1..Len(s) - 1 : Tail(s)[i] = s[i + 1]
  <2>1. Len(s) \in Nat \ {0}
    BY LenProperties, EmptySeq
  <2>2. /\ Head(s) \in Messages /\ Tail(s) \in Seq(Messages) /\ Len(Tail(s)) = Len(s) - 1
        /\ \A i \in 1..Len(Tail(s)) : Tail(s)[i] = s[i + 1]
    BY HeadTailProperties
  <2>3. Head(s) = s[1]
    BY <2>1
  <2> QED BY <2>1, <2>2, <2>3
<1>2. DOMAIN s = 1..Len(s) /\ DOMAIN Tail(s) = 1..Len(s) - 1
  BY <1>1, LenProperties
<1>3. \A i \in DOMAIN s : i = 1 \/ (i - 1 \in DOMAIN Tail(s) /\ s[i] = Tail(s)[i - 1])
  BY <1>1, <1>2
<1>4. \A i \in DOMAIN Tail(s) : /\ i + 1 \in DOMAIN s /\ Tail(s)[i] = s[i + 1]
                                /\ i + 1 # 1 /\ i \in Nat
  BY <1>1, <1>2
<1>5. 1 \in DOMAIN s
  BY <1>1, <1>2
<1>6. \A x : x \in RangeOf(s) <=> x = Head(s) \/ x \in RangeOf(Tail(s))
  <2>1. ASSUME NEW x \in RangeOf(s) PROVE x = Head(s) \/ x \in RangeOf(Tail(s))
    <3>1. PICK i \in DOMAIN s : x = s[i]
      BY <2>1 DEF RangeOf
    <3> QED BY <1>1, <1>3, <3>1 DEF RangeOf
  <2>2. Head(s) \in RangeOf(s)
    BY <1>1, <1>5 DEF RangeOf
  <2>3. ASSUME NEW x \in RangeOf(Tail(s)) PROVE x \in RangeOf(s)
    <3>1. PICK i \in DOMAIN Tail(s) : x = Tail(s)[i]
      BY <2>3 DEF RangeOf
    <3> QED BY <1>4, <3>1 DEF RangeOf
  <2> QED BY <2>1, <2>2, <2>3
<1> QED BY <1>1, <1>4, <1>5, <1>6

LEMMA RangeOfConcat ==
  ASSUME NEW s \in Seq(Messages), NEW r \in Seq(Messages)
  PROVE  /\ s \o r \in Seq(Messages)
         /\ DOMAIN (s \o r) = 1..Len(s) + Len(r)
         /\ \A i \in 1..Len(s) : (s \o r)[i] = s[i]
         /\ \A i \in 1..Len(r) : (s \o r)[Len(s) + i] = r[i]
         /\ \A i \in Len(s) + 1 .. Len(s) + Len(r) : (s \o r)[i] = r[i - Len(s)]
         /\ RangeOf(s \o r) = RangeOf(s) \union RangeOf(r)
<1>1. /\ s \o r \in Seq(Messages)
      /\ Len(s \o r) = Len(s) + Len(r)
      /\ \A i \in 1..Len(s) + Len(r) : (s \o r)[i] = IF i <= Len(s) THEN s[i] ELSE r[i - Len(s)]
      /\ Len(s) \in Nat /\ Len(r) \in Nat
      /\ DOMAIN s = 1..Len(s) /\ DOMAIN r = 1..Len(r) /\ DOMAIN (s \o r) = 1..Len(s \o r)
  BY ConcatProperties, LenProperties
<1>2. /\ \A i \in 1..Len(s) : (s \o r)[i] = s[i] /\ i \in DOMAIN (s \o r)
      /\ \A i \in 1..Len(r) : (s \o r)[Len(s) + i] = r[i] /\ Len(s) + i \in DOMAIN (s \o r)
  <2>1. \A i \in 1..Len(r) : /\ Len(s) + i \in 1..Len(s) + Len(r) /\ ~(Len(s) + i <= Len(s))
                             /\ Len(s) + i - Len(s) = i
    BY <1>1
  <2> QED BY <1>1, <2>1
<1>4. /\ \A i \in Len(s) + 1 .. Len(s) + Len(r) : (s \o r)[i] = r[i - Len(s)] /\ i - Len(s) \in DOMAIN r
  BY <1>1
<1>3. DOMAIN (s \o r) = 1..Len(s) \union (Len(s) + 1 .. Len(s) + Len(r))
  BY <1>1
<1>5. \A x : x \in RangeOf(s \o r) <=> x \in RangeOf(s) \/ x \in RangeOf(r)
  <2>1. ASSUME NEW x \in RangeOf(s \o r) PROVE x \in RangeOf(s) \/ x \in RangeOf(r)
    <3>1. PICK i \in DOMAIN (s \o r) : x = (s \o r)[i]
      BY <2>1 DEF RangeOf
    <3>2. CASE i \in DOMAIN s
      BY <1>1, <1>2, <3>1, <3>2 DEF RangeOf
    <3>3. CASE i \in Len(s) + 1 .. Len(s) + Len(r)
      BY <1>4, <3>1, <3>3 DEF RangeOf
    <3> QED BY <1>1, <1>3, <3>1, <3>2, <3>3
  <2>2. ASSUME NEW x \in RangeOf(s) PROVE x \in RangeOf(s \o r)
    <3>1. PICK i \in DOMAIN s : x = s[i]
      BY <2>2 DEF RangeOf
    <3> QED BY <1>1, <1>2, <3>1 DEF RangeOf
  <2>3. ASSUME NEW x \in RangeOf(r) PROVE x \in RangeOf(s \o r)
    <3>1. PICK i \in DOMAIN r : x = r[i]
      BY <2>3 DEF RangeOf
    <3> QED BY <1>1, <1>2, <3>1 DEF RangeOf
  <2> QED BY <2>1, <2>2, <2>3
<1>6. DOMAIN (s \o r) = 1..Len(s) + Len(r)
  BY <1>1
<1> QED BY <1>1, <1>2, <1>4, <1>5, <1>6

\* Two sequences without a message in common, each without repetition.
LEMMA ConcatOnce ==
  ASSUME NEW s \in Seq(Messages), NEW r \in Seq(Messages),
         \A i, j \in DOMAIN s : s[i] = s[j] => i = j,
         \A i, j \in DOMAIN r : r[i] = r[j] => i = j,
         RangeOf(s) \intersect RangeOf(r) = {}
  PROVE  \A i, j \in DOMAIN (s \o r) : (s \o r)[i] = (s \o r)[j] => i = j
<1>1. /\ Len(s) \in Nat /\ Len(r) \in Nat /\ DOMAIN s = 1..Len(s) /\ DOMAIN r = 1..Len(r)
  BY LenProperties
<1>2. \A i \in DOMAIN (s \o r) : \/ i \in DOMAIN s /\ (s \o r)[i] = s[i]
                                 \/ i - Len(s) \in DOMAIN r /\ (s \o r)[i] = r[i - Len(s)] /\ i \in Int
  BY <1>1, RangeOfConcat
<1>3. \A i \in DOMAIN s, j \in DOMAIN r : s[i] # r[j]
  BY DEF RangeOf
<1> QED BY <1>1, <1>2, <1>3

-----------------------------------------------------------------------------
(* What the channels and the hands hold when one of them changes.          *)
LEMMA InitEmpty ==
  ASSUME Init
  PROVE  InTransit = {} /\ InHand = {} /\ RangeOf(queue) = {} /\ RangeOf(rows) = {}
BY RangeOfEmpty DEF Init, InTransit, InHand

LEMMA TransitFacts ==
  ASSUME Sequenced
  PROVE  /\ InTransit \subseteq Messages
         /\ \A c \in Channels : \A i \in DOMAIN transit[c] : transit[c][i] \in InTransit
         /\ \A m \in InTransit : \E c \in Channels : \E i \in DOMAIN transit[c] : transit[c][i] = m
<1>1. \A c \in Channels : \A i \in DOMAIN transit[c] : transit[c][i] \in Messages
  BY ElementOfSeq, LenProperties DEF Sequenced
<1> QED BY <1>1 DEF InTransit, RangeOf

LEMMA Transmitted ==
  ASSUME Sequenced, NEW c \in Channels, NEW m \in Messages,
         transit' = [transit EXCEPT ![c] = Append(@, m)]
  PROVE  /\ InTransit' = InTransit \union {m}
         /\ transit' \in [Channels -> Seq(Messages)]
<1>1. transit \in [Channels -> Seq(Messages)] /\ transit[c] \in Seq(Messages)
  BY DEF Sequenced
<1>2. \A d \in Channels : transit'[d] = IF d = c THEN Append(transit[c], m) ELSE transit[d]
  BY <1>1
<1>3. RangeOf(Append(transit[c], m)) = RangeOf(transit[c]) \union {m}
  BY <1>1, RangeOfAppend
<1>4. \A x : x \in InTransit' <=> \E d \in Channels : x \in RangeOf(transit'[d])
  BY DEF InTransit, RangeOf
<1>5. \A x : x \in InTransit <=> \E d \in Channels : x \in RangeOf(transit[d])
  BY DEF InTransit
<1>6. InTransit' = InTransit \union {m}
  BY <1>2, <1>3, <1>4, <1>5
<1> QED BY <1>1, <1>2, <1>6, RangeOfAppend

\* What arrives was in transit, and is not any more.
LEMMA Received ==
  ASSUME Sequenced, TransitOnce, NEW c \in Channels, transit[c] # <<>>,
         transit' = [transit EXCEPT ![c] = Tail(@)]
  PROVE  /\ Head(transit[c]) \in Messages /\ Head(transit[c]) \in InTransit
         /\ InTransit' = InTransit \ {Head(transit[c])}
         /\ transit' \in [Channels -> Seq(Messages)]
         /\ \A b, d \in Channels : \A i \in DOMAIN transit'[b], j \in DOMAIN transit'[d] :
              transit'[b][i] = transit'[d][j] => b = d /\ i = j
<1> DEFINE h == Head(transit[c])
           s == transit[c]
<1>1. s \in Seq(Messages) /\ transit \in [Channels -> Seq(Messages)]
  BY DEF Sequenced
<1>2. /\ h \in Messages /\ Tail(s) \in Seq(Messages)
      /\ 1 \in DOMAIN s /\ s[1] = h
      /\ \A i \in DOMAIN Tail(s) : i + 1 \in DOMAIN s /\ Tail(s)[i] = s[i + 1]
                                   /\ i + 1 # 1 /\ i \in Nat
      /\ RangeOf(s) = {h} \union RangeOf(Tail(s))
  BY <1>1, RangeOfTail
<1>3. \A d \in Channels : transit'[d] = IF d = c THEN Tail(s) ELSE transit[d]
  BY <1>1
<1>4. h \notin RangeOf(Tail(s))
  BY <1>2 DEF TransitOnce, RangeOf
<1>5. \A d \in Channels : d # c => h \notin RangeOf(transit[d])
  BY <1>2 DEF TransitOnce, RangeOf
<1>6. \A x : x \in InTransit' <=> \E d \in Channels : x \in RangeOf(transit'[d])
  BY DEF InTransit, RangeOf
<1>7. \A x : x \in InTransit <=> \E d \in Channels : x \in RangeOf(transit[d])
  BY DEF InTransit
<1>8. InTransit' = InTransit \ {h} /\ h \in InTransit
  <2> HIDE DEF h, s
  <2>1. RangeOf(transit[c]) = {h} \union RangeOf(Tail(s))
    BY <1>2 DEF s
  <2> QED BY <1>3, <1>4, <1>5, <1>6, <1>7, <2>1
<1>9. \A b, d \in Channels : \A i \in DOMAIN transit'[b], j \in DOMAIN transit'[d] :
        transit'[b][i] = transit'[d][j] => b = d /\ i = j
  <2> SUFFICES ASSUME NEW b \in Channels, NEW d \in Channels,
                      NEW i \in DOMAIN transit'[b], NEW j \in DOMAIN transit'[d],
                      transit'[b][i] = transit'[d][j]
               PROVE  b = d /\ i = j
    OBVIOUS
  <2>1. \E k \in DOMAIN transit[b] : /\ transit[b][k] = transit'[b][i]
                                     /\ k = IF b = c THEN i + 1 ELSE i
    BY <1>2, <1>3
  <2>2. \E k \in DOMAIN transit[d] : /\ transit[d][k] = transit'[d][j]
                                     /\ k = IF d = c THEN j + 1 ELSE j
    BY <1>2, <1>3
  <2>3. b = d /\ (IF b = c THEN i + 1 ELSE i) = (IF d = c THEN j + 1 ELSE j)
    BY <2>1, <2>2 DEF TransitOnce
  <2>4. b = c => i \in Nat /\ j \in Nat
    BY <1>2, <1>3, <2>3
  <2> QED BY <2>3, <2>4
<1> QED BY <1>1, <1>2, <1>3, <1>8, <1>9

LEMMA HandFilled ==
  ASSUME TypeOK, NEW w \in Workers, inHand[w] = None, NEW m \in Messages,
         inHand' = [inHand EXCEPT ![w] = m]
  PROVE  InHand' = InHand \union {m}
<1>1. None # m
  BY QueueAssumption
<1> QED BY <1>1 DEF TypeOK, InHand

LEMMA HandEmptied ==
  ASSUME TypeOK, OnePlace, NEW w \in Workers, inHand[w] # None,
         inHand' = [inHand EXCEPT ![w] = None]
  PROVE  /\ inHand[w] \in Messages /\ inHand[w] \in InHand
         /\ InHand' = InHand \ {inHand[w]}
BY DEF TypeOK, OnePlace, InHand

LEMMA InHandFinite == ASSUME TypeOK PROVE InHand \subseteq Messages /\ Cardinality(InHand) \in Nat
<1>1. InHand \subseteq Messages
  BY DEF TypeOK, InHand
<1>2. IsFiniteSet(InHand)
  BY <1>1, FS_Subset, QueueAssumption
<1> QED BY <1>1, <1>2, FS_CardinalityType

LEMMA SeqRange == \A s \in Seq(Messages) : RangeOf(s) \subseteq Messages
BY ElementOfSeq, LenProperties DEF RangeOf

-----------------------------------------------------------------------------
(* One lemma for each action that moves a message.                         *)
LEMMA InitInv == ASSUME Init PROVE Inv
<1>1. Sequenced
  BY DEF Init, Sequenced
<1>2. /\ \A c \in Channels : transit[c] = <<>> /\ DOMAIN transit[c] = {}
      /\ queue = <<>> /\ DOMAIN queue = {} /\ rows = <<>> /\ DOMAIN rows = {}
      /\ \A w \in Workers : inHand[w] = None /\ worker[w] = "off"
      /\ RangeOf(queue) = {} /\ RangeOf(rows) = {} /\ InTransit = {} /\ InHand = {}
  <2>1. DOMAIN <<>> = {}
    OBVIOUS
  <2>2. /\ transit = [c \in Channels |-> <<>>] /\ queue = <<>> /\ rows = <<>>
        /\ inHand = [w \in Workers |-> None] /\ worker = [w \in Workers |-> "off"]
    BY DEF Init
  <2>3. \A c \in Channels : transit[c] = <<>>
    BY <2>2
  <2> QED BY InitEmpty, <2>1, <2>2, <2>3
<1>3. TypeOK
  <2>1. 0 \in Channels
    BY QueueAssumption DEF Channels
  <2>2. \A c \in Channels : RangeOf(transit[c]) \subseteq Messages
    BY <1>2, RangeOfEmpty
  <2>3. worker \in [Workers -> {"off", "starting", "waiting", "handling", "acking", "ended"}]
    BY DEF Init
  <2>4. inHand \in [Workers -> Messages \union {None}]
    BY DEF Init
  <2>5. up \in BOOLEAN /\ declared \in BOOLEAN
    BY Zenon DEF Init
  <2>6. /\ deaths \in 0..MaxDeaths
        /\ failures \in 0..MaxFailures /\ counter \in Channels
        /\ published = {} /\ redelivered = {} /\ lost = {}
    BY <2>1, QueueAssumption DEF Init
  <2> QED BY <1>2, <2>2, <2>3, <2>4, <2>5, <2>6 DEF TypeOK
<1>4. published = {} /\ lost = {}
  BY DEF Init
<1>5. NothingLost
  BY <1>2, <1>4 DEF NothingLost
<1>6. OnePlace /\ FirstRow /\ DuplicatesExplained
  BY <1>2 DEF OnePlace, FirstRow, DuplicatesExplained
<1>7. TransitOnce
  BY <1>2 DEF TransitOnce
<1>8. Down
  BY <1>2 DEF Down
<1> QED BY <1>1, <1>3, <1>5, <1>6, <1>7, <1>8 DEF Inv

LEMMA PublishKeeps ==
  ASSUME Inv, NEW m \in Messages, Publish(m)
  PROVE  Inv'
<1>1. /\ m \notin published
      /\ transit' = [transit EXCEPT ![counter] = Append(@, m)]
      /\ counter' = (counter + 1) % PoolSize
      /\ published' = published \union {m}
      /\ UNCHANGED <<up, deaths, declared, queue, worker, inHand, failures, rows, redelivered, lost>>
  BY DEF Publish, process, brokerVars, workerVars
<1>2. counter \in Channels /\ counter' \in Channels
  BY <1>1, QueueAssumption DEF Inv, TypeOK, Channels
<1>3. InTransit' = InTransit \union {m} /\ transit' \in [Channels -> Seq(Messages)]
  BY <1>1, <1>2, Transmitted DEF Inv
<1>4. InHand' = InHand
  BY <1>1 DEF InHand
<1>5. Sequenced'
  BY <1>1, <1>3 DEF Inv, Sequenced
<1>6. TypeOK'
  BY <1>1, <1>2, <1>5, SeqRange DEF Inv, TypeOK, Sequenced
<1>7. m \notin InTransit \union RangeOf(queue) \union InHand \union RangeOf(rows) \union lost
  BY <1>1 DEF Inv, NothingLost
<1>8. NothingLost'
  BY <1>1, <1>3, <1>4, <1>7 DEF Inv, NothingLost
<1>9. \A c, d \in Channels : \A i \in DOMAIN transit'[c], j \in DOMAIN transit'[d] :
        transit'[c][i] = transit'[d][j] => c = d /\ i = j
  <2>1. /\ DOMAIN transit'[counter] = DOMAIN transit[counter] \union {Len(transit[counter]) + 1}
        /\ Len(transit[counter]) + 1 \notin DOMAIN transit[counter]
        /\ transit'[counter][Len(transit[counter]) + 1] = m
        /\ \A i \in DOMAIN transit[counter] : transit'[counter][i] = transit[counter][i]
        /\ \A c \in Channels \ {counter} : transit'[c] = transit[c]
    BY <1>1, <1>2, RangeOfAppend DEF Inv, Sequenced
  <2>2. \A c \in Channels : \A i \in DOMAIN transit'[c] :
          \/ i \in DOMAIN transit[c] /\ transit'[c][i] = transit[c][i] /\ transit[c][i] # m
          \/ c = counter /\ i = Len(transit[counter]) + 1 /\ transit'[c][i] = m
    BY <1>2, <1>7, <2>1, TransitFacts DEF Inv
  <2> QED BY <2>2 DEF Inv, TransitOnce
<1>10. TransitOnce'
  BY <1>1, <1>3, <1>4, <1>7, <1>9 DEF Inv, TransitOnce
<1>11. OnePlace' /\ FirstRow' /\ DuplicatesExplained'
  BY <1>1, <1>4 DEF Inv, OnePlace, FirstRow, DuplicatesExplained
<1>12. Down'
  BY <1>1 DEF Inv, Down
<1> QED BY <1>5, <1>6, <1>8, <1>10, <1>11, <1>12 DEF Inv

LEMMA ArriveKeeps ==
  ASSUME Inv, NEW c \in Channels, Arrive(c)
  PROVE  Inv'
<1> DEFINE h == Head(transit[c])
<1>1. /\ transit[c] # <<>> /\ transit' = [transit EXCEPT ![c] = Tail(@)]
      /\ \/ queue' = Append(queue, h) /\ lost' = lost
         \/ lost' = lost \union {h} /\ queue' = queue
      /\ UNCHANGED <<up, deaths, counter, declared, worker, inHand, failures, rows, published,
                     redelivered>>
  BY DEF Arrive, process, brokerVars, workerVars
<1>2. /\ h \in Messages /\ h \in InTransit
      /\ InTransit' = InTransit \ {h}
      /\ transit' \in [Channels -> Seq(Messages)]
      /\ \A b, d \in Channels : \A i \in DOMAIN transit'[b], j \in DOMAIN transit'[d] :
           transit'[b][i] = transit'[d][j] => b = d /\ i = j
  BY <1>1, Received DEF Inv
<1>3. InHand' = InHand
  BY <1>1 DEF InHand
<1>4. /\ h \notin RangeOf(queue) \union InHand \union RangeOf(rows) \union lost
      /\ h \in published
  BY <1>2 DEF Inv, TransitOnce, NothingLost
<1> HIDE DEF h
<1>5. /\ queue' \in Seq(Messages)
      /\ \/ RangeOf(queue') = RangeOf(queue) \union {h} /\ lost' = lost
         \/ RangeOf(queue') = RangeOf(queue) /\ lost' = lost \union {h}
      /\ \A i, j \in DOMAIN queue' : queue'[i] = queue'[j] => i = j
  <2>1. queue \in Seq(Messages)
    BY DEF Inv, Sequenced
  <2>2. CASE queue' = queue /\ lost' = lost \union {h}
    BY <2>1, <2>2 DEF Inv, OnePlace
  <2>3. CASE queue' = Append(queue, h) /\ lost' = lost
    <3>1. /\ DOMAIN queue' = DOMAIN queue \union {Len(queue) + 1}
          /\ queue'[Len(queue) + 1] = h /\ \A i \in DOMAIN queue : queue'[i] = queue[i]
          /\ RangeOf(queue') = RangeOf(queue) \union {h} /\ queue' \in Seq(Messages)
      BY <1>2, <2>1, <2>3, RangeOfAppend
    <3>2. \A i \in DOMAIN queue : queue[i] # h
      BY <1>4 DEF RangeOf
    <3> QED BY <2>3, <3>1, <3>2 DEF Inv, OnePlace
  <2> QED BY <1>1, <2>2, <2>3
<1>6. Sequenced'
  BY <1>1, <1>2, <1>5 DEF Inv, Sequenced
<1>7. TypeOK'
  <2>1. lost' \subseteq published'
    BY <1>1, <1>4 DEF Inv, TypeOK
  <2> QED BY <1>1, <1>6, <2>1, SeqRange DEF Inv, TypeOK, Sequenced
<1>8. RangeOf(queue)' = RangeOf(queue') /\ RangeOf(rows)' = RangeOf(rows)
  BY <1>1 DEF RangeOf
<1>9. NothingLost'
  BY <1>1, <1>2, <1>3, <1>4, <1>5, <1>8 DEF Inv, NothingLost
<1>10. TransitOnce'
  BY <1>2, <1>3, <1>5, <1>8 DEF Inv, TransitOnce
<1>11. OnePlace'
  BY <1>1, <1>3, <1>4, <1>5, <1>8 DEF Inv, OnePlace
<1>12. FirstRow' /\ DuplicatesExplained'
  BY <1>1, <1>4, <1>5, <1>8 DEF Inv, FirstRow, DuplicatesExplained
<1>13. Down'
  BY <1>1 DEF Inv, Down
<1> QED BY <1>6, <1>7, <1>9, <1>10, <1>11, <1>12, <1>13 DEF Inv

LEMMA ConsumeKeeps ==
  ASSUME Inv, NEW w \in Workers, Consume(w)
  PROVE  Inv'
<1> DEFINE h == Head(queue)
<1>1. /\ worker[w] = "waiting" /\ queue # <<>> /\ queue' = Tail(queue)
      /\ inHand' = [inHand EXCEPT ![w] = h]
      /\ worker' = [worker EXCEPT ![w] = "handling"]
      /\ UNCHANGED <<up, deaths, counter, transit, declared, rows, failures, published,
                     redelivered, lost>>
  BY DEF Consume, process
<1>2. /\ h \in Messages /\ queue' \in Seq(Messages)
      /\ 1 \in DOMAIN queue /\ queue[1] = h
      /\ \A i \in DOMAIN queue' : i + 1 \in DOMAIN queue /\ queue'[i] = queue[i + 1]
                                 /\ i + 1 # 1 /\ i \in Nat
      /\ RangeOf(queue) = {h} \union RangeOf(queue')
  BY <1>1, RangeOfTail DEF Inv, Sequenced
<1>3. inHand[w] = None
  BY <1>1 DEF Inv, TypeOK
<1>4. InHand' = InHand \union {h}
  BY <1>1, <1>2, <1>3, HandFilled DEF Inv
<1> HIDE DEF h
<1>5. h \notin RangeOf(queue') /\ h \notin InHand
  BY <1>2 DEF Inv, OnePlace, RangeOf
<1>6. \A i, j \in DOMAIN queue' : queue'[i] = queue'[j] => i = j
  <2> SUFFICES ASSUME NEW i \in DOMAIN queue', NEW j \in DOMAIN queue', queue'[i] = queue'[j]
               PROVE  i = j
    OBVIOUS
  <2>1. i + 1 = j + 1 /\ i \in Nat /\ j \in Nat
    BY <1>2 DEF Inv, OnePlace
  <2> QED BY <2>1
<1>7. /\ RangeOf(queue)' = RangeOf(queue') /\ RangeOf(rows)' = RangeOf(rows)
      /\ InTransit' = InTransit
  BY <1>1 DEF RangeOf, InTransit
<1>8. Sequenced'
  BY <1>1, <1>2 DEF Inv, Sequenced
<1>9. TypeOK'
  <2>1. h # None
    BY <1>2, QueueAssumption
  <2> QED BY <1>1, <1>2, <1>8, <2>1, SeqRange DEF Inv, TypeOK, Sequenced
<1>10. NothingLost'
  BY <1>1, <1>2, <1>4, <1>7 DEF Inv, NothingLost
<1>11. TransitOnce'
  BY <1>1, <1>2, <1>4, <1>7 DEF Inv, TransitOnce
<1>12. OnePlace'
  <2>1. \A v \in Workers : inHand[v] # h
    BY <1>2, <1>5, QueueAssumption DEF InHand
  <2> QED BY <1>1, <1>2, <1>4, <1>5, <1>6, <1>7, <2>1 DEF Inv, OnePlace, TypeOK
<1>13. FirstRow'
  BY <1>1, <1>2, <1>7 DEF Inv, FirstRow, TypeOK
<1>14. DuplicatesExplained'
  BY <1>1 DEF Inv, DuplicatesExplained
<1>15. Down'
  BY <1>1 DEF Inv, Down, TypeOK
<1> QED BY <1>8, <1>9, <1>10, <1>11, <1>12, <1>13, <1>14, <1>15 DEF Inv

LEMMA HandleKeeps ==
  ASSUME Inv, NEW w \in Workers, Handle(w)
  PROVE  Inv'
<1> DEFINE m == inHand[w]
<1>1. /\ worker[w] = "handling" /\ rows' = Append(rows, m)
      /\ worker' = [worker EXCEPT ![w] = "acking"]
      /\ UNCHANGED <<up, deaths, counter, transit, declared, queue, inHand, failures, published,
                     redelivered, lost>>
  BY DEF Handle, process, brokerVars
<1>2. m \in Messages /\ m \in InHand
  BY <1>1 DEF Inv, TypeOK, InHand
<1> HIDE DEF m
<1>3. /\ rows' \in Seq(Messages) /\ RangeOf(rows') = RangeOf(rows) \union {m}
      /\ DOMAIN rows' = DOMAIN rows \union {Len(rows) + 1}
      /\ rows'[Len(rows) + 1] = m /\ \A i \in DOMAIN rows : rows'[i] = rows[i]
  BY <1>1, <1>2, RangeOfAppend DEF Inv, Sequenced
<1>4. /\ RangeOf(queue)' = RangeOf(queue) /\ RangeOf(rows)' = RangeOf(rows')
      /\ InTransit' = InTransit /\ InHand' = InHand
  BY <1>1 DEF RangeOf, InTransit, InHand
<1>5. Sequenced'
  BY <1>1, <1>3 DEF Inv, Sequenced
<1>6. TypeOK'
  BY <1>1, <1>5, SeqRange DEF Inv, TypeOK, Sequenced
<1>7. NothingLost' /\ TransitOnce'
  BY <1>1, <1>2, <1>3, <1>4 DEF Inv, NothingLost, TransitOnce
<1>8. OnePlace'
  BY <1>1, <1>4 DEF Inv, OnePlace
<1>9. \A v \in Workers : v # w => inHand[v] # m
  BY <1>2, QueueAssumption DEF Inv, OnePlace, m
<1>10. FirstRow'
  <2>1. RangeOf(queue)' \intersect RangeOf(rows)' \subseteq redelivered'
    BY <1>1, <1>2, <1>3, <1>4 DEF Inv, FirstRow, OnePlace
  <2>2. ASSUME NEW v \in Workers, worker'[v] = "handling", inHand'[v] \in RangeOf(rows')
        PROVE  inHand'[v] \in redelivered'
    BY <1>1, <1>3, <1>9, <2>2 DEF Inv, FirstRow, TypeOK
  <2>3. ASSUME NEW v \in Workers, worker'[v] = "acking"
        PROVE  inHand'[v] \in RangeOf(rows')
    BY <1>1, <1>3, <2>3 DEF Inv, FirstRow, TypeOK, m
  <2> QED BY <1>4, <2>1, <2>2, <2>3 DEF FirstRow
<1>11. DuplicatesExplained'
  <2>1. m \in RangeOf(rows) => m \in redelivered
    BY <1>1 DEF Inv, FirstRow, m
  <2>2. \A i \in DOMAIN rows : rows[i] \in RangeOf(rows)
    BY DEF RangeOf
  <2> QED BY <1>1, <1>3, <2>1, <2>2 DEF Inv, DuplicatesExplained
<1>12. Down'
  BY <1>1 DEF Inv, Down, TypeOK
<1> QED BY <1>5, <1>6, <1>7, <1>8, <1>10, <1>11, <1>12 DEF Inv

LEMMA AckKeeps ==
  ASSUME Inv, NEW w \in Workers, Ack(w)
  PROVE  Inv'
<1>1. /\ worker[w] = "acking" /\ inHand' = [inHand EXCEPT ![w] = None]
      /\ worker' = [worker EXCEPT ![w] = "waiting"]
      /\ UNCHANGED <<up, deaths, counter, transit, declared, queue, rows, failures, published,
                     redelivered, lost>>
  BY DEF Ack, process, brokerVars
<1>2. inHand[w] # None /\ inHand[w] \in RangeOf(rows)
  BY <1>1 DEF Inv, TypeOK, FirstRow
<1>3. InHand' = InHand \ {inHand[w]}
  BY <1>1, <1>2, HandEmptied DEF Inv
<1>4. /\ RangeOf(queue)' = RangeOf(queue) /\ RangeOf(rows)' = RangeOf(rows)
      /\ InTransit' = InTransit
  BY <1>1 DEF RangeOf, InTransit
<1>5. TypeOK' /\ Sequenced'
  BY <1>1 DEF Inv, TypeOK, Sequenced
<1>6. NothingLost' /\ TransitOnce'
  BY <1>1, <1>2, <1>3, <1>4 DEF Inv, NothingLost, TransitOnce
<1>7. OnePlace'
  BY <1>1, <1>3, <1>4 DEF Inv, TypeOK, OnePlace
<1>8. FirstRow' /\ DuplicatesExplained'
  BY <1>1, <1>4 DEF Inv, TypeOK, FirstRow, DuplicatesExplained
<1>9. Down'
  BY <1>1 DEF Inv, Down, TypeOK
<1> QED BY <1>5, <1>6, <1>7, <1>8, <1>9 DEF Inv

LEMMA WorkerFailsKeeps ==
  ASSUME Inv, NEW w \in Workers, WorkerFails(w)
  PROVE  Inv'
<1> DEFINE m == inHand[w]
<1>1. /\ worker[w] \in {"handling", "acking"} /\ failures < MaxFailures
      /\ failures' = failures + 1
      /\ worker' = [worker EXCEPT ![w] = "ended"]
      /\ queue' = <<m>> \o queue
      /\ redelivered' = redelivered \union {m}
      /\ inHand' = [inHand EXCEPT ![w] = None]
      /\ UNCHANGED <<up, deaths, counter, transit, declared, rows, published, lost>>
  BY DEF WorkerFails, process
<1>2. inHand[w] # None
  BY <1>1 DEF Inv, TypeOK
<1>3. m \in Messages /\ m \in InHand /\ InHand' = InHand \ {m}
  BY <1>1, <1>2, HandEmptied DEF Inv
<1>4. m \in published /\ m \notin RangeOf(queue) /\ m \notin InTransit
  BY <1>3 DEF Inv, NothingLost, OnePlace, TransitOnce
<1>5. \A v \in Workers : v # w => inHand[v] # m
  BY <1>2 DEF Inv, OnePlace
<1> HIDE DEF m
<1>6. queue \in Seq(Messages) /\ <<m>> \in Seq(Messages) /\ RangeOf(<<m>>) = {m}
  BY <1>3 DEF Inv, Sequenced, RangeOf
<1>7. queue' \in Seq(Messages) /\ RangeOf(queue') = RangeOf(queue) \union {m}
  <2> DEFINE head == <<m>>
  <2>1. queue' = head \o queue /\ head \in Seq(Messages) /\ RangeOf(head) = {m}
    BY <1>1, <1>6
  <2> HIDE DEF head
  <2>2. head \o queue \in Seq(Messages) /\ RangeOf(head \o queue) = RangeOf(head) \union RangeOf(queue)
    BY <1>6, <2>1, RangeOfConcat
  <2> QED BY <2>1, <2>2
<1>8. \A i, j \in DOMAIN queue' : queue'[i] = queue'[j] => i = j
  <2> DEFINE head == <<m>>
  <2>1. \A i, j \in DOMAIN head : i = j
    OBVIOUS
  <2>2. /\ \A i, j \in DOMAIN head : head[i] = head[j] => i = j
        /\ queue' = head \o queue /\ head \in Seq(Messages) /\ RangeOf(head) = {m}
    BY <1>1, <1>6, <2>1
  <2>3. \A i, j \in DOMAIN queue : queue[i] = queue[j] => i = j
    BY DEF Inv, OnePlace
  <2> HIDE DEF head
  <2>4. RangeOf(head) \intersect RangeOf(queue) = {}
    BY <1>4, <2>2
  <2>5. \A i, j \in DOMAIN (head \o queue) : (head \o queue)[i] = (head \o queue)[j] => i = j
    BY <1>6, <2>2, <2>3, <2>4, ConcatOnce
  <2> QED BY <2>2, <2>5
<1>9. /\ RangeOf(queue)' = RangeOf(queue') /\ RangeOf(rows)' = RangeOf(rows)
      /\ InTransit' = InTransit
  BY <1>1 DEF RangeOf, InTransit
<1>10. Sequenced'
  BY <1>1, <1>7 DEF Inv, Sequenced
<1>11. TypeOK'
  <2>1. redelivered' \subseteq published'
    BY <1>1, <1>4 DEF Inv, TypeOK
  <2>2. failures' \in 0..MaxFailures
    BY <1>1, QueueAssumption DEF Inv, TypeOK
  <2> QED BY <1>1, <1>10, <2>1, <2>2, SeqRange DEF Inv, TypeOK, Sequenced
<1>12. NothingLost' /\ TransitOnce'
  BY <1>1, <1>3, <1>4, <1>7, <1>9 DEF Inv, NothingLost, TransitOnce
<1>13. OnePlace'
  BY <1>1, <1>3, <1>5, <1>7, <1>8, <1>9 DEF Inv, TypeOK, OnePlace
<1>14. FirstRow' /\ DuplicatesExplained'
  BY <1>1, <1>7, <1>9 DEF Inv, TypeOK, FirstRow, DuplicatesExplained
<1>15. Down'
  BY <1>1 DEF Inv, Down, TypeOK
<1> QED BY <1>10, <1>11, <1>12, <1>13, <1>14, <1>15 DEF Inv

LEMMA ProcessDiesKeeps ==
  ASSUME Inv, ProcessDies
  PROVE  Inv'
<1> DEFINE n == Cardinality(InHand)
<1>1. /\ up /\ deaths < MaxDeaths /\ up' = FALSE /\ deaths' = deaths + 1
      /\ redelivered' = redelivered \union InHand
      /\ lost' = lost \union InTransit
      /\ counter' = 0
      /\ transit' = [c \in Channels |-> <<>>]
      /\ worker' = [w \in Workers |-> "off"]
      /\ inHand' = [w \in Workers |-> None]
      /\ failures' = 0
      /\ UNCHANGED <<declared, rows, published>>
  BY DEF ProcessDies
<1>2. PICK back \in [1..n -> InHand] : RangeOf(back) = InHand /\ queue' = back \o queue
  BY DEF ProcessDies
<1>3. InHand \subseteq Messages /\ n \in Nat /\ IsFiniteSet(InHand)
  <2>1. InHand \subseteq Messages
    BY InHandFinite DEF Inv
  <2> QED BY <2>1, FS_Subset, QueueAssumption, InHandFinite DEF Inv
<1>4. back \in Seq(Messages)
  BY <1>2, <1>3
<1>5. \A i, j \in DOMAIN back : back[i] = back[j] => i = j
  <2>1. IsFiniteSet(1..n) /\ Cardinality(1..n) = n
    BY <1>3, FS_Interval
  <2>2. back \in Surjection(1..n, InHand)
    BY <1>2 DEF Surjection, RangeOf
  <2>3. back \in Injection(1..n, InHand)
    BY <2>1, <2>2, FS_SurjSameCardinalityImpliesInj
  <2> QED BY <1>2, <2>3 DEF Injection, IsInjective
<1> HIDE DEF n
<1>6. queue' \in Seq(Messages) /\ RangeOf(queue') = InHand \union RangeOf(queue)
  BY <1>2, <1>4, RangeOfConcat DEF Inv, Sequenced
<1>7. \A i, j \in DOMAIN queue' : queue'[i] = queue'[j] => i = j
  <2>1. RangeOf(back) \intersect RangeOf(queue) = {}
    BY <1>2 DEF Inv, OnePlace
  <2>2. queue \in Seq(Messages) /\ \A i, j \in DOMAIN queue : queue[i] = queue[j] => i = j
    BY DEF Inv, OnePlace, Sequenced
  <2>3. \A i, j \in DOMAIN (back \o queue) : (back \o queue)[i] = (back \o queue)[j] => i = j
    BY <1>4, <1>5, <2>1, <2>2, ConcatOnce
  <2> QED BY <1>2, <2>3
<1>8. /\ \A c \in Channels : transit'[c] = <<>> /\ DOMAIN transit'[c] = {} /\ RangeOf(transit'[c]) = {}
      /\ \A w \in Workers : inHand'[w] = None /\ worker'[w] = "off"
  <2>1. \A c \in Channels : transit'[c] = <<>>
    BY <1>1
  <2>2. DOMAIN <<>> = {}
    OBVIOUS
  <2> QED BY <1>1, <2>1, <2>2, RangeOfEmpty
<1>9. InTransit' = {} /\ InHand' = {}
  BY <1>8 DEF InTransit, InHand, RangeOf
<1>10. RangeOf(queue)' = RangeOf(queue') /\ RangeOf(rows)' = RangeOf(rows)
  BY <1>1 DEF RangeOf
<1>11. Sequenced'
  BY <1>1, <1>6 DEF Inv, Sequenced
<1>12. InTransit \union InHand \subseteq published
  BY DEF Inv, NothingLost
<1>13. TypeOK'
  <2>1. redelivered' \subseteq published' /\ lost' \subseteq published' /\ published' \subseteq Messages
    BY <1>1, <1>12 DEF Inv, TypeOK
  <2>2. /\ deaths' \in 0..MaxDeaths /\ failures' \in 0..MaxFailures /\ counter' \in Channels
    BY <1>1, QueueAssumption DEF Inv, TypeOK, Channels
  <2>3. up' \in BOOLEAN /\ declared' \in BOOLEAN
    BY <1>1, Zenon DEF Inv, TypeOK
  <2>4. /\ worker' \in [Workers -> {"off", "starting", "waiting", "handling", "acking", "ended"}]
        /\ inHand' \in [Workers -> Messages \union {None}]
    BY <1>1
  <2> QED BY <1>8, <1>11, <2>1, <2>2, <2>3, <2>4, SeqRange DEF TypeOK, Sequenced
<1>14. NothingLost'
  BY <1>1, <1>6, <1>9, <1>10 DEF Inv, NothingLost, TransitOnce
<1>15. TransitOnce'
  BY <1>8, <1>9 DEF TransitOnce
<1>16. OnePlace'
  BY <1>7, <1>8, <1>9 DEF OnePlace
<1>17. FirstRow' /\ DuplicatesExplained'
  BY <1>1, <1>6, <1>8, <1>10 DEF Inv, FirstRow, DuplicatesExplained
<1>18. Down'
  BY <1>8 DEF Down
<1> QED BY <1>11, <1>13, <1>14, <1>15, <1>16, <1>17, <1>18 DEF Inv

\* Start and DeclareQueue move no message.
LEMMA QuietKeeps ==
  ASSUME Inv, Start \/ \E w \in Workers : DeclareQueue(w)
  PROVE  Inv'
<1>1. UNCHANGED <<deaths, counter, transit, queue, inHand, failures, rows, published, redelivered, lost>>
  BY DEF Start, DeclareQueue, brokerVars, process
<1>2. up' \in BOOLEAN /\ declared' \in BOOLEAN
  BY Zenon DEF Inv, TypeOK, Start, DeclareQueue, brokerVars, process
<1>3. /\ worker' \in [Workers -> {"off", "starting", "waiting", "handling", "acking", "ended"}]
      /\ \A w \in Workers : worker'[w] # worker[w]
           => worker'[w] \in {"starting", "waiting"} /\ worker[w] \in {"off", "starting"}
  BY DEF Inv, TypeOK, Start, DeclareQueue, Down
<1>4. TypeOK'
  BY <1>1, <1>2, <1>3 DEF Inv, TypeOK, RangeOf
<1>5. /\ RangeOf(queue)' = RangeOf(queue) /\ RangeOf(rows)' = RangeOf(rows)
      /\ InTransit' = InTransit /\ InHand' = InHand
  BY <1>1 DEF RangeOf, InTransit, InHand
<1>6. Sequenced' /\ NothingLost' /\ TransitOnce' /\ OnePlace' /\ DuplicatesExplained'
  BY <1>1, <1>5 DEF Inv, Sequenced, NothingLost, TransitOnce, OnePlace, DuplicatesExplained
<1>7. FirstRow'
  BY <1>1, <1>3, <1>5 DEF Inv, FirstRow
<1>8. Down'
  <2>1. CASE Start
    BY <2>1 DEF Start, Down
  <2>2. CASE \E w \in Workers : DeclareQueue(w)
    BY <2>2 DEF Inv, TypeOK, DeclareQueue, process, Down
  <2> QED BY <2>1, <2>2
<1> QED BY <1>4, <1>6, <1>7, <1>8 DEF Inv

LEMMA StutterKeeps == ASSUME Inv, UNCHANGED vars PROVE Inv'
<1>1. UNCHANGED <<up, deaths, counter, transit, declared, queue, worker, inHand, rows, failures,
                  published, redelivered, lost>>
  BY DEF vars, process, brokerVars, workerVars
<1>2. TypeOK'
  BY <1>1 DEF Inv, TypeOK, RangeOf
<1>3. /\ RangeOf(queue)' = RangeOf(queue) /\ RangeOf(rows)' = RangeOf(rows)
      /\ InTransit' = InTransit /\ InHand' = InHand
  BY <1>1 DEF RangeOf, InTransit, InHand
<1>4. Sequenced' /\ NothingLost' /\ TransitOnce' /\ OnePlace' /\ DuplicatesExplained'
  BY <1>1, <1>3 DEF Inv, Sequenced, NothingLost, TransitOnce, OnePlace, DuplicatesExplained
<1>5. FirstRow' /\ Down'
  BY <1>1, <1>3 DEF Inv, FirstRow, Down
<1> QED BY <1>2, <1>4, <1>5 DEF Inv

LEMMA NextKeeps == ASSUME Inv, [Next]_vars PROVE Inv'
BY PublishKeeps, ArriveKeeps, ConsumeKeeps, HandleKeeps, AckKeeps, WorkerFailsKeeps,
   ProcessDiesKeeps, QuietKeeps, StutterKeeps DEF Next

LEMMA Invariant == Spec => []Inv
BY InitInv, NextKeeps, PTL DEF Spec

(* The variables keep their types, and a worker has a message exactly      *)
(* while it works on it, whatever fails.                                   *)
THEOREM TypeCorrect == Spec => []TypeOK
<1>1. Inv => TypeOK
  BY DEF Inv
<1> QED BY <1>1, Invariant, PTL

(* No statement is lost between delivery and acknowledgement, however many *)
(* workers end in exceptions and however often the process dies.           *)
THEOREM NothingIsLost == Spec => []NothingLost
<1>1. Inv => NothingLost
  BY DEF Inv
<1> QED BY <1>1, Invariant, PTL

(* A row is repeated only when its message was delivered again.            *)
THEOREM DuplicatesAreExplained == Spec => []DuplicatesExplained
<1>1. Inv => DuplicatesExplained
  BY DEF Inv
<1> QED BY <1>1, Invariant, PTL

-----------------------------------------------------------------------------
(* The steps of the queue are steps of the log.                            *)
Copies(r) == [m \in Messages |-> Cardinality({i \in DOMAIN r : r[i] = m})]

\* A row more is a copy more.
LEMMA CopyAdded ==
  ASSUME NEW r \in Seq(Messages), NEW m \in Messages
  PROVE  Copies(Append(r, m)) = [Copies(r) EXCEPT ![m] = @ + 1]
<1> DEFINE Where(x, y) == {i \in DOMAIN x : x[i] = y}
           new == Append(r, m)
<1>1. /\ DOMAIN new = DOMAIN r \union {Len(r) + 1} /\ Len(r) + 1 \notin DOMAIN r
      /\ new[Len(r) + 1] = m /\ \A i \in DOMAIN r : new[i] = r[i]
  BY RangeOfAppend
<1> HIDE DEF new
<1>2. Where(new, m) = Where(r, m) \union {Len(r) + 1} /\ Len(r) + 1 \notin Where(r, m)
  BY <1>1
<1>3. \A n \in Messages : n # m => Where(new, n) = Where(r, n)
  BY <1>1
<1>4. IsFiniteSet(Where(r, m))
  <2>1. IsFiniteSet(1..Len(r)) /\ DOMAIN r = 1..Len(r)
    BY LenProperties, FS_Interval
  <2> QED BY <2>1, FS_Subset
<1>5. Cardinality(Where(new, m)) = Cardinality(Where(r, m)) + 1
  BY <1>2, <1>4, FS_AddElement
<1>6. \A n \in Messages : Copies(new)[n] = Cardinality(Where(new, n)) /\ Copies(r)[n] = Cardinality(Where(r, n))
  BY DEF Copies
<1>7. Copies(r) \in [Messages -> {Copies(r)[n] : n \in Messages}]
  BY DEF Copies
<1>8. DOMAIN Copies(new) = Messages /\ DOMAIN Copies(r) = Messages
  BY DEF Copies
<1> HIDE DEF Where
<1>9. \A n \in Messages : Copies(new)[n] = [Copies(r) EXCEPT ![m] = @ + 1][n]
  BY <1>3, <1>5, <1>6, <1>8
<1>10. Copies(new) = [Copies(r) EXCEPT ![m] = @ + 1]
  BY <1>8, <1>9 DEF Copies
<1> QED BY <1>10 DEF new

\* What is in no row has no copy.
LEMMA NoCopy ==
  ASSUME NEW r \in Seq(Messages), NEW m \in Messages, m \notin RangeOf(r)
  PROVE  Copies(r)[m] = 0
<1>1. {i \in DOMAIN r : r[i] = m} = {}
  BY DEF RangeOf
<1> QED BY <1>1, FS_EmptySet DEF Copies

LEMMA LogStep == ASSUME Inv, [Next]_vars PROVE [Log!LogNext]_(Log!logVars)
<1> USE DEF Log!logVars
<1>1. CASE UNCHANGED <<published, lost, rows>>
  BY <1>1
<1>2. ASSUME NEW m \in Messages, Publish(m) PROVE Log!LogNext
  BY <1>2 DEF Publish, Log!LogNext, Log!Publish
<1>3. ASSUME NEW w \in Workers, Handle(w) PROVE Log!LogNext
  <2>1. inHand[w] \in Messages /\ inHand[w] \in InHand /\ rows' = Append(rows, inHand[w])
        /\ UNCHANGED <<published, lost>>
    BY <1>3 DEF Handle, Inv, TypeOK, InHand
  <2>2. inHand[w] \in published \ lost
    BY <2>1 DEF Inv, NothingLost
  <2>3. Copies(rows') = [Copies(rows) EXCEPT ![inHand[w]] = @ + 1]
    BY <2>1, CopyAdded DEF Inv, Sequenced
  <2>4. Log!Store(inHand[w])
    BY <2>1, <2>2, <2>3 DEF Log!Store, Copies
  <2> QED BY <2>1, <2>4 DEF Log!LogNext
<1>4. ASSUME NEW ms \in SUBSET InTransit, lost' = lost \union ms, UNCHANGED <<published, rows>>
      PROVE  Log!LogNext
  <2>1. \A m \in ms : /\ m \in Messages /\ m \in published \ lost /\ m \notin RangeOf(rows)
    BY TransitFacts DEF Inv, NothingLost, TransitOnce
  <2>2. \A m \in ms : Copies(rows)[m] = 0
    BY <2>1, NoCopy DEF Inv, Sequenced
  <2>3. ms \in SUBSET Log!Pending
    BY <2>1, <2>2 DEF Log!Pending, Copies
  <2>4. Log!Lose(ms)
    BY <1>4, <2>3 DEF Log!Lose
  <2> QED BY <2>3, <2>4 DEF Log!LogNext
<1>5. ASSUME NEW c \in Channels, Arrive(c) PROVE [Log!LogNext]_(Log!logVars)
  <2>1. Head(transit[c]) \in InTransit
    BY <1>5, Received DEF Inv, Arrive
  <2>2. /\ lost' = lost \/ lost' = lost \union {Head(transit[c])}
        /\ UNCHANGED <<published, rows>>
    BY <1>5 DEF Arrive
  <2> QED BY <1>1, <1>4, <2>1, <2>2
<1>6. CASE ProcessDies
  BY <1>4, <1>6 DEF ProcessDies
<1>7. CASE \/ Start \/ UNCHANGED vars
           \/ \E w \in Workers : DeclareQueue(w) \/ Consume(w) \/ Ack(w) \/ WorkerFails(w)
  BY <1>1, <1>7 DEF Start, vars, DeclareQueue, Consume, Ack, WorkerFails
<1> QED BY <1>2, <1>3, <1>5, <1>6, <1>7 DEF Next

(* What the queue promises the chat: every step is one of MessageLog, in   *)
(* which a message is stored, repeatedly perhaps, unless it was lost before*)
(* it had any row, and never after it was lost.                            *)
THEOREM ImplementsLogSteps == Spec => Log!LogSafety
<1>1. Init => Log!LogInit
  <2>1. ASSUME Init PROVE Copies(rows) = [m \in Messages |-> 0]
    <3>1. rows \in Seq(Messages) /\ RangeOf(rows) = {}
      BY <2>1, InitEmpty, InitInv DEF Inv, Sequenced
    <3> QED BY <3>1, NoCopy DEF Copies
  <2> QED BY <2>1 DEF Init, Log!LogInit, Copies
<1> QED BY <1>1, LogStep, Invariant, PTL DEF Spec, Log!LogSafety

-----------------------------------------------------------------------------
(* The conversations.  For any number of threads, conversations, requests  *)
(* and restarts: while nothing disturbs a conversation, at most one thread *)
(* is in it, and what it remembers is what was said, up to the one prompt  *)
(* or question of that thread's step.  What was said is a function of the  *)
(* log, and so is what a restart restores: most lemmas are about Repeated. *)

LEMMA LeastIndex ==
  ASSUME NEW S \in SUBSET Nat, S # {}
  PROVE  \E n \in S : \A m \in S : n <= m
<1> DEFINE R == {p \in Nat \X Nat : p[1] < p[2]}
<1>1. IsWellFoundedOn(R, Nat)
  BY NatLessThanWellFounded DEF OpToRel
<1> HIDE DEF R
<1>2. PICK n \in S : \A m \in S : <<m, n>> \notin R
  BY <1>1, WFMin
<1>3. ASSUME NEW m \in S PROVE n <= m
  <2>1. m \in Nat /\ n \in Nat /\ <<m, n>> \notin R
    BY <1>2
  <2>2. ~(m < n)
    BY <2>1 DEF R
  <2> QED BY <2>1, <2>2
<1> QED BY <1>3

-----------------------------------------------------------------------------
(* Repeated(s, times), by what the first elements of s contribute.         *)
Run(m, n) == [k \in 1..n |-> m]

Builds(f, s, times, n) ==
  f = [i \in 0..n |-> IF i = 0 THEN <<>> ELSE f[i - 1] \o Run(s[i], times[s[i]])]

LEMMA RunTyped ==
  ASSUME NEW S, NEW m \in S, NEW n \in Nat
  PROVE  /\ Run(m, n) \in Seq(S) /\ Len(Run(m, n)) = n
         /\ \A k \in 1..n : Run(m, n)[k] = m
         /\ n = 0 => Run(m, n) = <<>>
         /\ n = 1 => Run(m, n) = <<m>>
<1>1. Run(m, n) \in Seq(S) /\ Len(Run(m, n)) = n /\ \A k \in 1..n : Run(m, n)[k] = m
  BY DEF Run
<1>2. n = 0 => Run(m, n) = <<>>
  BY <1>1 DEF Run
<1>3. n = 1 => Run(m, n) = <<m>>
  BY <1>1 DEF Run
<1> QED BY <1>1, <1>2, <1>3

Grows(f, s, times, n) == /\ DOMAIN f = 0..n /\ f[0] = <<>>
                         /\ \A i \in 1..n : f[i] = f[i - 1] \o Run(s[i], times[s[i]])

LEMMA BuildsStep ==
  ASSUME NEW f, NEW s, NEW times, NEW n \in Nat, Builds(f, s, times, n)
  PROVE  Grows(f, s, times, n)
<1>1. 0 \in 0..n /\ \A i \in 1..n : i \in 0..n /\ i # 0
  OBVIOUS
<1> QED BY <1>1 DEF Builds, Grows

\* What does not differ where it counts builds the same.
LEMMA BuildsSame ==
  ASSUME NEW f, NEW g, NEW s, NEW r, NEW times, NEW times2, NEW n \in Nat,
         Builds(f, s, times, n), Builds(g, r, times2, n),
         \A i \in 1..n : times[s[i]] = times2[r[i]] /\ (times[s[i]] # 0 => s[i] = r[i]),
         \A i \in 1..n : times[s[i]] \in Nat
  PROVE  f = g
<1>1. /\ DOMAIN f = 0..n /\ f[0] = <<>> /\ DOMAIN g = 0..n /\ g[0] = <<>>
      /\ \A i \in 1..n : f[i] = f[i - 1] \o Run(s[i], times[s[i]])
      /\ \A i \in 1..n : g[i] = g[i - 1] \o Run(r[i], times2[r[i]])
  <2>1. Grows(f, s, times, n) /\ Grows(g, r, times2, n)
    BY BuildsStep, Zenon
  <2> QED BY <2>1, Zenon DEF Grows
<1>2. \A i \in 1..n : Run(s[i], times[s[i]]) = Run(r[i], times2[r[i]])
  <2> SUFFICES ASSUME NEW i \in 1..n PROVE Run(s[i], times[s[i]]) = Run(r[i], times2[r[i]])
    OBVIOUS
  <2>1. CASE times[s[i]] = 0
    <3>1. \A m : Run(m, 0) = <<>>
      BY RunTyped
    <3> QED BY <2>1, <3>1
  <2>2. CASE times[s[i]] # 0
    BY <2>2
  <2> QED BY <2>1, <2>2
<1>3. \A i \in 0..n : f[i] = g[i]
  <2> DEFINE Bad == {i \in 0..n : f[i] # g[i]}
  <2> SUFFICES ASSUME Bad # {} PROVE FALSE
    OBVIOUS
  <2>1. PICK b \in Bad : \A m \in Bad : b <= m
    <3>1. Bad \in SUBSET Nat
      OBVIOUS
    <3> HIDE DEF Bad
    <3> QED BY <3>1, LeastIndex
  <2>2. b \in 0..n /\ f[b] # g[b] /\ b # 0
    BY <1>1, <2>1
  <2>3. b \in 1..n /\ b - 1 \in 0..n /\ ~(b <= b - 1)
    BY <2>2
  <2>4. f[b - 1] = g[b - 1]
    BY <2>1, <2>3
  <2>5. f[b] = f[b - 1] \o Run(s[b], times[s[b]]) /\ g[b] = g[b - 1] \o Run(r[b], times2[r[b]])
    BY <1>1, <2>3
  <2>6. Run(s[b], times[s[b]]) = Run(r[b], times2[r[b]])
    BY <1>2, <2>3
  <2> HIDE DEF Bad
  <2> QED BY <2>2, <2>4, <2>5, <2>6
<1>4. f = [i \in 0..n |-> f[i]] /\ g = [i \in 0..n |-> g[i]]
  BY DEF Builds
<1> QED BY <1>3, <1>4

\* One element more.
Extends(g, f, s, times, n) == /\ Builds(g, s, times, n + 1)
                              /\ g[n + 1] = f[n] \o Run(s[n + 1], times[s[n + 1]])

LEMMA BuildsMore ==
  ASSUME NEW f, NEW s, NEW times, NEW n \in Nat, Builds(f, s, times, n)
  PROVE  \E g : Extends(g, f, s, times, n)
<1> DEFINE g == [i \in 0..n + 1 |-> IF i <= n THEN f[i] ELSE f[n] \o Run(s[n + 1], times[s[n + 1]])]
<1>1. /\ DOMAIN f = 0..n /\ f[0] = <<>>
      /\ \A i \in 1..n : f[i] = f[i - 1] \o Run(s[i], times[s[i]])
  <2>1. Grows(f, s, times, n)
    BY BuildsStep, Zenon
  <2> QED BY <2>1, Zenon DEF Grows
<1>2. ASSUME NEW i \in 0..n + 1
      PROVE  g[i] = IF i = 0 THEN <<>> ELSE g[i - 1] \o Run(s[i], times[s[i]])
  <2>1. CASE i = 0
    BY <1>1, <2>1
  <2>2. CASE i # 0 /\ i <= n
    <3>1. i \in 1..n /\ i - 1 \in 0..n + 1 /\ i - 1 <= n
      BY <2>2
    <3>2. g[i] = f[i] /\ g[i - 1] = f[i - 1]
      BY <2>2, <3>1
    <3> HIDE DEF g
    <3> QED BY <1>1, <2>2, <3>1, <3>2
  <2>3. CASE ~(i <= n)
    <3>1. i = n + 1 /\ i # 0 /\ i - 1 = n /\ n \in 0..n + 1 /\ n <= n
      BY <2>3
    <3>2. g[i] = f[n] \o Run(s[n + 1], times[s[n + 1]]) /\ g[n] = f[n]
      BY <2>3, <3>1
    <3> HIDE DEF g
    <3> QED BY <3>1, <3>2
  <2> QED BY <2>1, <2>2, <2>3
<1>3. g = [i \in 0..n + 1 |-> g[i]]
  OBVIOUS
<1>4. g[n + 1] = f[n] \o Run(s[n + 1], times[s[n + 1]])
  <2>1. n + 1 \in 0..n + 1 /\ ~(n + 1 <= n)
    OBVIOUS
  <2> QED BY <2>1
<1> HIDE DEF g
<1>5. Builds(g, s, times, n + 1)
  BY <1>2, <1>3 DEF Builds
<1> QED BY <1>4, <1>5 DEF Extends

LEMMA BuildsExists ==
  ASSUME NEW s, NEW times, NEW n \in Nat
  PROVE  \E f : Builds(f, s, times, n)
<1> DEFINE Bad == {i \in Nat : ~\E f : Builds(f, s, times, i)}
<1> SUFFICES ASSUME Bad # {} PROVE FALSE
  OBVIOUS
<1>1. PICK b \in Bad : \A m \in Bad : b <= m
  <2> HIDE DEF Bad
  <2>1. Bad \in SUBSET Nat
    BY DEF Bad
  <2> QED BY <2>1, LeastIndex
<1>2. b \in Nat /\ ~\E f : Builds(f, s, times, b)
  OBVIOUS
<1>3. b # 0
  <2> DEFINE f == [i \in 0..0 |-> <<>>]
  <2>1. \A i \in 0..0 : i = 0
    OBVIOUS
  <2>2. f = [i \in 0..0 |-> IF i = 0 THEN <<>> ELSE f[i - 1] \o Run(s[i], times[s[i]])]
    BY <2>1
  <2> HIDE DEF f
  <2>3. Builds(f, s, times, 0)
    BY <2>2 DEF Builds
  <2> QED BY <1>2, <2>3
<1>4. PICK a \in Nat : b = a + 1 /\ ~(b <= a)
  <2>1. b - 1 \in Nat /\ b = b - 1 + 1 /\ ~(b <= b - 1)
    BY <1>2, <1>3
  <2> QED BY <2>1
<1>5. a \notin Bad
  BY <1>1, <1>4
<1>6. PICK f : Builds(f, s, times, a)
  BY <1>5
<1>7. \E g : Builds(g, s, times, a + 1)
  BY <1>6, BuildsMore, Zenon DEF Extends
<1> QED BY <1>2, <1>4, <1>7

LEMMA RepeatedBuilt ==
  ASSUME NEW s, NEW times, Len(s) \in Nat
  PROVE  \E f : Builds(f, s, times, Len(s)) /\ Repeated(s, times) = f[Len(s)]
<1>1. Repeated(s, times) = (CHOOSE f : Builds(f, s, times, Len(s)))[Len(s)]
  BY DEF Repeated, Builds, Run
<1>2. \E f : Builds(f, s, times, Len(s))
  BY BuildsExists
<1> QED BY <1>1, <1>2

LEMMA RepeatedEmpty == ASSUME NEW times PROVE Repeated(<<>>, times) = <<>>
<1>1. Len(<<>>) = 0
  BY EmptySeq
<1>2. PICK f : Builds(f, <<>>, times, 0) /\ Repeated(<<>>, times) = f[0]
  BY <1>1, RepeatedBuilt
<1>3. Grows(f, <<>>, times, 0)
  BY <1>2, BuildsStep, Zenon
<1> QED BY <1>2, <1>3 DEF Grows

\* Sequences that agree on what is repeated at all.
LEMMA RepeatedSame ==
  ASSUME NEW s, NEW r, NEW times, NEW times2, Len(s) \in Nat, Len(r) = Len(s),
         \A i \in 1..Len(s) : times[s[i]] = times2[r[i]] /\ (times[s[i]] # 0 => s[i] = r[i]),
         \A i \in 1..Len(s) : times[s[i]] \in Nat
  PROVE  Repeated(s, times) = Repeated(r, times2)
<1>1. PICK n \in Nat : n = Len(s) /\ n = Len(r)
  OBVIOUS
<1>2. PICK f : Builds(f, s, times, n) /\ Repeated(s, times) = f[n]
  BY <1>1, RepeatedBuilt
<1>3. PICK g : Builds(g, r, times2, n) /\ Repeated(r, times2) = g[n]
  BY <1>1, RepeatedBuilt
<1>4. /\ \A i \in 1..n : times[s[i]] = times2[r[i]] /\ (times[s[i]] # 0 => s[i] = r[i])
      /\ \A i \in 1..n : times[s[i]] \in Nat
  BY <1>1
<1>5. f = g
  BY <1>2, <1>3, <1>4, BuildsSame, Zenon
<1> QED BY <1>2, <1>3, <1>5

\* An element at the end.
LEMMA RepeatedAppend ==
  ASSUME NEW S, NEW s \in Seq(S), NEW m \in S, NEW times,
         times[m] \in Nat, \A i \in 1..Len(s) : times[s[i]] \in Nat
  PROVE  Repeated(Append(s, m), times) = Repeated(s, times) \o Run(m, times[m])
<1> DEFINE r == Append(s, m)
<1>1. /\ Len(s) \in Nat /\ Len(r) = Len(s) + 1 /\ r[Len(s) + 1] = m
      /\ \A i \in 1..Len(s) : r[i] = s[i]
  BY AppendProperties, LenProperties
<1> HIDE DEF r
<1>2. PICK n \in Nat : n = Len(s)
  BY <1>1
<1>3. PICK f : Builds(f, s, times, n) /\ Repeated(s, times) = f[n]
  BY <1>2, RepeatedBuilt
<1>4. PICK g : Builds(g, r, times, n)
  BY BuildsExists, Zenon
<1>5. f = g
  <2>1. \A i \in 1..n : /\ times[s[i]] = times[r[i]] /\ (times[s[i]] # 0 => s[i] = r[i])
                        /\ times[s[i]] \in Nat
    BY <1>1, <1>2
  <2> QED BY <1>3, <1>4, <2>1, BuildsSame, Zenon
<1>6. PICK h : Builds(h, r, times, n + 1) /\ h[n + 1] = g[n] \o Run(r[n + 1], times[r[n + 1]])
  <2>1. \E h : Extends(h, g, r, times, n)
    BY <1>4, BuildsMore, Zenon
  <2> QED BY <2>1, Zenon DEF Extends
<1>7. PICK k : Builds(k, r, times, n + 1) /\ Repeated(r, times) = k[n + 1]
  <2>1. Len(r) = n + 1 /\ Len(r) \in Nat
    BY <1>1, <1>2
  <2> QED BY <2>1, RepeatedBuilt
<1>8. h = k
  <2>1. n + 1 \in Nat /\ \A i \in 1..n + 1 : times[r[i]] \in Nat
    <3>1. \A i \in 1..n + 1 : i = n + 1 \/ i \in 1..n
      OBVIOUS
    <3> QED BY <1>1, <1>2, <3>1
  <2>2. \A i \in 1..n + 1 : times[r[i]] = times[r[i]] /\ (times[r[i]] # 0 => r[i] = r[i])
    OBVIOUS
  <2> QED BY <1>6, <1>7, <2>1, <2>2, BuildsSame, Zenon
<1>9. r[n + 1] = m
  BY <1>1, <1>2
<1> QED BY <1>3, <1>5, <1>6, <1>7, <1>8, <1>9 DEF r

\* It is made of elements of s, of those that times allows.
LEMMA RepeatedElements ==
  ASSUME NEW S, NEW s \in Seq(S), NEW times, \A i \in 1..Len(s) : times[s[i]] \in Nat
  PROVE  Repeated(s, times) \in Seq({s[i] : i \in {i \in 1..Len(s) : times[s[i]] > 0}})
<1> DEFINE T == {s[i] : i \in {i \in 1..Len(s) : times[s[i]] > 0}}
<1>1. PICK n \in Nat : n = Len(s)
  BY LenProperties
<1>2. PICK f : Builds(f, s, times, n) /\ Repeated(s, times) = f[n]
  BY <1>1, RepeatedBuilt
<1>3. Grows(f, s, times, n)
  BY <1>2, BuildsStep, Zenon
<1>4. ASSUME NEW i \in 1..n PROVE Run(s[i], times[s[i]]) \in Seq(T)
  <2>1. times[s[i]] \in Nat
    BY <1>1
  <2>2. CASE times[s[i]] = 0
    <3>1. Run(s[i], 0) = <<>>
      BY RunTyped
    <3> QED BY <2>2, <3>1, EmptySeq
  <2>3. CASE times[s[i]] > 0
    <3>1. s[i] \in T
      BY <1>1, <2>3
    <3> HIDE DEF T
    <3> QED BY <2>1, <3>1, RunTyped
  <2> QED BY <2>1, <2>2, <2>3
<1> HIDE DEF T
<1>5. \A i \in 0..n : f[i] \in Seq(T)
  <2> DEFINE Bad == {i \in 0..n : f[i] \notin Seq(T)}
  <2> SUFFICES ASSUME Bad # {} PROVE FALSE
    OBVIOUS
  <2>1. PICK b \in Bad : \A m \in Bad : b <= m
    <3>1. Bad \in SUBSET Nat
      OBVIOUS
    <3> HIDE DEF Bad
    <3> QED BY <3>1, LeastIndex
  <2>2. b \in 0..n /\ f[b] \notin Seq(T) /\ b # 0
    BY <1>3, <2>1, EmptySeq DEF Grows
  <2>3. b \in 1..n /\ b - 1 \in 0..n /\ ~(b <= b - 1)
    BY <2>2
  <2>4. f[b - 1] \in Seq(T)
    BY <2>1, <2>3
  <2>5. f[b] = f[b - 1] \o Run(s[b], times[s[b]])
    BY <1>3, <2>3 DEF Grows
  <2> QED BY <1>4, <2>2, <2>3, <2>4, <2>5, ConcatProperties
<1>6. Repeated(s, times) \in Seq(T)
  BY <1>2, <1>5
<1> QED BY <1>6 DEF T

LEMMA RepeatedNone ==
  ASSUME NEW S, NEW s \in Seq(S), NEW times, \A i \in 1..Len(s) : times[s[i]] = 0
  PROVE  Repeated(s, times) = <<>>
<1>1. Repeated(s, times) \in Seq({s[i] : i \in {i \in 1..Len(s) : times[s[i]] > 0}})
  BY RepeatedElements
<1>2. {s[i] : i \in {i \in 1..Len(s) : times[s[i]] > 0}} = {}
  OBVIOUS
<1>3. Repeated(s, times) \in Seq({})
  BY <1>1, <1>2
<1>4. \A q \in Seq({}) : q = <<>>
  <2> TAKE q \in Seq({})
  <2>1. Len(q) \in Nat /\ q \in [1..Len(q) -> {}]
    BY LenProperties
  <2>2. Len(q) = 0
    <3>1. Len(q) # 0 => 1 \in 1..Len(q)
      BY <2>1
    <3> QED BY <2>1, <3>1
  <2> QED BY <2>2, EmptySeq
<1> QED BY <1>3, <1>4

-----------------------------------------------------------------------------
(* The invariant.                                                          *)
AllMessages == [request : Requests, role : Roles \union {"prompt"}]
Steps == {"idle", "strategy", "branch", "prompt", "firstAsk", "pop", "secondPrompt", "secondAsk",
          "question", "publishQuestion", "ask", "answer", "publishAnswer"}
Prompted == {"firstAsk", "secondAsk", "pop"}

\* A thread at work has a request; what is in the log was asked, what has a row was published.
Served == /\ messages \in [Convs -> Seq(AllMessages)]
          /\ pc \in [Threads -> Steps]
          /\ \A t \in Threads : pc[t] # "idle" => running /\ req[t] \in 1..requests
          /\ log \in Seq(Utterances)
          /\ \A i \in 1..Len(log) : log[i].request \in 1..requests
          /\ \A m \in Utterances : stored[m] # 0 => m \in sent

ButLast(s) == SubSeq(s, 1, Len(s) - 1)

(* Where a thread at this step, alone in its conversation, leaves what is  *)
(* remembered: the whole exchanges that were said, and then the prompt of  *)
(* its request while the model is asked with it, or its question.          *)
Remembers(step, remembered, said, r, last) ==
  /\ step \notin Prompted => remembered = said
  /\ step \in Prompted => remembered = Append(said, Prompt(r))
  /\ step \notin {"publishQuestion", "ask", "answer"} => Alternates(said)
  /\ step \in {"publishQuestion", "ask", "answer"} =>
       said = Append(ButLast(said), Message(r, "question")) /\ Alternates(ButLast(said))
  /\ step \in {"question", "publishQuestion"} => last \in {"none", "kept"}

\* While nothing disturbs a conversation, at most one thread is in it.
Alone == \A t, u \in Threads :
           pc[t] # "idle" /\ pc[u] # "idle" /\ Conv(t) = Conv(u) /\ Conv(t) \notin disturbed => t = u

Kept == \A c \in Convs \ disturbed :
          /\ ~running => Alternates(SaidIn(c))
          /\ running /\ ~Busy(c) => Remembers("idle", messages[c], SaidIn(c), 0, "none")
          /\ \A t \in Threads : pc[t] # "idle" /\ Conv(t) = c =>
               Remembers(pc[t], messages[c], SaidIn(c), req[t], fresh[t])

\* A message is a prompt, or its publish() returned or threw, or its thread is about to call it.
Explained(m) ==
  \/ m.role = "prompt" \/ m \in sent \union failed
  \/ \E t \in Threads : /\ req[t] = m.request
                       /\ pc[t] = IF m.role = "question" THEN "publishQuestion" ELSE "publishAnswer"

Published == \A c \in Convs : \A i \in DOMAIN messages[c] : Explained(messages[c][i])

\* A vector is at least as long as there are prompts to be popped from it.
Prompting(c) == {t \in Threads : pc[t] \in Prompted /\ Conv(t) = c}
Pushed == \A c \in Convs : Cardinality(Prompting(c)) <= Len(messages[c])

ChatInv == ChatTypeOK /\ Served /\ Alone /\ Kept /\ Published /\ Pushed

-----------------------------------------------------------------------------
(* Sequences of messages.                                                  *)
LEMMA MessageFields ==
  /\ \A r, role : Message(r, role).request = r /\ Message(r, role).role = role
  /\ \A r \in Requests : \A role \in Roles : Message(r, role) \in Utterances
  /\ \A r \in Requests : Prompt(r) \in AllMessages /\ Prompt(r).role = "prompt" /\ Prompt(r).request = r
  /\ \A m \in Utterances : /\ m \in AllMessages /\ m.request \in Requests /\ m.role \in Roles
                           /\ m = Message(m.request, m.role)
<1>1. \A r, role : Message(r, role).request = r /\ Message(r, role).role = role
  BY DEF Message
<1>2. \A r \in Requests : \A role \in Roles : Message(r, role) \in Utterances
  BY DEF Utterances
<1>3. \A r \in Requests : \A role \in Roles \union {"prompt"} : Message(r, role) \in AllMessages
  BY DEF Message, AllMessages
<1>4. \A r \in Requests : Prompt(r) \in AllMessages /\ Prompt(r).role = "prompt" /\ Prompt(r).request = r
  BY <1>1, <1>3 DEF Prompt
<1>5. ASSUME NEW m \in Utterances
      PROVE  /\ m \in AllMessages /\ m.request \in Requests /\ m.role \in Roles
             /\ m = Message(m.request, m.role)
  <2>1. PICK r \in Requests, role \in Roles : m = Message(r, role)
    BY DEF Utterances
  <2> QED BY <1>1, <1>3, <2>1
<1> QED BY <1>1, <1>2, <1>4, <1>5

LEMMA UtterancesInAll == \A s \in Seq(Utterances) : s \in Seq(AllMessages)
<1>1. Utterances \subseteq AllMessages
  BY MessageFields
<1> QED BY <1>1, SeqMonotonic

LEMMA Appended ==
  ASSUME NEW S, NEW s \in Seq(S), NEW m \in S
  PROVE  /\ Append(s, m) \in Seq(S) /\ Len(Append(s, m)) = Len(s) + 1 /\ Len(s) \in Nat
         /\ DOMAIN s = 1..Len(s) /\ DOMAIN Append(s, m) = 1..Len(s) + 1
         /\ \A i \in 1..Len(s) : Append(s, m)[i] = s[i]
         /\ Append(s, m)[Len(s) + 1] = m
         /\ ButLast(Append(s, m)) = s
<1>1. /\ Append(s, m) \in Seq(S) /\ Len(Append(s, m)) = Len(s) + 1 /\ Len(s) \in Nat
      /\ DOMAIN s = 1..Len(s) /\ DOMAIN Append(s, m) = 1..Len(s) + 1
      /\ \A i \in 1..Len(s) : Append(s, m)[i] = s[i]
      /\ Append(s, m)[Len(s) + 1] = m
  BY AppendProperties, LenProperties
<1> DEFINE a == Append(s, m)
<1> HIDE DEF a
<1>2. PICK n \in Nat : n = Len(s)
  BY <1>1
<1>3. SubSeq(a, 1, n) = s
  <2>1. \A i \in 1..n : a[i] \in S
    BY <1>1, <1>2, ElementOfSeq DEF a
  <2>2. /\ SubSeq(a, 1, n) \in Seq(S) /\ Len(SubSeq(a, 1, n)) = IF 1 <= n THEN n - 1 + 1 ELSE 0
        /\ \A i \in 1..n - 1 + 1 : SubSeq(a, 1, n)[i] = a[1 + i - 1]
    BY <2>1, SubSeqProperties
  <2>3. Len(SubSeq(a, 1, n)) = n /\ \A i \in 1..n : SubSeq(a, 1, n)[i] = s[i]
    BY <1>1, <1>2, <2>2 DEF a
  <2> QED BY <1>2, <2>2, <2>3, SeqEqual
<1>4. Len(a) - 1 = n
  BY <1>1, <1>2 DEF a
<1>5. ButLast(a) = s
  BY <1>3, <1>4 DEF ButLast
<1> QED BY <1>1, <1>5 DEF a

LEMMA AllButLast ==
  ASSUME NEW S, NEW s \in Seq(S)
  PROVE  /\ ButLast(s) \in Seq(S)
         /\ \A i \in DOMAIN ButLast(s) : i \in DOMAIN s /\ ButLast(s)[i] = s[i]
         /\ Len(s) > 0 => Len(ButLast(s)) = Len(s) - 1
<1>1. PICK n \in Nat : n = Len(s)
  BY LenProperties
<1>2. \A i \in 1..n - 1 : i \in 1..n /\ s[i] \in S
  BY <1>1, ElementOfSeq
<1> DEFINE b == SubSeq(s, 1, n - 1)
<1>3. /\ b \in Seq(S) /\ Len(b) = IF 1 <= n - 1 THEN n - 1 - 1 + 1 ELSE 0
      /\ \A i \in 1..n - 1 - 1 + 1 : b[i] = s[1 + i - 1]
  BY <1>2, SubSeqProperties
<1>4. DOMAIN b = 1..Len(b) /\ DOMAIN s = 1..n
  BY <1>1, <1>3, LenProperties
<1> HIDE DEF b
<1>5. \A i \in DOMAIN b : i \in DOMAIN s /\ b[i] = s[i]
  <2> TAKE i \in DOMAIN b
  <2>1. i \in 1..n - 1 - 1 + 1 /\ i \in 1..n /\ 1 + i - 1 = i
    BY <1>3, <1>4
  <2> QED BY <1>3, <1>4, <2>1
<1>6. n > 0 => Len(b) = n - 1
  BY <1>3
<1> QED BY <1>1, <1>3, <1>5, <1>6 DEF ButLast, b

LEMMA AlternatesEmpty == Alternates(<<>>)
BY DEF Alternates

\* A question and its answer at the end.
LEMMA AlternatesMore ==
  ASSUME NEW s \in Seq(Utterances), Alternates(s), NEW r \in Requests
  PROVE  Alternates(Append(Append(s, Message(r, "question")), Message(r, "answer")))
<1> DEFINE q == Message(r, "question")
           a == Message(r, "answer")
           one == Append(s, q)
           two == Append(one, a)
<1>1. q \in Utterances /\ a \in Utterances /\ q.role = "question" /\ q.request = r
  BY MessageFields DEF Roles
<1> HIDE DEF q
<1>2. PICK n \in Nat : n = Len(s)
  BY LenProperties
<1>3. /\ one \in Seq(Utterances) /\ Len(one) = n + 1 /\ DOMAIN s = 1..n
      /\ \A i \in 1..n : one[i] = s[i]
      /\ one[n + 1] = q
  BY <1>1, <1>2, Appended
<1> HIDE DEF one
<1>4. /\ two \in Seq(Utterances) /\ Len(two) = n + 1 + 1 /\ DOMAIN two = 1..n + 1 + 1
      /\ \A i \in 1..n + 1 : two[i] = one[i]
      /\ two[n + 1 + 1] = a
  BY <1>1, <1>3, Appended
<1> HIDE DEF two
<1>5. n % 2 = 0
  <2>1. n \in 1..n /\ n % 2 = 1 => n < n
    BY <1>2, <1>3 DEF Alternates
  <2> QED BY <2>1
<1>6. ASSUME NEW i \in 1..n + 1 + 1, i % 2 = 1
      PROVE  /\ two[i].role = "question" /\ i < n + 1 + 1
             /\ two[i + 1] = Message(two[i].request, "answer")
  <2>1. CASE i \in 1..n
    <3>1. s[i].role = "question" /\ i < n /\ s[i + 1] = Message(s[i].request, "answer")
      BY <1>2, <1>3, <1>6, <2>1 DEF Alternates
    <3>2. i \in 1..n + 1 /\ i + 1 \in 1..n /\ i + 1 \in 1..n + 1
      BY <2>1, <3>1
    <3>3. two[i] = s[i] /\ two[i + 1] = s[i + 1]
      BY <1>3, <1>4, <2>1, <3>2
    <3> QED BY <2>1, <3>1, <3>3
  <2>2. CASE i = n + 1
    <3>1. i \in 1..n + 1
      BY <2>2
    <3>2. two[i] = q /\ two[i + 1] = a
      BY <1>3, <1>4, <2>2, <3>1
    <3> QED BY <1>1, <2>2, <3>2 DEF a
  <2>3. CASE i = n + 1 + 1
    BY <1>5, <1>6, <2>3
  <2> QED BY <2>1, <2>2, <2>3
<1> QED BY <1>4, <1>6 DEF Alternates, two, one, q

-----------------------------------------------------------------------------
(* What was said in a conversation, after each change of the log.          *)
OfConv(c) == [m \in Utterances |-> IF Belongs(m, c) THEN 1 ELSE 0]

LEMMA OfConvTimes ==
  ASSUME log \in Seq(Utterances), NEW c
  PROVE  /\ \A m \in Utterances : OfConv(c)[m] = IF Belongs(m, c) THEN 1 ELSE 0
         /\ \A i \in 1..Len(log) : /\ log[i] \in Utterances
                                   /\ OfConv(c)[log[i]] = IF Belongs(log[i], c) THEN 1 ELSE 0
                                   /\ OfConv(c)[log[i]] \in Nat
<1>1. \A m \in Utterances : OfConv(c)[m] = IF Belongs(m, c) THEN 1 ELSE 0
  BY DEF OfConv
<1>2. \A i \in 1..Len(log) : log[i] \in Utterances
  BY ElementOfSeq
<1> QED BY <1>1, <1>2

LEMMA SaidTyped ==
  ASSUME log \in Seq(Utterances), NEW c
  PROVE  SaidIn(c) \in Seq(Utterances)
<1>1. SaidIn(c) \in Seq({log[i] : i \in {i \in 1..Len(log) : OfConv(c)[log[i]] > 0}})
  BY OfConvTimes, RepeatedElements DEF SaidIn, OfConv
<1>2. {log[i] : i \in {i \in 1..Len(log) : OfConv(c)[log[i]] > 0}} \subseteq Utterances
  BY OfConvTimes
<1> QED BY <1>1, <1>2, SeqMonotonic

\* Requests that begin do not change what was said before.
LEMMA SaidKept ==
  ASSUME log \in Seq(Utterances), log' = log, NEW c,
         \A i \in 1..Len(log) : Belongs(log[i], c)' <=> Belongs(log[i], c)
  PROVE  SaidIn(c)' = SaidIn(c)
<1>1. /\ \A i \in 1..Len(log) : log[i] \in Utterances /\ OfConv(c)[log[i]] \in Nat
      /\ \A m \in Utterances : OfConv(c)[m] = IF Belongs(m, c) THEN 1 ELSE 0
  BY OfConvTimes
<1>2. \A m \in Utterances : OfConv(c)'[m] = IF Belongs(m, c)' THEN 1 ELSE 0
  BY DEF OfConv
<1>3. \A i \in 1..Len(log) : /\ OfConv(c)[log[i]] = OfConv(c)'[log[i]]
                             /\ (OfConv(c)[log[i]] # 0 => log[i] = log[i])
  BY <1>1, <1>2
<1>4. SaidIn(c) = Repeated(log, OfConv(c)) /\ SaidIn(c)' = Repeated(log, OfConv(c)')
  BY DEF SaidIn, OfConv
<1>5. \A i \in 1..Len(log) : OfConv(c)[log[i]] \in Nat
  BY <1>1
<1>6. Repeated(log, OfConv(c)) = Repeated(log, OfConv(c)')
  <2> DEFINE a == OfConv(c)
             b == OfConv(c)'
  <2>1. /\ \A i \in 1..Len(log) : a[log[i]] = b[log[i]] /\ (a[log[i]] # 0 => log[i] = log[i])
        /\ \A i \in 1..Len(log) : a[log[i]] \in Nat
    BY <1>3, <1>5
  <2> HIDE DEF a, b
  <2>2. Repeated(log, a) = Repeated(log, b)
    BY <2>1, LenProperties, RepeatedSame
  <2> QED BY <2>2 DEF a, b
<1> QED BY <1>4, <1>6

\* A message that is said belongs to what was said in its conversation, and to no other.
LEMMA SaidGrows ==
  ASSUME log \in Seq(Utterances), NEW m \in Utterances, log' = Append(log, m),
         UNCHANGED <<requests, convOf>>, NEW c
  PROVE  SaidIn(c)' = IF Belongs(m, c) THEN Append(SaidIn(c), m) ELSE SaidIn(c)
<1> DEFINE a == OfConv(c)
<1>1. /\ \A i \in 1..Len(log) : a[log[i]] \in Nat
      /\ a[m] = IF Belongs(m, c) THEN 1 ELSE 0
      /\ a[m] \in Nat
  BY OfConvTimes
<1>2. SaidIn(c) = Repeated(log, a) /\ SaidIn(c)' = Repeated(Append(log, m), a)
  BY DEF SaidIn, OfConv, Belongs
<1> HIDE DEF a
<1>3. SaidIn(c)' = SaidIn(c) \o Run(m, a[m])
  BY <1>1, <1>2, RepeatedAppend
<1>4. SaidIn(c) \in Seq(Utterances)
  BY SaidTyped
<1> DEFINE s == SaidIn(c)
<1> HIDE DEF s
<1>5. CASE Belongs(m, c)
  <2>1. Run(m, a[m]) = <<m>>
    BY <1>1, <1>5, RunTyped
  <2>2. s \o <<m>> = Append(s, m)
    BY <1>4, AppendIsConcat DEF s
  <2> QED BY <1>3, <1>5, <2>1, <2>2 DEF s
<1>6. CASE ~Belongs(m, c)
  <2>1. Run(m, a[m]) = <<>>
    BY <1>1, <1>6, RunTyped
  <2>2. s \o <<>> = s
    BY <1>4, ConcatEmptySeq DEF s
  <2> QED BY <1>3, <1>6, <2>1, <2>2 DEF s
<1> QED BY <1>5, <1>6

\* Where nothing was asked, nothing was said.
LEMMA SaidNone ==
  ASSUME log \in Seq(Utterances), NEW c, \A i \in 1..Len(log) : ~Belongs(log[i], c)
  PROVE  SaidIn(c) = <<>>
<1> DEFINE a == OfConv(c)
<1>1. \A i \in 1..Len(log) : a[log[i]] = 0
  BY OfConvTimes
<1>2. SaidIn(c) = Repeated(log, a)
  BY DEF SaidIn, OfConv
<1> HIDE DEF a
<1> QED BY <1>1, <1>2, RepeatedNone

-----------------------------------------------------------------------------
(* What a restart restores.                                                *)
Twin(m) == Message(m.request, IF m.role = "question" THEN "answer" ELSE "question")
Order(swapped) == [i \in 1..Len(log) |-> IF log[i].request \in swapped THEN Twin(log[i]) ELSE log[i]]
Rows(c) == [m \in Utterances |-> IF Belongs(m, c) THEN stored[m] ELSE 0]

LEMMA OrderTyped ==
  ASSUME log \in Seq(Utterances), NEW swapped
  PROVE  /\ Order(swapped) \in Seq(Utterances) /\ Len(Order(swapped)) = Len(log)
         /\ \A i \in 1..Len(log) : /\ Order(swapped)[i].request = log[i].request
                                   /\ log[i].request \notin swapped => Order(swapped)[i] = log[i]
<1>1. \A m \in Utterances : Twin(m) \in Utterances /\ Twin(m).request = m.request
  BY MessageFields DEF Twin, Roles
<1>2. \A i \in 1..Len(log) : log[i] \in Utterances
  BY ElementOfSeq
<1>3. /\ \A i \in 1..Len(log) : Order(swapped)[i] \in Utterances
      /\ \A i \in 1..Len(log) : /\ Order(swapped)[i].request = log[i].request
                                /\ log[i].request \notin swapped => Order(swapped)[i] = log[i]
  BY <1>1, <1>2 DEF Order
<1>4. Len(log) \in Nat
  BY LenProperties
<1>5. Order(swapped) \in Seq(Utterances) /\ Len(Order(swapped)) = Len(log)
  <2>1. Order(swapped) \in [1..Len(log) -> Utterances]
    BY <1>3 DEF Order
  <2> QED BY <1>4, <2>1
<1> QED BY <1>3, <1>5

LEMMA RestoredIs ==
  ASSUME log \in Seq(Utterances), NEW swapped, NEW c
  PROVE  Restored(c, swapped) = Repeated(Order(swapped), Rows(c))
<1>1. DOMAIN log = 1..Len(log)
  BY LenProperties
<1> QED BY <1>1 DEF Restored, Order, Rows, Twin

\* Rows of this conversation, each of a message that was published.
LEMMA RestoredTyped ==
  ASSUME ChatTypeOK, Served, NEW swapped, NEW c
  PROVE  Restored(c, swapped) \in Seq({m \in Utterances : Belongs(m, c) /\ m \in sent})
<1> DEFINE o == Order(swapped)
           a == Rows(c)
           T == {m \in Utterances : Belongs(m, c) /\ m \in sent}
<1>1. /\ log \in Seq(Utterances)
      /\ \A m \in Utterances : stored[m] \in Nat /\ (stored[m] # 0 => m \in sent)
  BY ChatAssumption DEF ChatTypeOK, Served
<1>2. o \in Seq(Utterances) /\ \A i \in 1..Len(o) : o[i] \in Utterances
  BY <1>1, OrderTyped, ElementOfSeq
<1>3. \A m \in Utterances : a[m] \in Nat /\ (a[m] > 0 => m \in T)
  BY <1>1 DEF Rows
<1>4. Restored(c, swapped) = Repeated(o, a)
  BY <1>1, RestoredIs
<1> HIDE DEF o, a, T
<1>5. Repeated(o, a) \in Seq({o[i] : i \in {i \in 1..Len(o) : a[o[i]] > 0}})
  BY <1>2, <1>3, RepeatedElements
<1>6. {o[i] : i \in {i \in 1..Len(o) : a[o[i]] > 0}} \subseteq T
  BY <1>2, <1>3
<1>7. Repeated(o, a) \in Seq(T)
  BY <1>5, <1>6, SeqMonotonic
<1> QED BY <1>4, <1>7 DEF T

\* Where every message has one row and a place of its own, what is restored is what was said.
LEMMA RestoredSettled ==
  ASSUME ChatTypeOK, Served, NEW c, Settled(c), NEW swapped \in SUBSET twins
  PROVE  Restored(c, swapped) = SaidIn(c)
<1> DEFINE o == Order(swapped)
           a == Rows(c)
           b == OfConv(c)
<1>1. log \in Seq(Utterances) /\ DOMAIN log = 1..Len(log)
  BY LenProperties DEF Served
<1>2. /\ o \in Seq(Utterances) /\ Len(o) = Len(log)
      /\ \A i \in 1..Len(log) : /\ o[i].request = log[i].request
                                /\ log[i].request \notin swapped => o[i] = log[i]
  BY <1>1, OrderTyped
<1>3. \A i \in 1..Len(log) : log[i] \in Utterances /\ o[i] \in Utterances
  BY <1>1, <1>2, ElementOfSeq
<1>4. /\ \A m \in Utterances : a[m] = IF Belongs(m, c) THEN stored[m] ELSE 0
      /\ \A m \in Utterances : b[m] = IF Belongs(m, c) THEN 1 ELSE 0
  BY DEF Rows, OfConv
<1>5. Restored(c, swapped) = Repeated(o, a) /\ SaidIn(c) = Repeated(log, b)
  BY <1>1, RestoredIs DEF SaidIn, OfConv
<1>6. ASSUME NEW i \in 1..Len(log)
      PROVE  b[log[i]] = a[o[i]] /\ (b[log[i]] # 0 => log[i] = o[i]) /\ b[log[i]] \in Nat
  <2>1. Belongs(o[i], c) <=> Belongs(log[i], c)
    BY <1>2 DEF Belongs
  <2>2. CASE Belongs(log[i], c)
    <3>1. stored[log[i]] = 1 /\ log[i].request \notin twins
      BY <1>1, <2>2 DEF Settled
    <3>2. o[i] = log[i]
      BY <1>2, <3>1
    <3> HIDE DEF o, a, b
    <3> QED BY <1>3, <1>4, <2>2, <3>1, <3>2
  <2>3. CASE ~Belongs(log[i], c)
    <3> HIDE DEF o, a, b
    <3> QED BY <1>3, <1>4, <2>1, <2>3
  <2> QED BY <2>2, <2>3
<1> HIDE DEF o, a, b
<1>7. Repeated(log, b) = Repeated(o, a)
  <2>1. /\ \A i \in 1..Len(log) : b[log[i]] = a[o[i]] /\ (b[log[i]] # 0 => log[i] = o[i])
        /\ \A i \in 1..Len(log) : b[log[i]] \in Nat
    BY <1>6
  <2>2. Len(log) \in Nat
    BY <1>1, LenProperties
  <2> QED BY <1>2, <2>1, <2>2, RepeatedSame
<1> QED BY <1>5, <1>7

-----------------------------------------------------------------------------
(* A step of one thread.                                                   *)
Moves(t, c, next) == /\ pc[t] # "idle" /\ Conv(t) = c
                     /\ pc' = [pc EXCEPT ![t] = next]
                     /\ UNCHANGED <<running, restarts, requests, convOf, helpers, listed, req>>

LEMMA AtWork ==
  ASSUME ChatTypeOK, Served, NEW t \in Threads, pc[t] # "idle"
  PROVE  /\ Conv(t) \in Convs /\ req[t] \in 1..requests /\ req[t] \in Requests /\ running
         /\ \A role, d : Belongs(Message(req[t], role), d) <=> d = Conv(t)
<1>1. /\ req[t] \in 1..requests /\ running /\ requests \in 0..MaxRequests /\ MaxRequests \in Nat
      /\ convOf \in [1..requests -> Convs]
  BY ChatAssumption DEF ChatTypeOK, Served
<1>2. req[t] \in Requests
  BY <1>1 DEF Requests
<1>3. \A role, d : Belongs(Message(req[t], role), d) <=> d = Conv(t)
  BY <1>1, MessageFields DEF Belongs, Conv
<1> QED BY <1>1, <1>2, <1>3 DEF Conv

LEMMA Moved ==
  ASSUME ChatTypeOK, Served, NEW t \in Threads, NEW c, NEW next \in Steps, Moves(t, c, next)
  PROVE  /\ pc' \in [Threads -> Steps] /\ pc'[t] = next
         /\ \A u \in Threads \ {t} : pc'[u] = pc[u]
         /\ \A u \in Threads : Conv(u)' = Conv(u)
         /\ \A m, d : Belongs(m, d)' <=> Belongs(m, d)
BY DEF Served, Moves, Conv, Belongs

LEMMA ThreadTyped ==
  ASSUME ChatTypeOK, Served, NEW t \in Threads, NEW c \in Convs, NEW next \in Steps, Moves(t, c, next),
         UNCHANGED <<dropped, stored>>, sent \subseteq sent', sent' \subseteq Utterances,
         failed' \subseteq Utterances,
         strategy' \in [Convs -> Registered \union {Default}],
         fresh' \in [Threads -> {"none", "kept", "empty", "tool"}],
         disturbed' \subseteq Convs,
         messages' \in [Convs -> Seq(AllMessages)],
         \A d \in Convs : \A i \in DOMAIN messages'[d] : Belongs(messages'[d][i], d),
         log' \in Seq(Utterances), \A i \in 1..Len(log') : log'[i].request \in 1..requests
  PROVE  ChatTypeOK' /\ Served'
<1>1. /\ pc' \in [Threads -> Steps] /\ pc'[t] = next
      /\ \A u \in Threads \ {t} : pc'[u] = pc[u]
      /\ \A m, d : Belongs(m, d)' <=> Belongs(m, d)
      /\ pc[t] # "idle"
      /\ UNCHANGED <<running, restarts, requests, convOf, helpers, listed, req>>
  BY Moved DEF Moves
<1>2. ChatTypeOK'
  BY <1>1 DEF ChatTypeOK
<1>3. \A u \in Threads : pc'[u] # "idle" => running' /\ req'[u] \in 1..requests'
  BY <1>1 DEF Served
<1>4. \A m \in Utterances : stored'[m] # 0 => m \in sent'
  BY DEF Served
<1> QED BY <1>1, <1>2, <1>3, <1>4 DEF Served

\* What is remembered in the conversation of this thread, and in the others.
LEMMA ThreadKept ==
  ASSUME ChatTypeOK, Served, Alone, Kept, NEW t \in Threads, NEW c \in Convs, NEW next \in Steps,
         Moves(t, c, next), disturbed \subseteq disturbed',
         \A d \in Convs \ {c} : messages'[d] = messages[d] /\ SaidIn(d)' = SaidIn(d),
         \A u \in Threads \ {t} : fresh'[u] = fresh[u],
         c \notin disturbed' => Remembers(next, messages'[c], SaidIn(c)', req[t], fresh'[t])
  PROVE  Alone' /\ Kept'
<1>1. /\ pc'[t] = next /\ pc[t] # "idle" /\ Conv(t) = c /\ running /\ running' /\ req' = req
      /\ \A u \in Threads \ {t} : pc'[u] = pc[u]
      /\ \A u \in Threads : Conv(u)' = Conv(u)
  BY Moved, AtWork DEF Moves
<1>2. Alone'
  BY <1>1 DEF Alone
<1>3. ASSUME NEW d \in Convs, d \notin disturbed'
      PROVE  /\ ~Busy(d)' => Remembers("idle", messages'[d], SaidIn(d)', 0, "none")
             /\ \A u \in Threads : pc'[u] # "idle" /\ Conv(u)' = d =>
                  Remembers(pc'[u], messages'[d], SaidIn(d)', req'[u], fresh'[u])
  <2>1. d \notin disturbed
    BY <1>3
  <2>2. CASE d = c
    <3>1. ASSUME NEW u \in Threads, pc'[u] # "idle", Conv(u)' = d PROVE u = t
      BY <1>1, <2>1, <2>2, <3>1 DEF Alone
    <3>2. Remembers(next, messages'[d], SaidIn(d)', req[t], fresh'[t])
      BY <1>3, <2>2
    <3>3. ASSUME ~Busy(d)' PROVE Remembers("idle", messages'[d], SaidIn(d)', 0, "none")
      <4>1. next = "idle"
        BY <1>1, <2>2, <3>3 DEF Busy
      <4> QED BY <3>2, <4>1 DEF Remembers, Prompted
    <3> QED BY <1>1, <3>1, <3>2, <3>3
  <2>3. CASE d # c
    <3>1. messages'[d] = messages[d] /\ SaidIn(d)' = SaidIn(d)
      BY <2>3
    <3>2. ASSUME ~Busy(d)' PROVE ~Busy(d)
      BY <1>1, <2>3, <3>2 DEF Busy
    <3>3. /\ ~Busy(d) => Remembers("idle", messages[d], SaidIn(d), 0, "none")
          /\ \A u \in Threads : pc[u] # "idle" /\ Conv(u) = d =>
               Remembers(pc[u], messages[d], SaidIn(d), req[u], fresh[u])
      BY <1>1, <2>1 DEF Kept
    <3>4. ASSUME NEW u \in Threads, pc'[u] # "idle", Conv(u)' = d
          PROVE  Remembers(pc'[u], messages'[d], SaidIn(d)', req'[u], fresh'[u])
      <4>1. u # t /\ pc'[u] = pc[u] /\ fresh'[u] = fresh[u] /\ Conv(u) = d /\ req'[u] = req[u]
        BY <1>1, <2>3, <3>4
      <4> QED BY <3>1, <3>3, <3>4, <4>1
    <3> QED BY <3>1, <3>2, <3>3, <3>4
  <2> QED BY <2>2, <2>3
<1>4. Kept'
  BY <1>1, <1>3 DEF Kept
<1> QED BY <1>2, <1>4

LEMMA ExplainedStays ==
  ASSUME ChatTypeOK, Served, NEW t \in Threads, NEW c, NEW next \in Steps, Moves(t, c, next),
         pc[t] \notin {"publishQuestion", "publishAnswer"}, sent \subseteq sent', failed \subseteq failed',
         NEW m, Explained(m)
  PROVE  Explained(m)'
<1>1. \A u \in Threads \ {t} : pc'[u] = pc[u] /\ req' = req
  BY Moved DEF Moves
<1>2. CASE m.role = "prompt" \/ m \in sent \union failed
  BY <1>2 DEF Explained
<1>3. CASE \E u \in Threads : /\ req[u] = m.request
                             /\ pc[u] = IF m.role = "question" THEN "publishQuestion" ELSE "publishAnswer"
  <2>1. PICK u \in Threads : /\ req[u] = m.request
                             /\ pc[u] = IF m.role = "question" THEN "publishQuestion" ELSE "publishAnswer"
    BY <1>3
  <2>2. u # t
    BY <2>1
  <2> QED BY <1>1, <2>1, <2>2 DEF Explained
<1> QED BY <1>2, <1>3 DEF Explained

\* As many prompts as threads that will pop one.
LEMMA ThreadPushed ==
  ASSUME ChatTypeOK, Served, Pushed, NEW t \in Threads, NEW c \in Convs, NEW next \in Steps,
         Moves(t, c, next), messages' \in [Convs -> Seq(AllMessages)],
         \A d \in Convs \ {c} : messages'[d] = messages[d],
         Len(messages'[c]) >= Len(messages[c]) + (IF next \in Prompted THEN 1 ELSE 0)
                                              - (IF pc[t] \in Prompted THEN 1 ELSE 0)
  PROVE  Pushed'
<1>1. /\ pc'[t] = next /\ pc[t] # "idle" /\ Conv(t) = c
      /\ \A u \in Threads \ {t} : pc'[u] = pc[u]
      /\ \A u \in Threads : Conv(u)' = Conv(u)
  BY Moved DEF Moves
<1>2. ASSUME NEW d \in Convs, d # c PROVE Cardinality(Prompting(d)') <= Len(messages'[d])
  <2>1. Prompting(d)' = Prompting(d)
    BY <1>1, <1>2 DEF Prompting
  <2> QED BY <1>2, <2>1 DEF Pushed
<1>3. Cardinality(Prompting(c)') <= Len(messages'[c])
  <2> DEFINE P == Prompting(c)
             Q == Prompting(c)'
             R == P \ {t}
  <2>1. IsFiniteSet(P) /\ IsFiniteSet(R) /\ t \notin R
    <3>1. P \subseteq Threads /\ R \subseteq Threads
      BY DEF Prompting
    <3> QED BY <3>1, ChatAssumption, FS_Subset
  <2>2. /\ t \in P <=> pc[t] \in Prompted
        /\ Q = IF next \in Prompted THEN R \union {t} ELSE R
    BY <1>1 DEF Prompting
  <2> HIDE DEF P, Q, R
  <2>3. /\ Cardinality(P) \in Nat /\ Cardinality(R) \in Nat
        /\ Cardinality(P) <= Len(messages[c])
        /\ Len(messages[c]) \in Nat /\ Len(messages'[c]) \in Nat
    <3>1. messages[c] \in Seq(AllMessages) /\ messages'[c] \in Seq(AllMessages)
      BY DEF Served
    <3> QED BY <2>1, <3>1, FS_CardinalityType, LenProperties DEF Pushed, P
  <2>4. Cardinality(R) = IF pc[t] \in Prompted THEN Cardinality(P) - 1 ELSE Cardinality(P)
    <3>1. CASE pc[t] \in Prompted
      BY <2>1, <2>2, <3>1, FS_RemoveElement DEF R
    <3>2. CASE pc[t] \notin Prompted
      <4>1. R = P
        BY <2>2, <3>2 DEF R
      <4> QED BY <3>2, <4>1
    <3> QED BY <3>1, <3>2
  <2>5. Cardinality(Q) = IF next \in Prompted THEN Cardinality(R) + 1 ELSE Cardinality(R)
    <3>1. CASE next \in Prompted
      BY <2>1, <2>2, <3>1, FS_AddElement
    <3>2. CASE next \notin Prompted
      BY <2>2, <3>2
    <3> QED BY <3>1, <3>2
  <2>6. Cardinality(Q) <= Len(messages'[c])
    <3> DEFINE p == Cardinality(P)
               l == Len(messages[c])
               k == Len(messages'[c])
               x == IF next \in Prompted THEN 1 ELSE 0
               y == IF pc[t] \in Prompted THEN 1 ELSE 0
    <3>0. x \in Nat /\ y \in Nat /\ k >= l + x - y
      OBVIOUS
    <3>1. Cardinality(Q) = p - y + x
      <4>1. CASE pc[t] \in Prompted
        BY <2>3, <2>4, <2>5, <4>1
      <4>2. CASE pc[t] \notin Prompted
        BY <2>3, <2>4, <2>5, <4>2
      <4> QED BY <4>1, <4>2
    <3>2. p \in Nat /\ l \in Nat /\ k \in Nat /\ p <= l
      BY <2>3
    <3> HIDE DEF p, l, k, x, y
    <3>3. Cardinality(Q) <= k
      BY <3>0, <3>1, <3>2
    <3> QED BY <3>3 DEF k
  <2> QED BY <2>6 DEF Q
<1>4. \A d \in Convs : Cardinality(Prompting(d)') <= Len(messages'[d])
  BY <1>2, <1>3
<1> QED BY <1>4 DEF Pushed

LEMMA ThreadStep ==
  ASSUME ChatInv, NEW t \in Threads, NEW c \in Convs, NEW next \in Steps, Moves(t, c, next),
         UNCHANGED <<dropped, stored>>, sent \subseteq sent', sent' \subseteq Utterances,
         failed' \subseteq Utterances,
         strategy' \in [Convs -> Registered \union {Default}],
         fresh' \in [Threads -> {"none", "kept", "empty", "tool"}],
         \A u \in Threads \ {t} : fresh'[u] = fresh[u],
         disturbed \subseteq disturbed', disturbed' \subseteq Convs,
         log' \in Seq(Utterances), \A i \in 1..Len(log') : log'[i].request \in 1..requests,
         \A d \in Convs \ {c} : SaidIn(d)' = SaidIn(d),
         NEW new \in Seq(AllMessages), messages' = [messages EXCEPT ![c] = new],
         \A i \in DOMAIN new : Belongs(new[i], c),
         c \notin disturbed' => Remembers(next, new, SaidIn(c)', req[t], fresh'[t]),
         \A m \in AllMessages : Explained(m) => Explained(m)',
         \A m : (\E i \in DOMAIN new : new[i] = m) =>
                  (\E j \in DOMAIN messages[c] : messages[c][j] = m) \/ Explained(m)',
         Len(new) >= Len(messages[c]) + (IF next \in Prompted THEN 1 ELSE 0)
                                      - (IF pc[t] \in Prompted THEN 1 ELSE 0)
  PROVE  ChatInv'
<1>1. /\ ChatTypeOK /\ Served /\ Alone /\ Kept /\ Published /\ Pushed
  BY DEF ChatInv
<1>2. /\ messages' \in [Convs -> Seq(AllMessages)] /\ messages'[c] = new
      /\ \A d \in Convs \ {c} : messages'[d] = messages[d]
  BY <1>1 DEF Served
<1>3. \A d \in Convs : \A i \in DOMAIN messages'[d] : Belongs(messages'[d][i], d)
  BY <1>1, <1>2 DEF ChatTypeOK
<1>4. ChatTypeOK' /\ Served'
  BY <1>1, <1>2, <1>3, ThreadTyped
<1>5. Alone' /\ Kept'
  BY <1>1, <1>2, ThreadKept
<1>6. Pushed'
  BY <1>1, <1>2, ThreadPushed
<1>7. Published'
  <2>1. ASSUME NEW d \in Convs, NEW i, i \in DOMAIN messages'[d], NEW m, m = messages'[d][i]
        PROVE  Explained(m)'
    <3>1. \A j \in DOMAIN messages[d] : Explained(messages[d][j]) /\ messages[d][j] \in AllMessages
      <4>1. messages[d] \in Seq(AllMessages)
        BY <1>1 DEF Served
      <4>2. \A j \in DOMAIN messages[d] : messages[d][j] \in AllMessages
        BY <4>1, LenProperties, ElementOfSeq
      <4> QED BY <1>1, <4>2 DEF Published
    <3>2. CASE d # c
      <4>1. Explained(m) /\ m \in AllMessages
        BY <1>2, <2>1, <3>1, <3>2
      <4> QED BY <4>1
    <3>3. CASE d = c
      <4>1. i \in DOMAIN new /\ m = new[i]
        BY <1>2, <2>1, <3>3
      <4>2. ASSUME \E j \in DOMAIN messages[c] : messages[c][j] = m PROVE Explained(m)'
        <5>1. Explained(m) /\ m \in AllMessages
          BY <3>1, <3>3, <4>2
        <5> QED BY <5>1
      <4> QED BY <4>1, <4>2
    <3> QED BY <3>2, <3>3
  <2> QED BY <2>1 DEF Published
<1> QED BY <1>4, <1>5, <1>6, <1>7 DEF ChatInv

\* A step that says nothing and changes no vector.
LEMMA QuietStep ==
  ASSUME ChatInv, NEW t \in Threads, NEW c \in Convs, NEW next \in Steps, Moves(t, c, next),
         UNCHANGED <<sent, failed, dropped, stored, messages, log>>,
         strategy' \in [Convs -> Registered \union {Default}],
         fresh' \in [Threads -> {"none", "kept", "empty", "tool"}],
         \A u \in Threads \ {t} : fresh'[u] = fresh[u],
         disturbed \subseteq disturbed', disturbed' \subseteq Convs,
         c \notin disturbed' => Remembers(next, messages[c], SaidIn(c), req[t], fresh'[t]),
         pc[t] \notin {"publishQuestion", "publishAnswer"},
         next \in Prompted => pc[t] \in Prompted
  PROVE  ChatInv'
<1>1. /\ ChatTypeOK /\ Served
  BY DEF ChatInv
<1>2. /\ messages' = [messages EXCEPT ![c] = messages[c]] /\ messages[c] \in Seq(AllMessages)
      /\ log' \in Seq(Utterances) /\ \A i \in 1..Len(log') : log'[i].request \in 1..requests
  BY <1>1 DEF Served
<1>3. \A d : SaidIn(d)' = SaidIn(d)
  <2> TAKE d
  <2>1. \A i \in 1..Len(log) : Belongs(log[i], d)' <=> Belongs(log[i], d)
    BY <1>1, Moved
  <2> QED BY <1>1, <2>1, SaidKept DEF Served
<1>4. \A m \in AllMessages : Explained(m) => Explained(m)'
  BY <1>1, ExplainedStays
<1>5. /\ sent \subseteq sent' /\ sent' \subseteq Utterances /\ UNCHANGED <<dropped, stored>>
      /\ failed \subseteq failed' /\ failed' \subseteq Utterances
  BY <1>1 DEF ChatTypeOK
<1>6. Len(messages[c]) >= Len(messages[c]) + (IF next \in Prompted THEN 1 ELSE 0)
                                           - (IF pc[t] \in Prompted THEN 1 ELSE 0)
  <2>1. Len(messages[c]) \in Nat
    BY <1>2, LenProperties
  <2> QED BY <2>1
<1>7. \A i \in DOMAIN messages[c] : Belongs(messages[c][i], c)
  BY <1>1 DEF ChatTypeOK
<1>8. c \notin disturbed' => Remembers(next, messages[c], SaidIn(c)', req[t], fresh'[t])
  BY <1>3
<1>9. \A m : (\E i \in DOMAIN messages[c] : messages[c][i] = m) =>
              (\E j \in DOMAIN messages[c] : messages[c][j] = m) \/ Explained(m)'
  OBVIOUS
<1> QED BY <1>2, <1>3, <1>4, <1>5, <1>6, <1>7, <1>8, <1>9, ThreadStep

\* What the invariant says of a thread at work.
LEMMA Here ==
  ASSUME ChatInv, NEW t \in Threads, pc[t] # "idle"
  PROVE  \E c \in Convs : /\ c = Conv(t)
                          /\ c \notin disturbed =>
                               Remembers(pc[t], messages[c], SaidIn(c), req[t], fresh[t])
<1>1. Conv(t) \in Convs
  BY AtWork DEF ChatInv
<1>2. PICK c \in Convs : c = Conv(t)
  BY <1>1
<1> QED BY <1>2 DEF ChatInv, Kept

LEMMA SetStrategyKeeps ==
  ASSUME ChatInv, NEW t \in Threads, NEW model \in ModelTypes, SetStrategy(t, model)
  PROVE  ChatInv'
<1>1. /\ pc[t] = "strategy"
      /\ \/ /\ model \in Registered
            /\ strategy' = [strategy EXCEPT ![Conv(t)] = model]
            /\ pc' = [pc EXCEPT ![t] = "branch"]
         \/ pc' = [pc EXCEPT ![t] = "idle"] /\ strategy' = strategy
      /\ UNCHANGED <<sent, failed, dropped, stored, messages, log, running, restarts, requests, convOf,
                     helpers, listed, req, fresh, disturbed>>
  BY DEF SetStrategy, At, Goto, queueVars, unchangedByThread
<1>2. PICK c \in Convs : /\ c = Conv(t)
                         /\ c \notin disturbed =>
                              Remembers("strategy", messages[c], SaidIn(c), req[t], fresh[t])
  BY <1>1, Here
<1>3. /\ strategy' \in [Convs -> Registered \union {Default}]
      /\ fresh' \in [Threads -> {"none", "kept", "empty", "tool"}] /\ disturbed' \subseteq Convs
  <2>1. /\ strategy \in [Convs -> Registered \union {Default}]
        /\ fresh \in [Threads -> {"none", "kept", "empty", "tool"}] /\ disturbed \subseteq Convs
    BY DEF ChatInv, ChatTypeOK
  <2>2. strategy' \in [Convs -> Registered \union {Default}]
    <3>1. CASE strategy' = strategy
      BY <2>1, <3>1
    <3>2. CASE model \in Registered /\ strategy' = [strategy EXCEPT ![Conv(t)] = model]
      BY <2>1, <3>2
    <3> QED BY <1>1, <3>1, <3>2
  <2> QED BY <1>1, <2>1, <2>2
<1>4. PICK next \in {"branch", "idle"} : Moves(t, c, next)
  BY <1>1, <1>2 DEF Moves
<1>5. next \in Steps /\ next \notin Prompted
  BY DEF Steps, Prompted
<1>6. c \notin disturbed' => Remembers(next, messages[c], SaidIn(c), req[t], fresh'[t])
  BY <1>1, <1>2, <1>4 DEF Remembers, Prompted
<1> QED BY <1>1, <1>3, <1>4, <1>5, <1>6, QuietStep

LEMMA BranchKeeps ==
  ASSUME ChatInv, NEW t \in Threads, Branch(t)
  PROVE  ChatInv'
<1>1. /\ pc[t] = "branch"
      /\ \E next \in {"question", "prompt", "idle"} : pc' = [pc EXCEPT ![t] = next]
      /\ fresh' = [fresh EXCEPT ![t] = "none"]
      /\ UNCHANGED <<sent, failed, dropped, stored, messages, strategy, log, running, restarts, requests,
                     convOf, helpers, listed, req, disturbed>>
  BY DEF Branch, At, Goto, queueVars, unchangedByThread
<1>2. PICK c \in Convs : /\ c = Conv(t)
                         /\ c \notin disturbed =>
                              Remembers("branch", messages[c], SaidIn(c), req[t], fresh[t])
  BY <1>1, Here
<1>3. /\ strategy \in [Convs -> Registered \union {Default}]
      /\ fresh \in [Threads -> {"none", "kept", "empty", "tool"}] /\ disturbed \subseteq Convs
  BY DEF ChatInv, ChatTypeOK
<1>4. PICK next \in {"question", "prompt", "idle"} : Moves(t, c, next)
  BY <1>1, <1>2 DEF Moves
<1>5. next \in Steps /\ next \notin Prompted
  BY DEF Steps, Prompted
<1>6. /\ fresh' \in [Threads -> {"none", "kept", "empty", "tool"}] /\ fresh'[t] = "none"
      /\ \A u \in Threads \ {t} : fresh'[u] = fresh[u]
  BY <1>1, <1>3
<1>7. c \notin disturbed' => Remembers(next, messages[c], SaidIn(c), req[t], fresh'[t])
  BY <1>1, <1>2, <1>4, <1>6 DEF Remembers, Prompted
<1> QED BY <1>1, <1>3, <1>4, <1>5, <1>6, <1>7, QuietStep

LEMMA AskKeeps ==
  ASSUME ChatInv, NEW t \in Threads, Ask(t)
  PROVE  ChatInv'
<1>1. /\ pc[t] = "ask"
      /\ \/ pc' = [pc EXCEPT ![t] = "answer"] /\ disturbed' = disturbed
         \/ pc' = [pc EXCEPT ![t] = "idle"] /\ disturbed' = disturbed \union {Conv(t)}
      /\ UNCHANGED <<sent, failed, dropped, stored, messages, strategy, log, running, restarts, requests,
                     convOf, helpers, listed, req, fresh>>
  BY DEF Ask, At, Goto, Disturb, queueVars, unchangedByThread
<1>2. PICK c \in Convs : /\ c = Conv(t)
                         /\ c \notin disturbed =>
                              Remembers("ask", messages[c], SaidIn(c), req[t], fresh[t])
  BY <1>1, Here
<1>3. /\ strategy' \in [Convs -> Registered \union {Default}]
      /\ fresh' \in [Threads -> {"none", "kept", "empty", "tool"}] /\ disturbed \subseteq Convs
  BY <1>1 DEF ChatInv, ChatTypeOK
<1>4. PICK next \in {"answer", "idle"} : /\ Moves(t, c, next)
                                         /\ next = "idle" => c \in disturbed'
                                         /\ disturbed \subseteq disturbed'
                                         /\ disturbed' \subseteq disturbed \union {c}
  BY <1>1, <1>2 DEF Moves
<1>5. next \in Steps /\ next \notin Prompted
  BY DEF Steps, Prompted
<1>6. c \notin disturbed' => Remembers(next, messages[c], SaidIn(c), req[t], fresh'[t])
  BY <1>1, <1>2, <1>4 DEF Remembers, Prompted
<1>7. disturbed' \subseteq Convs
  BY <1>3, <1>4
<1> QED BY <1>1, <1>3, <1>4, <1>5, <1>6, <1>7, QuietStep

LEMMA AskWithPromptKeeps ==
  ASSUME ChatInv, NEW t \in Threads, AskWithPrompt(t)
  PROVE  ChatInv'
<1>1. /\ pc[t] \in {"firstAsk", "secondAsk"}
      /\ \/ /\ \E answer \in {"kept", "empty", "tool"} : fresh' = [fresh EXCEPT ![t] = answer]
            /\ pc' = [pc EXCEPT ![t] = "pop"] /\ disturbed' = disturbed
         \/ /\ pc' = [pc EXCEPT ![t] = "idle"] /\ disturbed' = disturbed \union {Conv(t)}
            /\ fresh' = fresh
      /\ UNCHANGED <<sent, failed, dropped, stored, messages, strategy, log, running, restarts, requests,
                     convOf, helpers, listed, req>>
  BY DEF AskWithPrompt, At, Goto, Disturb, queueVars, unchangedByThread
<1>2. PICK c \in Convs : /\ c = Conv(t)
                         /\ c \notin disturbed =>
                              Remembers(pc[t], messages[c], SaidIn(c), req[t], fresh[t])
  BY <1>1, Here
<1>3. /\ strategy' \in [Convs -> Registered \union {Default}]
      /\ fresh \in [Threads -> {"none", "kept", "empty", "tool"}] /\ disturbed \subseteq Convs
  BY <1>1 DEF ChatInv, ChatTypeOK
<1>4. PICK next \in {"pop", "idle"} : /\ Moves(t, c, next)
                                      /\ next = "idle" => c \in disturbed'
                                      /\ disturbed \subseteq disturbed'
                                      /\ disturbed' \subseteq disturbed \union {c}
  BY <1>1, <1>2 DEF Moves
<1>5. next \in Steps /\ pc[t] \in Prompted
  BY <1>1 DEF Steps, Prompted
<1>6. /\ fresh' \in [Threads -> {"none", "kept", "empty", "tool"}]
      /\ \A u \in Threads \ {t} : fresh'[u] = fresh[u]
  BY <1>1, <1>3
<1>7. c \notin disturbed' => Remembers(next, messages[c], SaidIn(c), req[t], fresh'[t])
  BY <1>1, <1>2, <1>4 DEF Remembers, Prompted
<1>8. disturbed' \subseteq Convs /\ pc[t] \notin {"publishQuestion", "publishAnswer"} /\ pc[t] # "idle"
  BY <1>1, <1>3, <1>4
<1> QED BY <1>1, <1>3, <1>4, <1>5, <1>6, <1>7, <1>8, QuietStep

-----------------------------------------------------------------------------
(* Steps that change the vector and not the log.                           *)
LEMMA VectorStep ==
  ASSUME ChatInv, NEW t \in Threads, NEW c \in Convs, NEW next \in Steps, Moves(t, c, next),
         UNCHANGED <<sent, failed, dropped, stored, strategy, log>>,
         fresh' \in [Threads -> {"none", "kept", "empty", "tool"}],
         \A u \in Threads \ {t} : fresh'[u] = fresh[u],
         disturbed \subseteq disturbed', disturbed' \subseteq Convs,
         pc[t] \notin {"publishQuestion", "publishAnswer"},
         NEW new \in Seq(AllMessages), messages' = [messages EXCEPT ![c] = new],
         c \notin disturbed' => Remembers(next, new, SaidIn(c), req[t], fresh'[t]),
         \A i \in DOMAIN new : \/ \E j \in DOMAIN messages[c] : new[i] = messages[c][j]
                               \/ new[i] = Prompt(req[t]),
         Len(new) >= Len(messages[c]) + (IF next \in Prompted THEN 1 ELSE 0)
                                      - (IF pc[t] \in Prompted THEN 1 ELSE 0)
  PROVE  ChatInv'
<1>1. /\ ChatTypeOK /\ Served
  BY DEF ChatInv
<1>2. /\ strategy' \in [Convs -> Registered \union {Default}]
      /\ log' \in Seq(Utterances) /\ \A i \in 1..Len(log') : log'[i].request \in 1..requests
      /\ sent \subseteq sent' /\ sent' \subseteq Utterances /\ UNCHANGED <<dropped, stored>>
      /\ failed \subseteq failed' /\ failed' \subseteq Utterances
  BY <1>1 DEF Served, ChatTypeOK
<1>3. \A d : SaidIn(d)' = SaidIn(d)
  <2> TAKE d
  <2>1. \A i \in 1..Len(log) : Belongs(log[i], d)' <=> Belongs(log[i], d)
    BY <1>1, Moved
  <2> QED BY <1>1, <2>1, SaidKept DEF Served
<1>4. \A m \in AllMessages : Explained(m) => Explained(m)'
  BY <1>1, ExplainedStays
<1>5. PICK p : p = Prompt(req[t])
  OBVIOUS
<1>6. Belongs(p, c) /\ p.role = "prompt"
  <2>1. Conv(t) = c /\ pc[t] # "idle"
    BY DEF Moves
  <2>2. p.role = "prompt" /\ Belongs(p, c)
    BY <1>1, <1>5, <2>1, AtWork, MessageFields DEF Prompt
  <2> QED BY <2>2
<1>8. \A i \in DOMAIN new : Belongs(new[i], c)
  BY <1>1, <1>5, <1>6 DEF ChatTypeOK
<1>9. ASSUME NEW m, \E i \in DOMAIN new : new[i] = m
      PROVE  (\E j \in DOMAIN messages[c] : messages[c][j] = m) \/ Explained(m)'
  <2>1. (\E j \in DOMAIN messages[c] : messages[c][j] = m) \/ m = p
    BY <1>5, <1>9
  <2>2. ASSUME m = p PROVE Explained(m)'
    <3>1. m.role = "prompt"
      BY <1>6, <2>2
    <3> QED BY <3>1 DEF Explained
  <2> QED BY <2>1, <2>2
<1>7. c \notin disturbed' => Remembers(next, new, SaidIn(c)', req[t], fresh'[t])
  BY <1>3
<1>10. \A m : (\E i \in DOMAIN new : new[i] = m) =>
              (\E j \in DOMAIN messages[c] : messages[c][j] = m) \/ Explained(m)'
  BY <1>9
<1>11. \A d \in Convs \ {c} : SaidIn(d)' = SaidIn(d)
  BY <1>3
<1> QED BY <1>2, <1>4, <1>7, <1>8, <1>10, <1>11, ThreadStep

LEMMA PushPromptKeeps ==
  ASSUME ChatInv, NEW t \in Threads, PushPrompt(t)
  PROVE  ChatInv'
<1>1. /\ pc[t] \in {"prompt", "secondPrompt"}
      /\ messages' = [messages EXCEPT ![Conv(t)] = Append(@, Prompt(req[t]))]
      /\ \E next \in {"firstAsk", "secondAsk"} : pc' = [pc EXCEPT ![t] = next]
      /\ UNCHANGED <<sent, failed, dropped, stored, strategy, log, running, restarts, requests, convOf,
                     helpers, listed, req, fresh, disturbed>>
  BY DEF PushPrompt, At, Goto, queueVars, unchangedByThread
<1>2. PICK c \in Convs : /\ c = Conv(t)
                         /\ c \notin disturbed =>
                              Remembers(pc[t], messages[c], SaidIn(c), req[t], fresh[t])
  BY <1>1, Here
<1>3. /\ fresh' \in [Threads -> {"none", "kept", "empty", "tool"}] /\ disturbed' \subseteq Convs
      /\ messages[c] \in Seq(AllMessages)
  BY <1>1 DEF ChatInv, ChatTypeOK, Served
<1>4. PICK next \in {"firstAsk", "secondAsk"} : Moves(t, c, next)
  BY <1>1, <1>2 DEF Moves
<1>5. /\ next \in Steps /\ next \in Prompted /\ pc[t] \notin Prompted
      /\ pc[t] \notin {"publishQuestion", "publishAnswer"}
  BY <1>1 DEF Steps, Prompted
<1>6. PICK p \in AllMessages : p = Prompt(req[t])
  <2>1. req[t] \in Requests
    BY <1>1, AtWork DEF ChatInv
  <2> QED BY <2>1, MessageFields
<1> DEFINE new == Append(messages[c], p)
<1>7. /\ new \in Seq(AllMessages) /\ Len(new) = Len(messages[c]) + 1 /\ Len(messages[c]) \in Nat
      /\ DOMAIN messages[c] = 1..Len(messages[c]) /\ DOMAIN new = 1..Len(messages[c]) + 1
      /\ \A i \in 1..Len(messages[c]) : new[i] = messages[c][i]
      /\ new[Len(messages[c]) + 1] = p
  BY <1>3, <1>6, Appended
<1>8. messages' = [messages EXCEPT ![c] = new]
  BY <1>1, <1>2, <1>6
<1>9. c \notin disturbed' => Remembers(next, new, SaidIn(c), req[t], fresh'[t])
  BY <1>1, <1>2, <1>4, <1>6 DEF Remembers, Prompted
<1> HIDE DEF new
<1>10. \A i \in DOMAIN new : \/ \E j \in DOMAIN messages[c] : new[i] = messages[c][j]
                             \/ new[i] = Prompt(req[t])
  <2> TAKE i \in DOMAIN new
  <2>1. i \in 1..Len(messages[c]) \/ i = Len(messages[c]) + 1
    BY <1>7
  <2> QED BY <1>6, <1>7, <2>1
<1>11. Len(new) >= Len(messages[c]) + (IF next \in Prompted THEN 1 ELSE 0)
                                    - (IF pc[t] \in Prompted THEN 1 ELSE 0)
  BY <1>5, <1>7
<1>12. UNCHANGED <<sent, failed, dropped, stored, strategy, log>> /\ disturbed \subseteq disturbed'
       /\ \A u \in Threads \ {t} : fresh'[u] = fresh[u]
  BY <1>1
<1> QED BY <1>3, <1>4, <1>5, <1>7, <1>8, <1>9, <1>10, <1>11, <1>12, VectorStep

LEMMA PopPromptKeeps ==
  ASSUME ChatInv, NEW t \in Threads, PopPrompt(t)
  PROVE  ChatInv'
<1>1. /\ pc[t] = "pop"
      /\ messages' = [messages EXCEPT ![Conv(t)] = ButLast(@)]
      /\ \E next \in {"secondPrompt", "question"} :
           /\ pc' = [pc EXCEPT ![t] = next]
           /\ next = "question" => fresh'[t] \in {"none", "kept"} \/ Conv(t) \in disturbed'
      /\ fresh' = fresh \/ fresh' = [fresh EXCEPT ![t] = "kept"]
      /\ disturbed' = disturbed \/ disturbed' = disturbed \union {Conv(t)}
      /\ UNCHANGED <<sent, failed, dropped, stored, strategy, log, running, restarts, requests, convOf,
                     helpers, listed, req>>
  <2>1. fresh \in [Threads -> {"none", "kept", "empty", "tool"}]
    BY DEF ChatInv, ChatTypeOK
  <2> QED BY <2>1 DEF PopPrompt, At, Goto, Disturb, ButLast, queueVars, unchangedByThread
<1>2. PICK c \in Convs : /\ c = Conv(t)
                         /\ c \notin disturbed =>
                              Remembers("pop", messages[c], SaidIn(c), req[t], fresh[t])
  BY <1>1, Here
<1>3. /\ fresh \in [Threads -> {"none", "kept", "empty", "tool"}] /\ disturbed \subseteq Convs
      /\ messages[c] \in Seq(AllMessages) /\ SaidIn(c) \in Seq(Utterances)
  BY SaidTyped DEF ChatInv, ChatTypeOK, Served
<1>4. PICK next \in {"secondPrompt", "question"} :
        Moves(t, c, next) /\ (next = "question" => fresh'[t] \in {"none", "kept"} \/ c \in disturbed')
  BY <1>1, <1>2 DEF Moves
<1>5. /\ next \in Steps /\ next \notin Prompted /\ pc[t] \in Prompted
      /\ pc[t] \notin {"publishQuestion", "publishAnswer"}
  BY <1>1 DEF Steps, Prompted
<1> DEFINE new == ButLast(messages[c])
<1>6. Len(messages[c]) > 0
  <2>1. t \in Prompting(c) /\ IsFiniteSet(Prompting(c))
    <3>1. Prompting(c) \subseteq Threads
      BY DEF Prompting
    <3>2. t \in Prompting(c)
      BY <1>2, <1>5 DEF Prompting
    <3> QED BY <3>1, <3>2, ChatAssumption, FS_Subset
  <2>2. Cardinality(Prompting(c)) \in Nat /\ Cardinality(Prompting(c)) # 0
    BY <2>1, FS_CardinalityType, FS_EmptySet
  <2>3. Cardinality(Prompting(c)) <= Len(messages[c]) /\ Len(messages[c]) \in Nat
    BY <1>3, LenProperties DEF ChatInv, Pushed
  <2> QED BY <2>2, <2>3
<1>7. /\ new \in Seq(AllMessages) /\ Len(new) = Len(messages[c]) - 1 /\ Len(messages[c]) \in Nat
      /\ \A i \in DOMAIN new : i \in DOMAIN messages[c] /\ new[i] = messages[c][i]
  BY <1>3, <1>6, AllButLast, LenProperties
<1>8. messages' = [messages EXCEPT ![c] = new]
  BY <1>1, <1>2
<1>9. c \notin disturbed' => Remembers(next, new, SaidIn(c), req[t], fresh'[t])
  <2> SUFFICES ASSUME c \notin disturbed' PROVE Remembers(next, new, SaidIn(c), req[t], fresh'[t])
    OBVIOUS
  <2>1. PICK p \in AllMessages : p = Prompt(req[t])
    <3>1. req[t] \in Requests
      BY <1>1, AtWork DEF ChatInv
    <3> QED BY <3>1, MessageFields
  <2>2. Remembers("pop", messages[c], SaidIn(c), req[t], fresh[t])
    BY <1>1, <1>2
  <2>3. messages[c] = Append(SaidIn(c), p) /\ Alternates(SaidIn(c))
    BY <2>1, <2>2 DEF Remembers, Prompted
  <2>4. ButLast(Append(SaidIn(c), p)) = SaidIn(c)
    BY <1>3, <2>1, Appended, UtterancesInAll
  <2>5. new = SaidIn(c)
    BY <2>3, <2>4
  <2> HIDE DEF new
  <2> QED BY <1>4, <2>3, <2>5 DEF Remembers, Prompted
<1> HIDE DEF new
<1>10. \A i \in DOMAIN new : \/ \E j \in DOMAIN messages[c] : new[i] = messages[c][j]
                             \/ new[i] = Prompt(req[t])
  BY <1>7
<1>11. Len(new) >= Len(messages[c]) + (IF next \in Prompted THEN 1 ELSE 0)
                                    - (IF pc[t] \in Prompted THEN 1 ELSE 0)
  BY <1>5, <1>7
<1>12. /\ UNCHANGED <<sent, failed, dropped, stored, strategy, log>> /\ disturbed \subseteq disturbed'
       /\ disturbed' \subseteq Convs
       /\ \A u \in Threads \ {t} : fresh'[u] = fresh[u]
       /\ fresh' \in [Threads -> {"none", "kept", "empty", "tool"}]
  BY <1>1, <1>2, <1>3
<1> QED BY <1>4, <1>5, <1>7, <1>8, <1>9, <1>10, <1>11, <1>12, VectorStep

-----------------------------------------------------------------------------
(* A message is said: it is appended to the vector and to the log.         *)
LEMMA SayStep ==
  ASSUME ChatInv, NEW t \in Threads, NEW c \in Convs, NEW role \in Roles, NEW next \in Steps,
         Moves(t, c, next), pc[t] \notin {"publishQuestion", "publishAnswer"}, pc[t] \notin Prompted,
         next = IF role = "question" THEN "publishQuestion" ELSE "publishAnswer",
         NEW m, m = Message(req[t], role),
         messages' = [messages EXCEPT ![c] = Append(messages[c], m)], log' = Append(log, m),
         UNCHANGED <<sent, failed, dropped, stored, strategy, fresh, disturbed>>,
         c \notin disturbed =>
           Remembers(next, Append(messages[c], m), Append(SaidIn(c), m), req[t], fresh[t])
  PROVE  ChatInv'
<1>1. /\ ChatTypeOK /\ Served /\ Conv(t) = c /\ pc[t] # "idle"
      /\ UNCHANGED <<requests, convOf, req>>
  BY DEF ChatInv, Moves
<1>2. /\ strategy' \in [Convs -> Registered \union {Default}]
      /\ fresh' \in [Threads -> {"none", "kept", "empty", "tool"}]
      /\ \A u \in Threads \ {t} : fresh'[u] = fresh[u]
      /\ sent \subseteq sent' /\ sent' \subseteq Utterances /\ UNCHANGED <<dropped, stored>>
      /\ failed \subseteq failed' /\ failed' \subseteq Utterances
      /\ disturbed \subseteq disturbed' /\ disturbed' \subseteq Convs
      /\ messages[c] \in Seq(AllMessages) /\ log \in Seq(Utterances)
      /\ \A i \in 1..Len(log) : log[i].request \in 1..requests
  BY <1>1 DEF Served, ChatTypeOK
<1>3. /\ req[t] \in Requests /\ req[t] \in 1..requests
      /\ \A d : Belongs(m, d) <=> d = c
  BY <1>1, AtWork
<1>4. m \in Utterances /\ m \in AllMessages /\ m.request = req[t] /\ m.role = role
  BY <1>3, MessageFields
<1>5. log' \in Seq(Utterances) /\ \A i \in 1..Len(log') : log'[i].request \in 1..requests
  <2>1. /\ log' \in Seq(Utterances) /\ Len(log') = Len(log) + 1 /\ Len(log) \in Nat
        /\ \A i \in 1..Len(log) : log'[i] = log[i]
        /\ log'[Len(log) + 1] = m
    BY <1>2, <1>4, Appended
  <2>2. \A i \in 1..Len(log') : i \in 1..Len(log) \/ i = Len(log) + 1
    BY <2>1
  <2> QED BY <1>2, <1>3, <1>4, <2>1, <2>2
<1>6. \A d : SaidIn(d)' = IF d = c THEN Append(SaidIn(d), m) ELSE SaidIn(d)
  BY <1>1, <1>2, <1>3, <1>4, SaidGrows
<1>7. \A d \in Convs \ {c} : SaidIn(d)' = SaidIn(d)
  BY <1>6
<1> DEFINE new == Append(messages[c], m)
<1>8. /\ new \in Seq(AllMessages) /\ Len(new) = Len(messages[c]) + 1 /\ Len(messages[c]) \in Nat
      /\ DOMAIN messages[c] = 1..Len(messages[c]) /\ DOMAIN new = 1..Len(messages[c]) + 1
      /\ \A i \in 1..Len(messages[c]) : new[i] = messages[c][i]
      /\ new[Len(messages[c]) + 1] = m
  BY <1>2, <1>4, Appended
<1>9. c \notin disturbed' => Remembers(next, new, SaidIn(c)', req[t], fresh'[t])
  <2>1. SaidIn(c)' = Append(SaidIn(c), m) /\ fresh' = fresh /\ disturbed' = disturbed
    BY <1>6
  <2> HIDE DEF new
  <2> QED BY <2>1 DEF new
<1>10. messages' = [messages EXCEPT ![c] = new]
  OBVIOUS
<1> HIDE DEF new
<1>11. \A i \in DOMAIN new : (\E j \in DOMAIN messages[c] : messages[c][j] = new[i]) \/ new[i] = m
  <2> TAKE i \in DOMAIN new
  <2>1. i \in 1..Len(messages[c]) \/ i = Len(messages[c]) + 1
    BY <1>8
  <2> QED BY <1>8, <2>1
<1>12. \A i \in DOMAIN new : Belongs(new[i], c)
  BY <1>1, <1>3, <1>11 DEF ChatTypeOK
<1>13. \A n \in AllMessages : Explained(n) => Explained(n)'
  BY <1>1, <1>2, ExplainedStays
<1>14. ASSUME NEW n, n = m PROVE Explained(n)'
  <2>1. pc'[t] = (IF n.role = "question" THEN "publishQuestion" ELSE "publishAnswer")
    BY <1>1, <1>4, <1>14, Moved
  <2>2. req'[t] = n.request
    BY <1>1, <1>4, <1>14
  <2> QED BY <2>1, <2>2 DEF Explained
<1>15. \A n : (\E i \in DOMAIN new : new[i] = n) =>
              (\E j \in DOMAIN messages[c] : messages[c][j] = n) \/ Explained(n)'
  BY <1>11, <1>14
<1>16. Len(new) >= Len(messages[c]) + (IF next \in Prompted THEN 1 ELSE 0)
                                    - (IF pc[t] \in Prompted THEN 1 ELSE 0)
  <2>1. next \notin Prompted
    BY DEF Prompted
  <2> QED BY <1>8, <2>1
<1> QED BY <1>2, <1>5, <1>7, <1>8, <1>9, <1>10, <1>12, <1>13, <1>15, <1>16, ThreadStep

LEMMA AddQuestionKeeps ==
  ASSUME ChatInv, NEW t \in Threads, AddQuestion(t)
  PROVE  ChatInv'
<1>1. PICK m : m = Message(req[t], "question")
  OBVIOUS
<1>2. /\ pc[t] = "question"
      /\ messages' = [messages EXCEPT ![Conv(t)] = Append(@, m)] /\ log' = Append(log, m)
      /\ pc' = [pc EXCEPT ![t] = "publishQuestion"]
      /\ UNCHANGED <<sent, failed, dropped, stored, strategy, running, restarts, requests, convOf,
                     helpers, listed, req, fresh, disturbed>>
  BY <1>1 DEF AddQuestion, Append1, At, Goto, queueVars, unchangedByThread
<1>3. PICK c \in Convs : /\ c = Conv(t)
                         /\ c \notin disturbed =>
                              Remembers("question", messages[c], SaidIn(c), req[t], fresh[t])
  BY <1>2, Here
<1>4. Moves(t, c, "publishQuestion") /\ "publishQuestion" \in Steps
  BY <1>2, <1>3 DEF Moves, Steps
<1>5. /\ pc[t] \notin Prompted /\ pc[t] \notin {"publishQuestion", "publishAnswer"}
      /\ "question" \in Roles
      /\ messages' = [messages EXCEPT ![c] = Append(messages[c], m)]
  BY <1>2, <1>3 DEF Prompted, Roles
<1>6. ASSUME c \notin disturbed
      PROVE  Remembers("publishQuestion", Append(messages[c], m), Append(SaidIn(c), m), req[t], fresh[t])
  <2>1. messages[c] = SaidIn(c) /\ Alternates(SaidIn(c)) /\ fresh[t] \in {"none", "kept"}
    BY <1>3, <1>6 DEF Remembers, Prompted
  <2>2. SaidIn(c) \in Seq(Utterances) /\ m \in Utterances
    <3>1. req[t] \in Requests /\ log \in Seq(Utterances)
      BY <1>2, AtWork DEF ChatInv, Served
    <3> QED BY <1>1, <1>5, <3>1, MessageFields, SaidTyped
  <2>3. ButLast(Append(SaidIn(c), m)) = SaidIn(c)
    BY <2>2, Appended
  <2> QED BY <1>1, <2>1, <2>3 DEF Remembers, Prompted
<1> QED BY <1>1, <1>2, <1>4, <1>5, <1>6, SayStep

LEMMA AddAnswerKeeps ==
  ASSUME ChatInv, NEW t \in Threads, AddAnswer(t)
  PROVE  ChatInv'
<1>1. PICK m : m = Message(req[t], "answer")
  OBVIOUS
<1>2. /\ pc[t] = "answer"
      /\ messages' = [messages EXCEPT ![Conv(t)] = Append(@, m)] /\ log' = Append(log, m)
      /\ pc' = [pc EXCEPT ![t] = "publishAnswer"]
      /\ UNCHANGED <<sent, failed, dropped, stored, strategy, running, restarts, requests, convOf,
                     helpers, listed, req, fresh, disturbed>>
  BY <1>1 DEF AddAnswer, Append1, At, Goto, queueVars, unchangedByThread
<1>3. PICK c \in Convs : /\ c = Conv(t)
                         /\ c \notin disturbed =>
                              Remembers("answer", messages[c], SaidIn(c), req[t], fresh[t])
  BY <1>2, Here
<1>4. Moves(t, c, "publishAnswer") /\ "publishAnswer" \in Steps
  BY <1>2, <1>3 DEF Moves, Steps
<1>5. /\ pc[t] \notin Prompted /\ pc[t] \notin {"publishQuestion", "publishAnswer"}
      /\ "answer" \in Roles
      /\ messages' = [messages EXCEPT ![c] = Append(messages[c], m)]
  BY <1>2, <1>3 DEF Prompted, Roles
<1>6. ASSUME c \notin disturbed
      PROVE  Remembers("publishAnswer", Append(messages[c], m), Append(SaidIn(c), m), req[t], fresh[t])
  <2>1. /\ messages[c] = SaidIn(c) /\ Alternates(ButLast(SaidIn(c)))
        /\ SaidIn(c) = Append(ButLast(SaidIn(c)), Message(req[t], "question"))
    BY <1>3, <1>6 DEF Remembers, Prompted
  <2>2. req[t] \in Requests /\ ButLast(SaidIn(c)) \in Seq(Utterances)
    <3>1. req[t] \in Requests /\ log \in Seq(Utterances)
      BY <1>2, AtWork DEF ChatInv, Served
    <3> QED BY <3>1, SaidTyped, AllButLast
  <2>3. Alternates(Append(Append(ButLast(SaidIn(c)), Message(req[t], "question")), m))
    BY <1>1, <2>1, <2>2, AlternatesMore
  <2>4. Alternates(Append(SaidIn(c), m))
    BY <2>1, <2>3, Zenon
  <2> QED BY <2>1, <2>4 DEF Remembers, Prompted
<1> QED BY <1>1, <1>2, <1>4, <1>5, <1>6, SayStep

-----------------------------------------------------------------------------
(* What was said is published.                                             *)
LEMMA PublishStep ==
  ASSUME ChatInv, NEW t \in Threads, NEW c \in Convs, NEW role \in Roles, NEW next \in Steps,
         Moves(t, c, next), next \notin Prompted,
         pc[t] = IF role = "question" THEN "publishQuestion" ELSE "publishAnswer",
         NEW q, q = Message(req[t], role), q \in sent' \union failed',
         sent \subseteq sent', sent' \subseteq sent \union {q},
         failed \subseteq failed', failed' \subseteq failed \union {q},
         disturbed \subseteq disturbed', disturbed' \subseteq disturbed \union {c},
         UNCHANGED <<dropped, stored, messages, strategy, fresh, log>>,
         c \notin disturbed' => Remembers(next, messages[c], SaidIn(c), req[t], fresh[t])
  PROVE  ChatInv'
<1>1. /\ ChatTypeOK /\ Served /\ pc[t] # "idle"
      /\ UNCHANGED <<requests, convOf, req>>
  BY DEF ChatInv, Moves
<1>2. req[t] \in Requests /\ q \in Utterances
  BY <1>1, AtWork, MessageFields
<1>3. /\ strategy' \in [Convs -> Registered \union {Default}]
      /\ fresh' \in [Threads -> {"none", "kept", "empty", "tool"}]
      /\ \A u \in Threads \ {t} : fresh'[u] = fresh[u]
      /\ sent \subseteq sent' /\ sent' \subseteq Utterances /\ UNCHANGED <<dropped, stored>>
      /\ failed \subseteq failed' /\ failed' \subseteq Utterances
      /\ disturbed \subseteq disturbed' /\ disturbed' \subseteq Convs
      /\ messages[c] \in Seq(AllMessages) /\ messages' = [messages EXCEPT ![c] = messages[c]]
      /\ log' \in Seq(Utterances) /\ \A i \in 1..Len(log') : log'[i].request \in 1..requests
  BY <1>1, <1>2 DEF Served, ChatTypeOK
<1>4. \A d : SaidIn(d)' = SaidIn(d)
  <2> TAKE d
  <2>1. \A i \in 1..Len(log) : Belongs(log[i], d)' <=> Belongs(log[i], d)
    BY <1>1, Moved
  <2> QED BY <1>1, <2>1, SaidKept DEF Served
<1>5. c \notin disturbed' => Remembers(next, messages[c], SaidIn(c)', req[t], fresh'[t])
  BY <1>4
<1>6. ASSUME NEW m \in AllMessages, Explained(m) PROVE Explained(m)'
  <2>1. /\ \A u \in Threads \ {t} : pc'[u] = pc[u]
    BY <1>1, Moved
  <2>2. CASE m.role = "prompt" \/ m \in sent \union failed
    BY <2>2 DEF Explained
  <2>3. CASE /\ m.role # "prompt"
             /\ \E u \in Threads :
                  /\ req[u] = m.request
                  /\ pc[u] = IF m.role = "question" THEN "publishQuestion" ELSE "publishAnswer"
    <3>1. PICK u \in Threads : /\ req[u] = m.request
                               /\ pc[u] = IF m.role = "question" THEN "publishQuestion" ELSE "publishAnswer"
      BY <2>3
    <3>2. CASE u # t
      BY <1>1, <2>1, <3>1, <3>2 DEF Explained
    <3>3. CASE u = t
      <4>1. m.role \in Roles /\ m = Message(m.request, m.role)
        BY <2>3 DEF AllMessages, Message
      <4>2. m.role = role
        BY <3>1, <3>3, <4>1 DEF Roles
      <4>3. m \in sent' \union failed'
        BY <3>1, <3>3, <4>1, <4>2
      <4> QED BY <4>3 DEF Explained
    <3> QED BY <3>2, <3>3
  <2> QED BY <1>6, <2>2, <2>3 DEF Explained
<1>7. \A m : (\E i \in DOMAIN messages[c] : messages[c][i] = m) =>
              (\E j \in DOMAIN messages[c] : messages[c][j] = m) \/ Explained(m)'
  OBVIOUS
<1>8. Len(messages[c]) >= Len(messages[c]) + (IF next \in Prompted THEN 1 ELSE 0)
                                           - (IF pc[t] \in Prompted THEN 1 ELSE 0)
  <2>1. Len(messages[c]) \in Nat
    BY <1>3, LenProperties
  <2> QED BY <2>1
<1>9. \A i \in DOMAIN messages[c] : Belongs(messages[c][i], c)
  BY <1>1 DEF ChatTypeOK
<1>10. \A m \in AllMessages : Explained(m) => Explained(m)'
  BY <1>6
<1>11. \A d \in Convs \ {c} : SaidIn(d)' = SaidIn(d)
  BY <1>4
<1> QED BY <1>3, <1>5, <1>7, <1>8, <1>9, <1>10, <1>11, ThreadStep

\* What either publish() does, whether it returns or throws.
LEMMA Tried ==
  ASSUME NEW q,
         \/ Queue!Publish(q) /\ UNCHANGED failed
         \/ PublishThrows(q)
  PROVE  /\ q \in sent' \union failed'
         /\ sent \subseteq sent' /\ sent' \subseteq sent \union {q}
         /\ failed \subseteq failed' /\ failed' \subseteq failed \union {q}
         /\ UNCHANGED <<dropped, stored>>
BY DEF Queue!Publish, PublishThrows, queueVars

LEMMA PublishQuestionKeeps ==
  ASSUME ChatInv, NEW t \in Threads, PublishQuestion(t)
  PROVE  ChatInv'
<1>1. PICK q : q = Message(req[t], "question")
  OBVIOUS
<1>2. /\ pc[t] = "publishQuestion"
      /\ \/ Queue!Publish(q) /\ UNCHANGED failed
         \/ PublishThrows(q)
      /\ \E next \in {"ask", "answer", "idle"} :
           /\ pc' = [pc EXCEPT ![t] = next]
           /\ next = "idle" => fresh[t] \notin {"none", "kept"} \/ Conv(t) \in disturbed'
      /\ disturbed' = disturbed \/ disturbed' = disturbed \union {Conv(t)}
      /\ UNCHANGED <<messages, strategy, log, running, restarts, requests, convOf,
                     helpers, listed, req, fresh>>
  <2>1. \E next \in {"ask", "answer", "idle"} :
           /\ pc' = [pc EXCEPT ![t] = next]
           /\ next = "idle" => fresh[t] \notin {"none", "kept"} \/ Conv(t) \in disturbed'
    BY DEF PublishQuestion, AfterQuestion, Disturb, Goto
  <2> QED BY <1>1, <2>1 DEF PublishQuestion, Disturb, At, unchangedByThread
<1>3. PICK c \in Convs : /\ c = Conv(t)
                         /\ c \notin disturbed =>
                              Remembers("publishQuestion", messages[c], SaidIn(c), req[t], fresh[t])
  BY <1>2, Here
<1>4. PICK next \in {"ask", "answer", "idle"} :
        /\ Moves(t, c, next)
        /\ next = "idle" => fresh[t] \notin {"none", "kept"} \/ c \in disturbed'
  BY <1>2, <1>3 DEF Moves
<1>5. next \in Steps /\ next \notin Prompted /\ "question" \in Roles
  BY DEF Steps, Prompted, Roles
<1>6. disturbed \subseteq disturbed' /\ disturbed' \subseteq disturbed \union {c}
  BY <1>2, <1>3
<1>7. c \notin disturbed' => Remembers(next, messages[c], SaidIn(c), req[t], fresh[t])
  BY <1>3, <1>4, <1>6 DEF Remembers, Prompted
<1>8. /\ q \in sent' \union failed'
      /\ sent \subseteq sent' /\ sent' \subseteq sent \union {q}
      /\ failed \subseteq failed' /\ failed' \subseteq failed \union {q}
      /\ UNCHANGED <<dropped, stored>>
  BY <1>2, Tried
<1> QED BY <1>1, <1>2, <1>4, <1>5, <1>6, <1>7, <1>8, PublishStep

LEMMA PublishAnswerKeeps ==
  ASSUME ChatInv, NEW t \in Threads, PublishAnswer(t)
  PROVE  ChatInv'
<1>1. PICK q : q = Message(req[t], "answer")
  OBVIOUS
<1>2. /\ pc[t] = "publishAnswer"
      /\ \/ Queue!Publish(q) /\ UNCHANGED failed
         \/ PublishThrows(q)
      /\ pc' = [pc EXCEPT ![t] = "idle"]
      /\ UNCHANGED <<messages, strategy, log, running, restarts, requests, convOf,
                     helpers, listed, req, fresh, disturbed>>
  BY <1>1 DEF PublishAnswer, At, Goto, unchangedByThread
<1>3. PICK c \in Convs : /\ c = Conv(t)
                         /\ c \notin disturbed =>
                              Remembers("publishAnswer", messages[c], SaidIn(c), req[t], fresh[t])
  BY <1>2, Here
<1>4. Moves(t, c, "idle") /\ disturbed \subseteq disturbed' /\ disturbed' \subseteq disturbed \union {c}
  BY <1>2, <1>3 DEF Moves
<1>5. "idle" \in Steps /\ "idle" \notin Prompted /\ "answer" \in Roles /\ "answer" # "question"
  BY DEF Steps, Prompted, Roles
<1>6. c \notin disturbed' => Remembers("idle", messages[c], SaidIn(c), req[t], fresh[t])
  BY <1>2, <1>3 DEF Remembers, Prompted
<1>7. /\ q \in sent' \union failed'
      /\ sent \subseteq sent' /\ sent' \subseteq sent \union {q}
      /\ failed \subseteq failed' /\ failed' \subseteq failed \union {q}
      /\ UNCHANGED <<dropped, stored>>
  BY <1>2, Tried
<1> QED BY <1>1, <1>2, <1>4, <1>5, <1>6, <1>7, PublishStep

-----------------------------------------------------------------------------
(* The other steps: a request begins, the server starts or dies, the queue.*)
LEMMA UnmovedStep ==
  ASSUME ChatInv, ChatTypeOK', \A m \in Utterances : stored'[m] # 0 => m \in sent,
         UNCHANGED <<sent, failed, running, requests, convOf, messages, pc, req, fresh, log, disturbed>>
  PROVE  ChatInv'
<1>1. /\ Served /\ Alone /\ Kept /\ Published /\ Pushed
  BY DEF ChatInv
<1>2. Served' /\ Alone' /\ Published' /\ Pushed'
  BY <1>1 DEF Served, Alone, Published, Explained, Pushed, Prompting, Conv
<1>3. \A c : SaidIn(c)' = SaidIn(c) /\ (Busy(c)' <=> Busy(c))
  BY DEF SaidIn, Belongs, Busy, Conv
<1>4. \A t : Conv(t)' = Conv(t)
  BY DEF Conv
<1>5. Kept'
  BY <1>1, <1>3, <1>4 DEF Kept
<1> QED BY <1>2, <1>5 DEF ChatInv

LEMMA QueueStepKeeps ==
  ASSUME ChatInv, QueueStep
  PROVE  ChatInv'
<1>1. ChatTypeOK /\ Served /\ UNCHANGED serverVars
  BY DEF ChatInv, QueueStep
<1>2. ChatTypeOK' /\ sent' = sent /\ \A m \in Utterances : stored'[m] # 0 => m \in sent
  <2>1. ASSUME NEW m \in Utterances, stored[m] < MaxCopies, Queue!Store(m)
        PROVE  ChatTypeOK' /\ sent' = sent /\ \A n \in Utterances : stored'[n] # 0 => n \in sent
    <3>1. m \in sent /\ stored' = [stored EXCEPT ![m] = @ + 1] /\ UNCHANGED <<sent, dropped>>
      BY <2>1 DEF Queue!Store
    <3>2. stored' \in [Utterances -> 0..MaxCopies] /\ \A n \in Utterances : stored'[n] # 0 => n \in sent
      BY <1>1, <2>1, <3>1, ChatAssumption DEF ChatTypeOK, Served
    <3> QED BY <1>1, <3>1, <3>2 DEF ChatTypeOK, serverVars, Belongs
  <2>2. ASSUME NEW m \in Queue!Pending, Queue!Lose({m})
        PROVE  ChatTypeOK' /\ sent' = sent /\ \A n \in Utterances : stored'[n] # 0 => n \in sent
    <3>1. m \in sent /\ dropped' = dropped \union {m} /\ UNCHANGED <<sent, stored>>
      BY <2>2 DEF Queue!Lose, Queue!Pending
    <3> QED BY <1>1, <3>1 DEF ChatTypeOK, Served, serverVars, Belongs
  <2> QED BY <2>1, <2>2 DEF QueueStep
<1> QED BY <1>1, <1>2, UnmovedStep DEF serverVars

LEMMA ChatHistoryKeeps ==
  ASSUME ChatInv, NEW c \in Convs, ChatHistory(c)
  PROVE  ChatInv'
<1>1. /\ ChatTypeOK /\ Served
      /\ UNCHANGED <<queueVars, running, restarts, requests, convOf, listed, messages, strategy, pc,
                     req, fresh, failed, log, twins, disturbed>>
      /\ helpers' = helpers \union {c}
  BY DEF ChatInv, ChatHistory
<1>2. ChatTypeOK'
  BY <1>1 DEF ChatTypeOK, Belongs, queueVars
<1> QED BY <1>1, <1>2, UnmovedStep DEF queueVars, Served

LEMMA ChatStutterKeeps ==
  ASSUME ChatInv, UNCHANGED chatVars
  PROVE  ChatInv'
<1>1. ChatTypeOK /\ Served /\ UNCHANGED <<queueVars, serverVars>>
  BY DEF ChatInv, chatVars
<1>2. ChatTypeOK'
  BY <1>1 DEF ChatTypeOK, Belongs, queueVars, serverVars
<1> QED BY <1>1, <1>2, UnmovedStep DEF queueVars, serverVars, Served

\* Nobody is at work.
LEMMA RestingHolds ==
  ASSUME \A t \in Threads : pc'[t] = "idle", messages' \in [Convs -> Seq(AllMessages)]
  PROVE  /\ Alone' /\ Pushed' /\ \A c : ~Busy(c)'
<1>1. Alone' /\ \A c : ~Busy(c)'
  BY DEF Alone, Busy
<1>2. ASSUME NEW c \in Convs PROVE Cardinality(Prompting(c)') <= Len(messages'[c])
  <2>1. Prompting(c)' = {}
    BY DEF Prompting, Prompted
  <2>2. Cardinality(Prompting(c)') = 0
    BY <2>1, FS_EmptySet
  <2>3. Len(messages'[c]) \in Nat
    <3>1. messages'[c] \in Seq(AllMessages)
      OBVIOUS
    <3> QED BY <3>1, LenProperties
  <2> QED BY <2>2, <2>3
<1> QED BY <1>1, <1>2 DEF Pushed

LEMMA ServerStartsKeeps ==
  ASSUME ChatInv, ServerStarts
  PROVE  ChatInv'
<1>1. /\ ChatTypeOK /\ Served /\ Kept /\ ~running /\ running' = TRUE
      /\ \A t \in Threads : pc[t] = "idle"
      /\ helpers' = {c \in Convs : messages'[c] # <<>>} /\ listed' = helpers'
      /\ UNCHANGED <<sent, failed, dropped, stored, strategy, restarts, requests, convOf, pc, req, fresh, log>>
  BY DEF ChatInv, ServerStarts, Served, queueVars
<1>2. /\ \A c, m : Belongs(m, c)' <=> Belongs(m, c)
      /\ \A c : SaidIn(c)' = SaidIn(c)
  BY <1>1 DEF SaidIn, Belongs
<1> DEFINE Stored(c) == {m \in Utterances : Belongs(m, c) /\ m \in sent}
<1>3. /\ messages' = [c \in Convs |-> messages'[c]]
      /\ \A c \in Convs : messages'[c] \in Seq(Stored(c))
      /\ disturbed \subseteq disturbed' /\ disturbed' \subseteq Convs
      /\ \A c \in Convs \ disturbed' : messages'[c] = SaidIn(c)
  <2>1. CASE /\ \E swapped \in SUBSET twins : messages' = [c \in Convs |-> Restored(c, swapped)]
             /\ disturbed' = disturbed \union {c \in Convs : ~Settled(c)}
    <3>1. PICK swapped \in SUBSET twins : messages' = [c \in Convs |-> Restored(c, swapped)]
      BY <2>1
    <3>2. \A c \in Convs : Restored(c, swapped) \in Seq(Stored(c))
      BY <1>1, RestoredTyped
    <3> HIDE DEF Stored
    <3>3. \A c \in Convs \ disturbed' : Restored(c, swapped) = SaidIn(c)
      BY <1>1, <2>1, RestoredSettled
    <3> QED BY <1>1, <2>1, <3>1, <3>2, <3>3 DEF ChatTypeOK
  <2>2. CASE /\ messages' = [c \in Convs |-> <<>>]
             /\ disturbed' = disturbed \union {convOf[r] : r \in 1..requests}
    <3>1. \A c \in Convs : <<>> \in Seq(Stored(c))
      BY EmptySeq
    <3> HIDE DEF Stored
    <3>2. disturbed \subseteq Convs /\ \A r \in 1..requests : convOf[r] \in Convs
      BY <1>1 DEF ChatTypeOK
    <3>3. ASSUME NEW c \in Convs \ disturbed' PROVE SaidIn(c) = <<>>
      <4>1. \A i \in 1..Len(log) : ~Belongs(log[i], c)
        BY <2>2, <3>3 DEF Belongs
      <4> QED BY <1>1, <4>1, SaidNone DEF Served
    <3> QED BY <2>2, <3>1, <3>2, <3>3
  <2> QED BY <2>1, <2>2 DEF ServerStarts
<1>4. ASSUME NEW c \in Convs
      PROVE  /\ messages'[c] \in Seq(AllMessages)
             /\ \A i \in DOMAIN messages'[c] : messages'[c][i] \in Stored(c)
  <2>1. Stored(c) \subseteq AllMessages
    BY MessageFields
  <2> HIDE DEF Stored
  <2>2. messages'[c] \in Seq(Stored(c))
    BY <1>3
  <2> QED BY <2>1, <2>2, SeqMonotonic, ElementOfSeq, LenProperties
<1>5. messages' \in [Convs -> Seq(AllMessages)]
  BY <1>3, <1>4
<1>6. ChatTypeOK' /\ Served'
  <2>1. \A c \in Convs : \A i \in DOMAIN messages'[c] : Belongs(messages'[c][i], c)
    BY <1>4
  <2>2. ChatTypeOK'
    BY <1>1, <1>2, <1>3, <2>1 DEF ChatTypeOK
  <2> QED BY <1>1, <1>5, <2>2 DEF Served
<1>7. Alone' /\ Pushed' /\ \A c : ~Busy(c)'
  BY <1>1, <1>5, RestingHolds
<1>8. Published'
  <2>1. ASSUME NEW c \in Convs, NEW i, i \in DOMAIN messages'[c], NEW m, m = messages'[c][i]
        PROVE  Explained(m)'
    <3>1. m \in sent'
      BY <1>1, <1>4, <2>1
    <3> QED BY <3>1 DEF Explained
  <2> QED BY <2>1 DEF Published
<1>9. Kept'
  <2>1. \A c \in Convs \ disturbed' : Alternates(SaidIn(c))
    BY <1>1, <1>3 DEF Kept
  <2>2. \A c \in Convs \ disturbed' : Remembers("idle", messages'[c], SaidIn(c)', 0, "none")
    BY <1>2, <1>3, <2>1 DEF Remembers, Prompted
  <2>3. \A t \in Threads : pc'[t] = "idle"
    BY <1>1
  <2> QED BY <1>1, <2>2, <2>3 DEF Kept
<1> QED BY <1>6, <1>7, <1>8, <1>9 DEF ChatInv

LEMMA ServerDiesKeeps ==
  ASSUME ChatInv, ServerDies
  PROVE  ChatInv'
<1>1. /\ ChatTypeOK /\ Served /\ Kept /\ running /\ running' = FALSE
      /\ restarts' \in 0..MaxRestarts
      /\ helpers' = {} /\ listed' = {}
      /\ messages' = [c \in Convs |-> <<>>]
      /\ strategy' = [c \in Convs |-> Default]
      /\ pc' = [t \in Threads |-> "idle"]
      /\ req' = [t \in Threads |-> 0]
      /\ fresh' = [t \in Threads |-> "none"]
      /\ disturbed' = disturbed \union {c \in Convs : Busy(c)}
      /\ UNCHANGED <<sent, failed, dropped, stored, requests, convOf, log>>
  <2>1. restarts \in 0..MaxRestarts /\ MaxRestarts \in Nat
    BY ChatAssumption DEF ChatInv, ChatTypeOK
  <2> QED BY <2>1 DEF ChatInv, ServerDies, queueVars
<1>2. /\ \A c, m : Belongs(m, c)' <=> Belongs(m, c)
      /\ \A c : SaidIn(c)' = SaidIn(c)
  BY <1>1 DEF SaidIn, Belongs
<1>3. /\ messages' \in [Convs -> Seq(AllMessages)]
      /\ \A c \in Convs : messages'[c] = <<>> /\ DOMAIN messages'[c] = {}
  <2>1. \A c \in Convs : messages'[c] = <<>>
    BY <1>1
  <2>2. DOMAIN <<>> = {} /\ <<>> \in Seq(AllMessages)
    BY EmptySeq
  <2> QED BY <1>1, <2>1, <2>2
<1>4. ChatTypeOK'
  <2>1. requests \in 0..MaxRequests /\ MaxRequests \in Nat
    BY <1>1, ChatAssumption DEF ChatTypeOK
  <2>2. req' \in [Threads -> 0..requests] /\ disturbed' \subseteq Convs /\ running' \in BOOLEAN
    <3>1. req' \in [Threads -> 0..requests]
      <4>1. 0 \in 0..requests
        BY <2>1
      <4> QED BY <1>1, <4>1
    <3>2. disturbed \subseteq Convs
      BY <1>1 DEF ChatTypeOK
    <3> QED BY <1>1, <3>1, <3>2
  <2>3. \A c \in Convs : \A i \in DOMAIN messages'[c] : FALSE
    BY <1>3
  <2>4. /\ strategy' \in [Convs -> Registered \union {Default}]
        /\ fresh' \in [Threads -> {"none", "kept", "empty", "tool"}]
    BY <1>1
  <2>5. /\ sent' \subseteq Utterances /\ dropped' \subseteq sent' /\ failed' \subseteq Utterances
        /\ stored' \in [Utterances -> 0..MaxCopies]
        /\ requests' \in 0..MaxRequests /\ convOf' \in [1..requests' -> Convs]
    BY <1>1 DEF ChatTypeOK
  <2>6. listed' \subseteq helpers' /\ helpers' \subseteq Convs
    BY <1>1
  <2>7. requests' = requests /\ restarts' \in 0..MaxRestarts
    BY <1>1
  <2> QED BY <2>2, <2>3, <2>4, <2>5, <2>6, <2>7 DEF ChatTypeOK
<1>5. \A t \in Threads : pc'[t] = "idle"
  BY <1>1
<1>6. Served'
  <2>1. pc' \in [Threads -> Steps]
    BY <1>1 DEF Steps
  <2> QED BY <1>1, <1>3, <1>5, <2>1 DEF Served
<1>7. Alone' /\ Pushed'
  BY <1>3, <1>5, RestingHolds
<1>8. Published'
  BY <1>3 DEF Published
<1>9. Kept'
  <2>1. \A c \in Convs \ disturbed' : Alternates(SaidIn(c))
    BY <1>1 DEF Kept, Remembers
  <2> QED BY <1>1, <1>2, <1>5, <2>1 DEF Kept
<1> QED BY <1>4, <1>6, <1>7, <1>8, <1>9 DEF ChatInv

LEMMA BeginChatKeeps ==
  ASSUME ChatInv, NEW t \in Threads, NEW c \in Convs, NEW list \in BOOLEAN, BeginChat(t, c, list)
  PROVE  ChatInv'
<1>1. /\ ChatTypeOK /\ Served /\ Alone /\ Kept /\ Published /\ Pushed
      /\ running /\ pc[t] = "idle" /\ requests < MaxRequests /\ requests' = requests + 1
      /\ convOf' = Append(convOf, c)
      /\ \/ /\ pc' = [pc EXCEPT ![t] = "strategy"] /\ req' = [req EXCEPT ![t] = requests + 1]
         \/ pc' = pc /\ req' = req
      /\ listed' \subseteq listed \union (helpers' \intersect {c})
      /\ helpers \subseteq helpers' /\ helpers' \subseteq helpers \union {c}
      /\ disturbed' = IF Busy(c) THEN disturbed \union {c} ELSE disturbed
      /\ UNCHANGED <<sent, failed, dropped, stored, running, restarts, messages, strategy, fresh, log>>
  BY DEF ChatInv, BeginChat, At, Goto, queueVars
<1>2. /\ requests \in Nat /\ requests + 1 \in 0..MaxRequests /\ convOf \in [1..requests -> Convs]
      /\ \A i \in 1..requests : i \in 1..requests + 1 /\ i # requests + 1
      /\ requests + 1 \in 1..requests + 1
  <2>1. requests \in 0..MaxRequests /\ MaxRequests \in Nat
    BY <1>1, ChatAssumption DEF ChatTypeOK
  <2> QED BY <1>1, <2>1 DEF ChatTypeOK
<1>3. /\ convOf' \in [1..requests' -> Convs]
      /\ \A r \in 1..requests : convOf'[r] = convOf[r]
      /\ convOf'[requests + 1] = c
  <2>1. convOf \in Seq(Convs) /\ Len(convOf) = requests
    BY <1>2
  <2>2. /\ Append(convOf, c) \in Seq(Convs) /\ Len(Append(convOf, c)) = requests + 1
        /\ \A r \in 1..requests : Append(convOf, c)[r] = convOf[r]
        /\ Append(convOf, c)[requests + 1] = c
    BY <2>1, AppendProperties
  <2> DEFINE longer == Append(convOf, c)
  <2> HIDE DEF longer
  <2>3. longer \in [1..requests + 1 -> Convs]
    BY <2>2, LenProperties DEF longer
  <2> QED BY <1>1, <2>2, <2>3 DEF longer
<1>4. /\ \A m, d : Belongs(m, d) => Belongs(m, d)'
      /\ \A m, d : m.request \in 1..requests => (Belongs(m, d)' <=> Belongs(m, d))
  BY <1>1, <1>2, <1>3 DEF Belongs
<1>5. \A d : SaidIn(d)' = SaidIn(d)
  <2> TAKE d
  <2>1. \A i \in 1..Len(log) : Belongs(log[i], d)' <=> Belongs(log[i], d)
    BY <1>1, <1>4 DEF Served
  <2> QED BY <1>1, <2>1, SaidKept DEF Served
<1>6. /\ \A u \in Threads \ {t} : pc'[u] = pc[u] /\ req'[u] = req[u]
      /\ pc'[t] # "idle" => pc'[t] = "strategy" /\ req'[t] = requests + 1
      /\ pc' \in [Threads -> Steps]
      /\ req' \in [Threads -> 0..requests']
  <2>1. pc \in [Threads -> Steps] /\ "strategy" \in Steps /\ req \in [Threads -> 0..requests]
    BY <1>1 DEF Served, ChatTypeOK, Steps
  <2>2. requests + 1 \in 0..requests + 1 /\ \A i \in 0..requests : i \in 0..requests + 1
    BY <1>2
  <2>3. CASE pc' = [pc EXCEPT ![t] = "strategy"] /\ req' = [req EXCEPT ![t] = requests + 1]
    BY <1>1, <2>1, <2>2, <2>3
  <2>4. CASE pc' = pc /\ req' = req
    BY <1>1, <2>1, <2>2, <2>4
  <2> QED BY <1>1, <2>3, <2>4
<1>7. /\ \A u \in Threads \ {t} : pc[u] # "idle" => Conv(u)' = Conv(u)
      /\ pc'[t] # "idle" => Conv(t)' = c
  BY <1>1, <1>3, <1>6 DEF Conv, Served
<1>8. disturbed \subseteq disturbed' /\ disturbed' \subseteq Convs /\ (Busy(c) => c \in disturbed')
  BY <1>1 DEF ChatTypeOK
<1>9. ChatTypeOK'
  <2>2. listed' \subseteq helpers' /\ helpers' \subseteq Convs
    BY <1>1 DEF ChatTypeOK
  <2>3. requests' \in 0..MaxRequests
    BY <1>1, <1>2
  <2>4. \A d \in Convs : \A i \in DOMAIN messages[d] :
           messages[d][i].request \in 1..requests' /\ convOf'[messages[d][i].request] = d
    BY <1>1, <1>2, <1>3 DEF ChatTypeOK, Belongs
  <2> QED BY <1>1, <1>3, <1>6, <1>8, <2>2, <2>3, <2>4 DEF ChatTypeOK, Belongs
<1>10. Served'
  <2>1. \A u \in Threads : pc'[u] # "idle" => running' /\ req'[u] \in 1..requests'
    BY <1>1, <1>2, <1>6 DEF Served
  <2>2. \A i \in 1..Len(log) : log[i].request \in 1..requests'
    BY <1>1, <1>2 DEF Served
  <2> QED BY <1>1, <1>6, <2>1, <2>2 DEF Served
<1>11. Alone'
  <2> SUFFICES ASSUME NEW u \in Threads, NEW v \in Threads, pc'[u] # "idle", pc'[v] # "idle",
                      Conv(u)' = Conv(v)', Conv(u)' \notin disturbed', u # v
               PROVE  FALSE
    BY DEF Alone
  <2>1. CASE u # t /\ v # t
    <3>1. pc[u] # "idle" /\ pc[v] # "idle" /\ Conv(u) = Conv(v) /\ Conv(u) \notin disturbed
      BY <1>6, <1>7, <1>8, <2>1
    <3> QED BY <1>1, <3>1 DEF Alone
  <2>2. CASE u = t
    <3>1. pc[v] # "idle" /\ Conv(v) = c
      BY <1>6, <1>7, <2>2
    <3> QED BY <1>7, <1>8, <2>2, <3>1 DEF Busy
  <2>3. CASE v = t
    <3>1. pc[u] # "idle" /\ Conv(u) = c
      BY <1>6, <1>7, <2>3
    <3> QED BY <1>7, <1>8, <2>3, <3>1 DEF Busy
  <2> QED BY <2>1, <2>2, <2>3
<1>12. Kept'
  <2>1. ASSUME NEW d \in Convs, d \notin disturbed'
        PROVE  /\ ~Busy(d)' => Remembers("idle", messages'[d], SaidIn(d)', 0, "none")
               /\ \A u \in Threads : pc'[u] # "idle" /\ Conv(u)' = d =>
                    Remembers(pc'[u], messages'[d], SaidIn(d)', req'[u], fresh'[u])
    <3>1. /\ ~Busy(d) => Remembers("idle", messages[d], SaidIn(d), 0, "none")
          /\ \A u \in Threads : pc[u] # "idle" /\ Conv(u) = d =>
               Remembers(pc[u], messages[d], SaidIn(d), req[u], fresh[u])
      BY <1>1, <1>8, <2>1 DEF Kept
    <3>2. messages'[d] = messages[d] /\ SaidIn(d)' = SaidIn(d) /\ fresh' = fresh
      BY <1>1, <1>5
    <3>3. ASSUME Busy(d) PROVE Busy(d)'
      <4>1. PICK u \in Threads : pc[u] # "idle" /\ Conv(u) = d
        BY <3>3 DEF Busy
      <4>2. pc'[u] # "idle" /\ Conv(u)' = d
        BY <1>1, <1>6, <1>7, <4>1
      <4> QED BY <4>2 DEF Busy
    <3>4. ASSUME NEW u \in Threads, pc'[u] # "idle", Conv(u)' = d
          PROVE  Remembers(pc'[u], messages'[d], SaidIn(d)', req'[u], fresh'[u])
      <4>1. CASE u # t
        <5>1. pc[u] # "idle" /\ Conv(u) = d /\ pc'[u] = pc[u] /\ req'[u] = req[u]
          BY <1>6, <1>7, <3>4, <4>1
        <5> QED BY <3>1, <3>2, <5>1
      <4>2. CASE u = t
        <5>1. d = c /\ pc'[u] = "strategy"
          BY <1>6, <1>7, <3>4, <4>2
        <5>2. ~Busy(d)
          BY <1>8, <2>1, <5>1
        <5>3. messages[d] = SaidIn(d) /\ Alternates(SaidIn(d))
          BY <3>1, <5>2 DEF Remembers, Prompted
        <5> QED BY <3>2, <5>1, <5>3 DEF Remembers, Prompted
      <4> QED BY <4>1, <4>2
    <3> QED BY <3>1, <3>2, <3>3, <3>4
  <2> QED BY <1>1, <2>1 DEF Kept
<1>13. Published'
  <2>1. ASSUME NEW d \in Convs, NEW i, i \in DOMAIN messages'[d], NEW m, m = messages'[d][i]
        PROVE  Explained(m)'
    <3>1. Explained(m)
      BY <1>1, <2>1 DEF Published
    <3>2. CASE m.role = "prompt" \/ m \in sent \union failed
      BY <1>1, <3>2 DEF Explained
    <3>3. CASE ~(m.role = "prompt" \/ m \in sent \union failed)
      <4>1. PICK u \in Threads : /\ req[u] = m.request
                                 /\ pc[u] = IF m.role = "question" THEN "publishQuestion" ELSE "publishAnswer"
        BY <3>1, <3>3 DEF Explained
      <4>2. u # t
        BY <1>1, <4>1
      <4>3. req'[u] = m.request /\ pc'[u] = pc[u]
        BY <1>6, <4>1, <4>2
      <4> QED BY <4>1, <4>3 DEF Explained
    <3> QED BY <3>2, <3>3
  <2> QED BY <2>1 DEF Published
<1>14. Pushed'
  <2>1. ASSUME NEW d \in Convs PROVE Prompting(d)' = Prompting(d)
    <3>1. \A u \in Threads : pc'[u] \in Prompted /\ Conv(u)' = d <=> pc[u] \in Prompted /\ Conv(u) = d
      <4> TAKE u \in Threads
      <4>1. CASE u = t
        BY <1>1, <1>6, <4>1 DEF Prompted
      <4>2. CASE u # t /\ pc[u] # "idle"
        BY <1>6, <1>7, <4>2
      <4>3. CASE u # t /\ pc[u] = "idle"
        BY <1>6, <4>3 DEF Prompted
      <4> QED BY <4>1, <4>2, <4>3
    <3> QED BY <3>1 DEF Prompting
  <2> QED BY <1>1, <2>1 DEF Pushed
<1> QED BY <1>9, <1>10, <1>11, <1>12, <1>13, <1>14 DEF ChatInv

-----------------------------------------------------------------------------
LEMMA ChatInvariantStarts == ChatInit => ChatInv
<1> SUFFICES ASSUME ChatInit PROVE ChatInv
  OBVIOUS
<1>1. /\ sent = {} /\ dropped = {} /\ stored = [m \in Utterances |-> 0]
      /\ running = FALSE /\ restarts = 0 /\ requests = 0 /\ convOf = <<>>
      /\ helpers = {} /\ listed = {} /\ messages = [c \in Convs |-> <<>>]
      /\ strategy = [c \in Convs |-> Default] /\ pc = [t \in Threads |-> "idle"]
      /\ req = [t \in Threads |-> 0] /\ fresh = [t \in Threads |-> "none"]
      /\ failed = {} /\ log = <<>> /\ disturbed = {}
  BY DEF ChatInit, Queue!LogInit
<1>2. /\ DOMAIN <<>> = {} /\ \A S : <<>> \in Seq(S)
      /\ Len(<<>>) = 0
  BY EmptySeq
<1>3. \A c \in Convs : messages[c] = <<>>
  BY <1>1
<1>4. \A t \in Threads : pc[t] = "idle"
  BY <1>1
<1>5. ChatTypeOK
  <2>1. MaxRestarts \in Nat /\ MaxRequests \in Nat /\ MaxCopies \in Nat
    BY ChatAssumption
  <2>2. convOf \in [1..requests -> Convs]
    BY <1>1
  <2>3. req \in [Threads -> 0..requests] /\ restarts \in 0..MaxRestarts /\ requests \in 0..MaxRequests
    BY <1>1, <2>1
  <2>4. stored \in [Utterances -> 0..MaxCopies]
    BY <1>1, <2>1
  <2>5. /\ strategy \in [Convs -> Registered \union {Default}]
        /\ fresh \in [Threads -> {"none", "kept", "empty", "tool"}]
    BY <1>1
  <2>6. \A c \in Convs : \A i \in DOMAIN messages[c] : Belongs(messages[c][i], c)
    BY <1>2, <1>3
  <2>7. /\ sent \subseteq Utterances /\ dropped \subseteq sent /\ running \in BOOLEAN
        /\ failed \subseteq Utterances
        /\ listed \subseteq helpers /\ helpers \subseteq Convs /\ disturbed \subseteq Convs
    BY <1>1
  <2> QED BY <2>2, <2>3, <2>4, <2>5, <2>6, <2>7 DEF ChatTypeOK
<1>6. Served
  <2>1. messages \in [Convs -> Seq(AllMessages)]
    BY <1>1, <1>2
  <2>2. pc \in [Threads -> Steps]
    BY <1>1 DEF Steps
  <2>3. /\ log \in Seq(Utterances) /\ \A i \in 1..Len(log) : log[i].request \in 1..requests
    BY <1>1, <1>2
  <2>4. \A m \in Utterances : stored[m] # 0 => m \in sent
    BY <1>1
  <2> QED BY <1>4, <2>1, <2>2, <2>3, <2>4 DEF Served
<1>7. Alone
  BY <1>4 DEF Alone
<1>8. Kept
  <2>1. \A c : SaidIn(c) = <<>>
    BY <1>1, RepeatedEmpty DEF SaidIn
  <2> QED BY <1>1, <1>4, <2>1, AlternatesEmpty DEF Kept
<1>9. Published
  BY <1>2, <1>3 DEF Published
<1>10. Pushed
  <2> SUFFICES ASSUME NEW c \in Convs PROVE Cardinality(Prompting(c)) <= Len(messages[c])
    BY DEF Pushed
  <2>1. Prompting(c) = {}
    BY <1>4 DEF Prompting, Prompted
  <2>2. Cardinality(Prompting(c)) = 0
    BY <2>1, FS_EmptySet
  <2> QED BY <1>2, <1>3, <2>2
<1> QED BY <1>5, <1>6, <1>7, <1>8, <1>9, <1>10 DEF ChatInv

LEMMA ChatInvariantKept == ChatInv /\ [ChatNext]_chatVars => ChatInv'
<1> SUFFICES ASSUME ChatInv, [ChatNext]_chatVars PROVE ChatInv'
  OBVIOUS
<1>1. CASE ServerStarts
  BY <1>1, ServerStartsKeeps
<1>2. CASE ServerDies
  BY <1>2, ServerDiesKeeps
<1>3. CASE QueueStep
  BY <1>3, QueueStepKeeps
<1>4. ASSUME NEW t \in Threads, NEW c \in Convs, ChatSend(t, c) \/ ChatCreateAndSend(t, c)
      PROVE  ChatInv'
  BY <1>4, BeginChatKeeps DEF ChatSend, ChatCreateAndSend
<1>5. ASSUME NEW t \in Threads, Chat(t) PROVE ChatInv'
  BY <1>5, SetStrategyKeeps, BranchKeeps, AddQuestionKeeps, PublishQuestionKeeps, AskKeeps,
     AddAnswerKeeps, PublishAnswerKeeps, PushPromptKeeps, AskWithPromptKeeps, PopPromptKeeps DEF Chat
<1>6. ASSUME NEW c \in Convs, ChatHistory(c) PROVE ChatInv'
  BY <1>6, ChatHistoryKeeps
<1>7. CASE UNCHANGED chatVars
  BY <1>7, ChatStutterKeeps
<1> QED BY <1>1, <1>2, <1>3, <1>4, <1>5, <1>6, <1>7 DEF ChatNext

LEMMA ChatInvariantHolds == ChatSpec => []ChatInv
BY ChatInvariantStarts, ChatInvariantKept, PTL DEF ChatSpec

(* The conversations' types, for every number of threads, conversations,   *)
(* requests, restarts and rows: a vector holds what was asked in its own   *)
(* conversation, one is listed only if it has an AIHelper, and a request   *)
(* uses a registered model or the default one.                             *)
THEOREM ChatTypeCorrect == ChatSpec => []ChatTypeOK
<1>1. ChatInv => ChatTypeOK
  BY DEF ChatInv
<1> QED BY <1>1, ChatInvariantHolds, PTL

(* A conversation that nothing disturbed, and in which nobody is at work,  *)
(* remembers all that was said in it and only that, each question followed *)
(* by its answer: through the MCP path, which pushes and pops prompts, and *)
(* through any number of restarts that rebuild it from the table.          *)
THEOREM HistoriesAlternate == ChatSpec => []HistoryAlternates
<1>1. ChatInv => HistoryAlternates
  <2> SUFFICES ASSUME ChatInv, running, NEW c \in Convs \ disturbed, ~Busy(c)
               PROVE  messages[c] = SaidIn(c) /\ Alternates(messages[c])
    BY DEF HistoryAlternates
  <2>1. Remembers("idle", messages[c], SaidIn(c), 0, "none")
    BY DEF ChatInv, Kept
  <2>2. messages[c] = SaidIn(c) /\ Alternates(SaidIn(c))
    BY <2>1 DEF Remembers, Prompted
  <2> QED BY <2>2
<1> QED BY <1>1, ChatInvariantHolds, PTL

-----------------------------------------------------------------------------
(* The meeting of the two components.  A message is given to the queue     *)
(* once: the guard of MessageLog's Publish, which the code has not, never  *)
(* keeps a thread of the chat from its step.  And what follows a question  *)
(* in its request follows the return of its publish().                     *)
PastQuestion == {"ask", "answer", "publishAnswer"}

Once == /\ \A t, u \in Threads : pc[t] # "idle" /\ pc[u] # "idle" /\ req[t] = req[u] => t = u
        /\ \A m \in sent \union failed : m.request \in 1..requests
        /\ \A t \in Threads : pc[t] # "idle" =>
             /\ pc[t] \notin PastQuestion => Message(req[t], "question") \notin sent \union failed
             /\ pc[t] \in PastQuestion => Message(req[t], "question") \in sent \ failed
             /\ Message(req[t], "answer") \notin sent \union failed
        /\ \A r : Message(r, "answer") \in sent \union failed => Message(r, "question") \in sent \ failed

LEMMA OnceMoves ==
  ASSUME ChatInv, Once, NEW t \in Threads, pc[t] # "idle", NEW next,
         pc' = [pc EXCEPT ![t] = next], UNCHANGED <<requests, req>>,
         sent \subseteq sent', failed \subseteq failed',
         \A m \in sent' \union failed' : m \in sent \union failed \/ m.request = req[t],
         \A m \in failed' \ failed : m.request = req[t],
         next # "idle" =>
           /\ next \notin PastQuestion => Message(req[t], "question") \notin sent' \union failed'
           /\ next \in PastQuestion => Message(req[t], "question") \in sent' \ failed'
           /\ Message(req[t], "answer") \notin sent' \union failed',
         Message(req[t], "answer") \in sent' \union failed' => Message(req[t], "question") \in sent' \ failed'
  PROVE  Once'
<1>1. /\ pc \in [Threads -> Steps] /\ req[t] \in 1..requests
  BY DEF ChatInv, Served
<1>2. pc'[t] = next /\ \A u \in Threads \ {t} : pc'[u] = pc[u]
  BY <1>1
<1>3. \A u, v \in Threads : pc'[u] # "idle" /\ pc'[v] # "idle" /\ req'[u] = req'[v] => u = v
  BY <1>2 DEF Once
<1>4. \A m \in sent' \union failed' : m.request \in 1..requests'
  BY <1>1 DEF Once
<1>5. ASSUME NEW r, r # req[t], NEW role
      PROVE  /\ Message(r, role) \in sent' \union failed' <=> Message(r, role) \in sent \union failed
             /\ Message(r, role) \in sent \ failed => Message(r, role) \in sent' \ failed'
  <2>1. Message(r, role).request # req[t]
    BY <1>5, MessageFields
  <2> QED BY <2>1
<1>6. ASSUME NEW u \in Threads, pc'[u] # "idle"
      PROVE  /\ pc'[u] \notin PastQuestion => Message(req'[u], "question") \notin sent' \union failed'
             /\ pc'[u] \in PastQuestion => Message(req'[u], "question") \in sent' \ failed'
             /\ Message(req'[u], "answer") \notin sent' \union failed'
  <2>1. CASE u = t
    BY <1>2, <1>6, <2>1
  <2>2. CASE u # t
    <3>1. pc[u] # "idle" /\ pc'[u] = pc[u] /\ req'[u] = req[u] /\ req[u] # req[t]
      BY <1>2, <1>6, <2>2 DEF Once
    <3>2. /\ pc[u] \notin PastQuestion => Message(req[u], "question") \notin sent \union failed
          /\ pc[u] \in PastQuestion => Message(req[u], "question") \in sent \ failed
          /\ Message(req[u], "answer") \notin sent \union failed
      BY <3>1 DEF Once
    <3> QED BY <1>5, <3>1, <3>2
  <2> QED BY <2>1, <2>2
<1>7. ASSUME NEW r, Message(r, "answer") \in sent' \union failed'
      PROVE  Message(r, "question") \in sent' \ failed'
  <2>1. CASE r # req[t]
    <3>1. Message(r, "answer") \in sent \union failed
      BY <1>5, <1>7, <2>1
    <3> QED BY <1>5, <2>1, <3>1 DEF Once
  <2> QED BY <1>7, <2>1
<1> QED BY <1>3, <1>4, <1>6, <1>7 DEF Once

LEMMA OnceChat ==
  ASSUME ChatInv, Once, NEW t \in Threads, Chat(t)
  PROVE  Once'
<1>1. pc[t] # "idle" =>
        /\ pc[t] \notin PastQuestion => Message(req[t], "question") \notin sent \union failed
        /\ pc[t] \in PastQuestion => Message(req[t], "question") \in sent \ failed
        /\ Message(req[t], "answer") \notin sent \union failed
  BY DEF Once
<1>2. Message(req[t], "answer") # Message(req[t], "question")
  BY MessageFields
\* Where nothing is published.
<1>3. ASSUME NEW next, pc[t] # "idle", pc' = [pc EXCEPT ![t] = next],
             UNCHANGED <<sent, failed, requests, req>>,
             next # "idle" => (next \in PastQuestion <=> pc[t] \in PastQuestion)
      PROVE  Once'
  <2>1. next # "idle" =>
          /\ next \notin PastQuestion => Message(req[t], "question") \notin sent' \union failed'
          /\ next \in PastQuestion => Message(req[t], "question") \in sent' \ failed'
          /\ Message(req[t], "answer") \notin sent' \union failed'
    BY <1>1, <1>3
  <2>2. Message(req[t], "answer") \notin sent' \union failed'
    BY <1>1, <1>3
  <2>3. /\ sent \subseteq sent' /\ failed \subseteq failed'
        /\ \A m \in sent' \union failed' : m \in sent \union failed \/ m.request = req[t]
        /\ \A m \in failed' \ failed : m.request = req[t]
    BY <1>3
  <2> QED BY <1>3, <2>1, <2>2, <2>3, OnceMoves
\* Where a message is, or an exception comes.
<1>4. ASSUME NEW next, pc[t] # "idle", pc' = [pc EXCEPT ![t] = next], UNCHANGED <<requests, req>>,
             NEW role \in Roles, NEW q, q = Message(req[t], role),
             sent \subseteq sent', sent' \subseteq sent \union {q},
             failed \subseteq failed', failed' \subseteq failed \union {q},
             next # "idle" => /\ next \in PastQuestion
                              /\ role = "question" /\ Message(req[t], "question") \in sent' \ failed',
             role = "answer" => pc[t] \in PastQuestion
      PROVE  Once'
  <2>1. \A m \in sent' \union failed' : m \in sent \union failed \/ m = q
    BY <1>4
  <2>2. q.request = req[t]
    BY <1>4, MessageFields
  <2>3. role = "question" => Message(req[t], "answer") \notin sent' \union failed'
    BY <1>1, <1>2, <1>4, <2>1
  <2>4. role = "answer" => Message(req[t], "question") \in sent' \ failed'
    BY <1>1, <1>2, <1>4
  <2>5. role \in {"question", "answer"}
    BY <1>4 DEF Roles
  <2>6. next # "idle" =>
          /\ next \notin PastQuestion => Message(req[t], "question") \notin sent' \union failed'
          /\ next \in PastQuestion => Message(req[t], "question") \in sent' \ failed'
          /\ Message(req[t], "answer") \notin sent' \union failed'
    BY <1>4, <2>3
  <2>7. Message(req[t], "answer") \in sent' \union failed' =>
          Message(req[t], "question") \in sent' \ failed'
    BY <2>3, <2>4, <2>5
  <2>8. /\ \A m \in sent' \union failed' : m \in sent \union failed \/ m.request = req[t]
        /\ \A m \in failed' \ failed : m.request = req[t]
    BY <1>4, <2>1, <2>2
  <2> QED BY <1>4, <2>6, <2>7, <2>8, OnceMoves
<1>5. CASE PublishQuestion(t)
  <2>1. PICK q : q = Message(req[t], "question")
    OBVIOUS
  <2>2. /\ pc[t] = "publishQuestion" /\ UNCHANGED <<requests, req>>
        /\ \/ Queue!Publish(q) /\ UNCHANGED failed
           \/ PublishThrows(q)
        /\ \E next \in {"ask", "answer", "idle"} :
             /\ pc' = [pc EXCEPT ![t] = next]
             /\ next # "idle" => Queue!Publish(q) /\ UNCHANGED failed
    <3>1. \E next \in {"ask", "answer", "idle"} :
            /\ pc' = [pc EXCEPT ![t] = next]
            /\ next # "idle" => Queue!Publish(q) /\ UNCHANGED failed
      BY <1>5, <2>1 DEF PublishQuestion, AfterQuestion, Goto
    <3> QED BY <1>5, <2>1, <3>1 DEF PublishQuestion, At, unchangedByThread
  <2>3. PICK next \in {"ask", "answer", "idle"} :
          /\ pc' = [pc EXCEPT ![t] = next]
          /\ next # "idle" => Queue!Publish(q) /\ UNCHANGED failed
    BY <2>2
  <2>4. /\ sent \subseteq sent' /\ sent' \subseteq sent \union {q}
        /\ failed \subseteq failed' /\ failed' \subseteq failed \union {q}
    BY <2>2, Tried
  <2>5. q \notin failed
    BY <1>1, <2>1, <2>2 DEF PastQuestion
  <2>6. next # "idle" => next \in PastQuestion /\ q \in sent' \ failed'
    BY <2>3, <2>5 DEF PastQuestion, Queue!Publish
  <2>7. /\ "question" \in Roles /\ "question" # "answer" /\ pc[t] # "idle"
        /\ pc' = [pc EXCEPT ![t] = next] /\ UNCHANGED <<requests, req>>
    BY <2>2, <2>3 DEF Roles
  <2>8. next # "idle" => next \in PastQuestion /\ Message(req[t], "question") \in sent' \ failed'
    BY <2>1, <2>6
  <2> QED BY <1>4, <2>1, <2>4, <2>7, <2>8
<1>6. CASE PublishAnswer(t)
  <2>1. PICK q : q = Message(req[t], "answer")
    OBVIOUS
  <2>2. /\ pc[t] = "publishAnswer" /\ pc' = [pc EXCEPT ![t] = "idle"] /\ UNCHANGED <<requests, req>>
        /\ \/ Queue!Publish(q) /\ UNCHANGED failed
           \/ PublishThrows(q)
    BY <1>6, <2>1 DEF PublishAnswer, At, Goto, unchangedByThread
  <2>3. /\ sent \subseteq sent' /\ sent' \subseteq sent \union {q}
        /\ failed \subseteq failed' /\ failed' \subseteq failed \union {q}
    BY <2>2, Tried
  <2>4. "answer" \in Roles /\ pc[t] # "idle" /\ pc[t] \in PastQuestion
    BY <2>2 DEF Roles, PastQuestion
  <2> QED BY <1>4, <2>1, <2>2, <2>3, <2>4
<1>7. CASE \/ \E model \in ModelTypes : SetStrategy(t, model)
           \/ Branch(t) \/ AddQuestion(t) \/ PushPrompt(t) \/ AskWithPrompt(t) \/ PopPrompt(t)
  <2>1. PICK next : /\ pc[t] # "idle" /\ pc' = [pc EXCEPT ![t] = next]
                    /\ pc[t] \notin PastQuestion /\ next \notin PastQuestion
                    /\ UNCHANGED <<sent, failed, requests, req>>
    BY <1>7 DEF SetStrategy, Branch, AddQuestion, Append1, PushPrompt, AskWithPrompt, PopPrompt,
                At, Goto, queueVars, unchangedByThread, PastQuestion
  <2> QED BY <1>3, <2>1
<1>8. CASE Ask(t) \/ AddAnswer(t)
  <2>1. PICK next \in {"answer", "publishAnswer", "idle"} :
          /\ pc[t] # "idle" /\ pc[t] \in PastQuestion /\ pc' = [pc EXCEPT ![t] = next]
          /\ UNCHANGED <<sent, failed, requests, req>>
    BY <1>8 DEF Ask, AddAnswer, Append1, At, Goto, queueVars, unchangedByThread, PastQuestion
  <2>2. next # "idle" => next \in PastQuestion
    BY DEF PastQuestion
  <2> QED BY <1>3, <2>1, <2>2
<1> QED BY <1>5, <1>6, <1>7, <1>8 DEF Chat

LEMMA OnceKept == ChatInv /\ Once /\ [ChatNext]_chatVars => Once'
<1> SUFFICES ASSUME ChatInv, Once, [ChatNext]_chatVars PROVE Once'
  OBVIOUS
<1>1. ASSUME \A t \in Threads : pc'[t] = "idle", UNCHANGED <<sent, failed, requests>> PROVE Once'
  BY <1>1 DEF Once
<1>2. CASE ServerStarts
  <2>1. \A t \in Threads : pc'[t] = "idle"
    BY <1>2 DEF ServerStarts, ChatInv, Served
  <2> QED BY <1>1, <1>2, <2>1 DEF ServerStarts, queueVars
<1>3. CASE ServerDies
  BY <1>1, <1>3 DEF ServerDies, queueVars
<1>4. CASE QueueStep
  <2>1. UNCHANGED <<sent, failed, requests, pc, req>>
    BY <1>4 DEF QueueStep, serverVars, Queue!Store, Queue!Lose
  <2> QED BY <2>1 DEF Once
<1>5. ASSUME NEW t \in Threads, NEW c \in Convs, NEW list, BeginChat(t, c, list) PROVE Once'
  <2>1. /\ pc[t] = "idle" /\ requests' = requests + 1 /\ sent' = sent /\ failed' = failed
        /\ \/ pc' = [pc EXCEPT ![t] = "strategy"] /\ req' = [req EXCEPT ![t] = requests + 1]
           \/ pc' = pc /\ req' = req
    BY <1>5 DEF BeginChat, At, Goto, queueVars
  <2>2. /\ pc \in [Threads -> Steps] /\ req \in [Threads -> 0..requests] /\ requests \in Nat
        /\ \A u \in Threads : pc[u] # "idle" => req[u] \in 1..requests
    <3>1. requests \in Nat
      BY ChatAssumption DEF ChatInv, ChatTypeOK
    <3> QED BY <3>1 DEF ChatInv, ChatTypeOK, Served
  <2>3. \A m \in sent' \union failed' : m.request \in 1..requests'
    BY <2>1, <2>2 DEF Once
  <2>4. CASE pc' = pc /\ req' = req
    BY <2>1, <2>3, <2>4 DEF Once
  <2>5. CASE pc' = [pc EXCEPT ![t] = "strategy"] /\ req' = [req EXCEPT ![t] = requests + 1]
    <3>1. /\ pc'[t] = "strategy" /\ req'[t] = requests + 1
          /\ \A u \in Threads \ {t} : pc'[u] = pc[u] /\ req'[u] = req[u]
      BY <2>2, <2>5
    <3>2. ASSUME NEW u \in Threads, NEW v \in Threads, pc'[u] # "idle", pc'[v] # "idle",
                 req'[u] = req'[v]
          PROVE  u = v
      <4>1. \A w \in Threads \ {t} : pc'[w] # "idle" => req'[w] \in 1..requests
        BY <2>2, <3>1
      <4>2. requests + 1 \notin 1..requests
        BY <2>2
      <4>3. u = t <=> v = t
        BY <3>1, <3>2, <4>1, <4>2
      <4> QED BY <3>1, <3>2, <4>3 DEF Once
    <3>3. ASSUME NEW u \in Threads, pc'[u] # "idle"
          PROVE  /\ pc'[u] \notin PastQuestion => Message(req'[u], "question") \notin sent' \union failed'
                 /\ pc'[u] \in PastQuestion => Message(req'[u], "question") \in sent' \ failed'
                 /\ Message(req'[u], "answer") \notin sent' \union failed'
      <4>1. CASE u = t
        <5>1. \A role : Message(requests + 1, role).request = requests + 1
          BY MessageFields
        <5>2. \A m \in sent' \union failed' : m.request # requests + 1
          BY <2>1, <2>2 DEF Once
        <5>3. "strategy" \notin PastQuestion
          BY DEF PastQuestion
        <5> QED BY <3>1, <4>1, <5>1, <5>2, <5>3
      <4>2. CASE u # t
        BY <2>1, <3>1, <3>3, <4>2 DEF Once
      <4> QED BY <4>1, <4>2
    <3>4. \A r : Message(r, "answer") \in sent' \union failed' => Message(r, "question") \in sent' \ failed'
      BY <2>1 DEF Once
    <3> QED BY <2>3, <3>2, <3>3, <3>4 DEF Once
  <2> QED BY <2>1, <2>4, <2>5
<1>6. ASSUME NEW c \in Convs, ChatHistory(c) PROVE Once'
  BY <1>6 DEF ChatHistory, queueVars, Once
<1>7. CASE UNCHANGED chatVars
  BY <1>7 DEF chatVars, queueVars, serverVars, Once
<1>8. ASSUME NEW t \in Threads, Chat(t) PROVE Once'
  BY <1>8, OnceChat
<1> QED BY <1>2, <1>3, <1>4, <1>5, <1>6, <1>7, <1>8 DEF ChatNext, ChatSend, ChatCreateAndSend

LEMMA OnceHolds == ChatSpec => []Once
<1>1. ChatInit => Once
  BY DEF ChatInit, Queue!LogInit, Once
<1> QED BY <1>1, ChatInvariantHolds, OnceKept, PTL DEF ChatSpec

(* Whatever a conversation shows that is no prompt was given to the queue, *)
(* or its thread is about to, or its publish() threw; an answer is shown   *)
(* only if the publish() of its question returned; and no prompt is popped *)
(* from an empty vector.  For requests of a conversation that overlap in   *)
(* any way: there are at least as many messages as prompts still to be     *)
(* popped, and a request that has come past its question has published it. *)
THEOREM WhatIsSaidIsPublished == ChatSpec => []SaidIsPublished
<1>1. ChatInv /\ Once => SaidIsPublished
  <2> SUFFICES ASSUME ChatInv, Once PROVE SaidIsPublished
    OBVIOUS
  <2>1. ASSUME NEW c \in Convs, NEW i, i \in DOMAIN messages[c], NEW m, m = messages[c][i],
               m.role # "prompt"
        PROVE  /\ \/ m \in sent \union failed
                  \/ \E t \in Threads :
                       /\ req[t] = m.request
                       /\ pc[t] = IF m.role = "question" THEN "publishQuestion" ELSE "publishAnswer"
               /\ m.role = "answer" => Message(m.request, "question") \in sent \ failed
    <3>1. Explained(m)
      BY <2>1 DEF ChatInv, Published
    <3>2. m \in AllMessages
      <4>1. messages[c] \in Seq(AllMessages)
        BY DEF ChatInv, Served
      <4> QED BY <2>1, <4>1, LenProperties, ElementOfSeq
    <3>3. m.role = "answer" => m = Message(m.request, "answer")
      BY <3>2 DEF AllMessages, Message
    <3>4. ASSUME m.role = "answer" PROVE Message(m.request, "question") \in sent \ failed
      <4>1. CASE m \in sent \union failed
        BY <3>3, <3>4, <4>1 DEF Once
      <4>2. CASE \E t \in Threads : req[t] = m.request /\ pc[t] = "publishAnswer"
        <5>1. PICK t \in Threads : req[t] = m.request /\ pc[t] = "publishAnswer"
          BY <4>2
        <5>2. pc[t] # "idle" /\ pc[t] \in PastQuestion
          BY <5>1 DEF PastQuestion
        <5>3. Message(req[t], "question") \in sent \ failed
          BY <5>2 DEF Once
        <5> QED BY <5>1, <5>3
      <4> QED BY <3>1, <3>4, <4>1, <4>2 DEF Explained
    <3> QED BY <2>1, <3>1, <3>4 DEF Explained
  <2>2. ASSUME NEW t \in Threads, pc[t] = "pop", messages[Conv(t)] = <<>> PROVE FALSE
    <3>1. PICK c \in Convs : c = Conv(t)
      BY <2>2, Here
    <3>2. t \in Prompting(c) /\ IsFiniteSet(Prompting(c))
      <4>1. Prompting(c) \subseteq Threads
        BY DEF Prompting
      <4>2. t \in Prompting(c)
        BY <2>2, <3>1 DEF Prompting, Prompted
      <4> QED BY <4>1, <4>2, ChatAssumption, FS_Subset
    <3>3. Cardinality(Prompting(c)) \in Nat /\ Cardinality(Prompting(c)) # 0
      BY <3>2, FS_CardinalityType, FS_EmptySet
    <3>4. Cardinality(Prompting(c)) <= 0
      <4>1. Len(messages[c]) = 0
        BY <2>2, <3>1, EmptySeq
      <4> QED BY <4>1 DEF ChatInv, Pushed
    <3> QED BY <3>3, <3>4
  <2> QED BY <2>1, <2>2 DEF SaidIsPublished, At
<1> QED BY <1>1, ChatInvariantHolds, OnceHolds, PTL

(* A thread that has said a message finds it untried: no question and no   *)
(* answer is given to the queue twice, and none whose publish() threw is   *)
(* given again, whatever threads overlap and however often the server      *)
(* restarts.                                                               *)
THEOREM PublishedOnce ==
  ChatSpec => [](\A t \in Threads :
                   /\ pc[t] = "publishQuestion" => Message(req[t], "question") \notin sent \union failed
                   /\ pc[t] = "publishAnswer" => Message(req[t], "answer") \notin sent \union failed)
<1> DEFINE New == \A t \in Threads :
                    /\ pc[t] = "publishQuestion" => Message(req[t], "question") \notin sent \union failed
                    /\ pc[t] = "publishAnswer" => Message(req[t], "answer") \notin sent \union failed
<1>1. Once => New
  BY DEF Once, PastQuestion
<1> HIDE DEF New
<1>2. ChatSpec => []New
  BY <1>1, OnceHolds, PTL
<1> QED BY <1>2 DEF New

(* What the chat does with the queue are the steps of MessageLog, those    *)
(* that MessageQueue implements: what the queue's theorems promise of each *)
(* published message holds of what is said here.                           *)
THEOREM ChatUsesTheLog == ChatSpec => Queue!LogSafety
<1>1. ChatInit => Queue!LogInit
  BY DEF ChatInit
<1>2. ChatInv /\ [ChatNext]_chatVars => [Queue!LogNext]_(Queue!logVars)
  <2> SUFFICES ASSUME ChatInv, [ChatNext]_chatVars PROVE [Queue!LogNext]_(Queue!logVars)
    OBVIOUS
  <2>1. ASSUME UNCHANGED queueVars PROVE [Queue!LogNext]_(Queue!logVars)
    BY <2>1 DEF queueVars, Queue!logVars
  <2>2. ASSUME NEW t \in Threads, NEW role \in Roles, pc[t] # "idle",
               Queue!Publish(Message(req[t], role))
        PROVE  Queue!LogNext
    <3>1. Message(req[t], role) \in Utterances
      BY <2>2, AtWork, MessageFields DEF ChatInv
    <3> QED BY <2>2, <3>1 DEF Queue!LogNext
  <2>3. ASSUME NEW t \in Threads, PublishQuestion(t) PROVE [Queue!LogNext]_(Queue!logVars)
    <3>1. "question" \in Roles /\ pc[t] # "idle"
      BY <2>3 DEF PublishQuestion, At, Roles
    <3>2. Queue!Publish(Message(req[t], "question")) \/ UNCHANGED queueVars
      BY <2>3 DEF PublishQuestion, PublishThrows
    <3> QED BY <2>1, <2>2, <3>1, <3>2
  <2>4. ASSUME NEW t \in Threads, PublishAnswer(t) PROVE [Queue!LogNext]_(Queue!logVars)
    <3>1. "answer" \in Roles /\ pc[t] # "idle"
      BY <2>4 DEF PublishAnswer, At, Roles
    <3>2. Queue!Publish(Message(req[t], "answer")) \/ UNCHANGED queueVars
      BY <2>4 DEF PublishAnswer, PublishThrows
    <3> QED BY <2>1, <2>2, <3>1, <3>2
  <2>5. CASE QueueStep
    <3>1. ASSUME NEW m \in Utterances, Queue!Store(m) PROVE Queue!LogNext
      BY <3>1 DEF Queue!LogNext
    <3>2. ASSUME NEW m \in Queue!Pending, Queue!Lose({m}) PROVE Queue!LogNext
      <4>1. {m} \in SUBSET Queue!Pending
        OBVIOUS
      <4> QED BY <3>2, <4>1 DEF Queue!LogNext
    <3> QED BY <2>5, <3>1, <3>2 DEF QueueStep
  <2>6. ASSUME NEW t \in Threads, Chat(t) PROVE [Queue!LogNext]_(Queue!logVars)
    <3>1. CASE \/ \E model \in ModelTypes : SetStrategy(t, model)
               \/ Branch(t) \/ AddQuestion(t) \/ Ask(t) \/ AddAnswer(t)
               \/ PushPrompt(t) \/ AskWithPrompt(t) \/ PopPrompt(t)
      BY <2>1, <3>1 DEF SetStrategy, Branch, AddQuestion, Ask, AddAnswer, Append1, PushPrompt,
                        AskWithPrompt, PopPrompt
    <3> QED BY <2>3, <2>4, <2>6, <3>1 DEF Chat
  <2>7. CASE ServerStarts \/ ServerDies \/ UNCHANGED chatVars
    BY <2>1, <2>7 DEF ServerStarts, ServerDies, chatVars
  <2>8. ASSUME NEW t \in Threads, NEW c \in Convs, ChatSend(t, c) \/ ChatCreateAndSend(t, c)
        PROVE  UNCHANGED queueVars
    BY <2>8 DEF ChatSend, ChatCreateAndSend, BeginChat
  <2>9. ASSUME NEW c \in Convs, ChatHistory(c) PROVE UNCHANGED queueVars
    BY <2>9 DEF ChatHistory
  <2> QED BY <2>1, <2>5, <2>6, <2>7, <2>8, <2>9 DEF ChatNext
<1> QED BY <1>1, <1>2, ChatInvariantHolds, PTL DEF ChatSpec, Queue!LogSafety
=============================================================================
