---------------------------- MODULE MessageQueue ----------------------------
(***************************************************************************)
(* MQManager, which publishes SQL statements on a pool of channels, the    *)
(* broker's durable queue, and RabbitMQThreadPool, whose workers execute   *)
(* one statement at a time and acknowledge it afterwards.                  *)
(*                                                                         *)
(* The broker is modelled from how the code uses it: what a channel was    *)
(* given arrives in the order of that channel; a message for a queue that  *)
(* nobody has declared is dropped; a message that was delivered and not    *)
(* acknowledged goes back to the head of the queue when its channel closes.*)
(* The broker itself does not fail.                                        *)
(***************************************************************************)
EXTENDS Integers, Sequences, FiniteSets

CONSTANTS Messages, Workers,
          PoolSize,    \* channels of MQManager
          MaxFailures, \* bounds the exceptions of the workers in one life of the process
          MaxDeaths,   \* bounds the deaths of the process
          None

ASSUME QueueAssumption == /\ IsFiniteSet(Messages) /\ IsFiniteSet(Workers)
                          /\ PoolSize \in Nat \ {0} /\ MaxFailures \in Nat /\ MaxDeaths \in Nat
                          /\ None \notin Messages

Channels == 0..PoolSize - 1

VARIABLES
  up,          \* the process runs; one life follows another
  deaths,
  counter,     \* counter_, as the index it gives next
  transit,     \* of each channel: published and not yet at the broker
  declared,    \* the broker has the queue; it is durable
  queue,       \* its messages
  worker,      \* of each worker: "off", "starting", "waiting", "handling", "acking" or "ended"
  inHand,      \* of each worker: the message delivered to it and not acknowledged
  rows,        \* the table chat_message: the rows inserted, in order
  failures,    \* exceptions of workers in this life of the process
  published,   \* what BasicPublish was given (history)
  redelivered, \* what went back to the queue (history)
  lost         \* what was dropped or was in transit when the process died (history)

workerVars == <<worker, inHand, failures>>
brokerVars == <<declared, queue>>
process == <<up, deaths>>
vars == <<process, counter, transit, brokerVars, workerVars, rows, published, redelivered, lost>>

RangeOf(s) == {s[i] : i \in DOMAIN s}
InTransit == UNION {RangeOf(transit[c]) : c \in Channels}
InHand == {inHand[w] : w \in Workers} \ {None}

Init == /\ up = FALSE /\ deaths = 0
        /\ counter = 0
        /\ transit = [c \in Channels |-> <<>>]
        /\ declared = FALSE
        /\ queue = <<>>
        /\ worker = [w \in Workers |-> "off"]
        /\ inHand = [w \in Workers |-> None]
        /\ rows = <<>>
        /\ failures = 0
        /\ published = {}
        /\ redelivered = {}
        /\ lost = {}

-----------------------------------------------------------------------------
\* MQManager::publish: the next channel of the pool, under its mutex.
Publish(m) == /\ up
              /\ m \notin published
              /\ transit' = [transit EXCEPT ![counter] = Append(@, m)]
              /\ counter' = (counter + 1) % PoolSize
              /\ published' = published \union {m}
              /\ UNCHANGED <<process, brokerVars, workerVars, rows, redelivered, lost>>

Arrive(c) ==
  /\ transit[c] # <<>>
  /\ transit' = [transit EXCEPT ![c] = Tail(@)]
  /\ \/ /\ declared
        /\ queue' = Append(queue, Head(transit[c]))
        /\ UNCHANGED lost
     \/ /\ ~declared
        /\ lost' = lost \union {Head(transit[c])}
        /\ UNCHANGED queue
  /\ UNCHANGED <<process, counter, declared, workerVars, rows, published, redelivered>>

-----------------------------------------------------------------------------
\* RabbitMQThreadPool::start, and the start of each worker.
Start == /\ ~up
         /\ up' = TRUE
         /\ worker' = [w \in Workers |-> "starting"]
         /\ UNCHANGED <<deaths, counter, transit, brokerVars, inHand, failures, rows, published,
                        redelivered, lost>>

DeclareQueue(w) == /\ worker[w] = "starting"
                   /\ declared' = TRUE
                   /\ worker' = [worker EXCEPT ![w] = "waiting"]
                   /\ UNCHANGED <<process, counter, transit, queue, inHand, rows, failures, published,
                                  redelivered, lost>>

Consume(w) == /\ worker[w] = "waiting"
              /\ queue # <<>>
              /\ inHand' = [inHand EXCEPT ![w] = Head(queue)]
              /\ queue' = Tail(queue)
              /\ worker' = [worker EXCEPT ![w] = "handling"]
              /\ UNCHANGED <<process, counter, transit, declared, rows, failures, published, redelivered,
                             lost>>

\* handler_ is executeMysql: the statement inserts its row.
Handle(w) == /\ worker[w] = "handling"
             /\ rows' = Append(rows, inHand[w])
             /\ worker' = [worker EXCEPT ![w] = "acking"]
             /\ UNCHANGED <<process, counter, transit, brokerVars, inHand, failures, published,
                            redelivered, lost>>

\* Mutant: a worker handles one message and ends.
AckEnds(w) == /\ worker[w] = "acking"
              /\ inHand' = [inHand EXCEPT ![w] = None]
              /\ worker' = [worker EXCEPT ![w] = "ended"]
              /\ UNCHANGED <<process, counter, transit, brokerVars, rows, failures, published,
                             redelivered, lost>>

\* Mutant: the message is put back instead.
AckRequeues(w) == /\ worker[w] = "acking"
                  /\ queue' = Append(queue, inHand[w])
                  /\ inHand' = [inHand EXCEPT ![w] = None]
                  /\ worker' = [worker EXCEPT ![w] = "waiting"]
                  /\ UNCHANGED <<process, counter, transit, declared, rows, failures, published,
                                 redelivered, lost>>

Ack(w) == /\ worker[w] = "acking"
          /\ inHand' = [inHand EXCEPT ![w] = None]
          /\ worker' = [worker EXCEPT ![w] = "waiting"]
          /\ UNCHANGED <<process, counter, transit, brokerVars, rows, failures, published, redelivered,
                         lost>>

\* Mutant: the message was acknowledged when it was delivered.
WorkerFailsAcked(w) == /\ failures < MaxFailures
                       /\ worker[w] \in {"handling", "acking"}
                       /\ failures' = failures + 1
                       /\ worker' = [worker EXCEPT ![w] = "ended"]
                       /\ inHand' = [inHand EXCEPT ![w] = None]
                       /\ UNCHANGED <<process, counter, transit, brokerVars, rows, published, redelivered,
                                      lost>>

\* Mutant: what the worker had is put back and also kept.
WorkerFailsKeeping(w) == /\ failures < MaxFailures
                         /\ worker[w] \in {"handling", "acking"}
                         /\ failures' = failures + 1
                         /\ worker' = [worker EXCEPT ![w] = "ended"]
                         /\ queue' = <<inHand[w]>> \o queue
                         /\ redelivered' = redelivered \union {inHand[w]}
                         /\ UNCHANGED <<process, counter, transit, declared, inHand, rows,
                                        published, lost>>

\* An exception of the handler or of BasicAck ends the worker and its channel.
WorkerFails(w) == /\ failures < MaxFailures
                  /\ worker[w] \in {"handling", "acking"}
                  /\ failures' = failures + 1
                  /\ worker' = [worker EXCEPT ![w] = "ended"]
                  /\ queue' = <<inHand[w]>> \o queue
                  /\ redelivered' = redelivered \union {inHand[w]}
                  /\ inHand' = [inHand EXCEPT ![w] = None]
                  /\ UNCHANGED <<process, counter, transit, declared, rows, published, lost>>

(* The process dies: the broker takes back what the workers had, in some   *)
(* order, and what had not reached it is lost.                             *)
ProcessDies ==
  /\ up /\ deaths < MaxDeaths
  /\ up' = FALSE
  /\ deaths' = deaths + 1
  /\ \E back \in [1..Cardinality(InHand) -> InHand] :
       /\ RangeOf(back) = InHand
       /\ queue' = back \o queue
  /\ redelivered' = redelivered \union InHand
  /\ lost' = lost \union InTransit
  /\ counter' = 0
  /\ transit' = [c \in Channels |-> <<>>]
  /\ worker' = [w \in Workers |-> "off"]
  /\ inHand' = [w \in Workers |-> None]
  /\ failures' = 0
  /\ UNCHANGED <<declared, rows, published>>

Next == \/ Start \/ ProcessDies
        \/ \E m \in Messages : Publish(m)
        \/ \E c \in Channels : Arrive(c)
        \/ \E w \in Workers : \/ DeclareQueue(w) \/ Consume(w) \/ Handle(w) \/ Ack(w)
                              \/ WorkerFails(w)

Spec == Init /\ [][Next]_vars

(* The process is started again after it died, the network delivers, and   *)
(* the threads of the workers are scheduled.                               *)
FairSpec == /\ Spec
            /\ WF_vars(Start)
            /\ \A c \in Channels : WF_vars(Arrive(c))
            /\ \A w \in Workers : /\ WF_vars(DeclareQueue(w)) /\ WF_vars(Consume(w))
                                  /\ WF_vars(Handle(w)) /\ WF_vars(Ack(w))

-----------------------------------------------------------------------------
\* The variables have their types; a worker has a message exactly while it works on it.
TypeOK ==
  /\ up \in BOOLEAN /\ deaths \in 0..MaxDeaths
  /\ counter \in Channels
  /\ \A c \in Channels : RangeOf(transit[c]) \subseteq Messages
  /\ declared \in BOOLEAN
  /\ RangeOf(queue) \subseteq Messages
  /\ worker \in [Workers -> {"off", "starting", "waiting", "handling", "acking", "ended"}]
  /\ inHand \in [Workers -> Messages \union {None}]
  /\ \A w \in Workers : inHand[w] # None <=> worker[w] \in {"handling", "acking"}
  /\ RangeOf(rows) \subseteq Messages
  /\ failures \in 0..MaxFailures
  /\ published \subseteq Messages
  /\ redelivered \subseteq published /\ lost \subseteq published

(* Every statement that was published is on its way, in the queue, in a    *)
(* worker's hands or in the table, unless it was dropped before the queue  *)
(* existed or died with the process: an exception or a death anywhere      *)
(* between delivery and acknowledgement loses nothing.                     *)
NothingLost ==
  /\ published = lost \union InTransit \union RangeOf(queue) \union InHand \union RangeOf(rows)
  /\ lost \intersect (InTransit \union RangeOf(queue) \union InHand \union RangeOf(rows)) = {}

(* A row is there twice only when its message was delivered again.         *)
DuplicatesExplained ==
  \A i, j \in DOMAIN rows : i # j /\ rows[i] = rows[j] => rows[i] \in redelivered

(* The queue implements the log, and stores what is not lost, as long as   *)
(* fewer workers fail in a life of the process than there are.             *)
Log == INSTANCE MessageLog
         WITH copies <- [m \in Messages |-> Cardinality({i \in DOMAIN rows : rows[i] = m})]
ImplementsMessageLog == Log!LogSpec
=============================================================================
