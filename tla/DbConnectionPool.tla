-------------------------- MODULE DbConnectionPool --------------------------
(***************************************************************************)
(* HttpServer/src/DbConnectionPool.cpp with DbConnection.{hpp,cpp} and     *)
(* MysqlUtil.hpp: the singleton pool of MySQL connections, the worker      *)
(* threads that run one statement on a pooled connection, and the detached *)
(* health checker.                                                         *)
(*                                                                         *)
(* A critical section of the pool's mutex_ is one step, except the two in  *)
(* which the code stays inside for long: init(), which opens connections   *)
(* one after the other, and the checker's one-second sleep.  Those hold    *)
(* `mutex' from one step to another.                                       *)
(***************************************************************************)
EXTENDS Integers, Sequences, FiniteSets

CONSTANTS Workers,   \* threads that call MysqlUtil::executeQuery/executeUpdate
          Checker,   \* the thread that runs checkConnections()
          Conns,     \* DbConnection objects: bounds how often init() is retried
          PoolSize,  \* init()'s poolSize
          NoConn, NoThread

ASSUME ThreadsAssumption == /\ IsFiniteSet(Workers)
                            /\ Checker \notin Workers
                            /\ NoThread \notin Workers \union {Checker}
ASSUME ConnsAssumption == NoConn \notin Conns
ASSUME PoolSizeAssumption == PoolSize \in Nat \ {0}

VARIABLES
  mutex,        \* who stays inside mutex_: "free", "init" or "checker"
  initialized,  \* initialized_
  toCreate,     \* connections the running init() has still to open
  created,      \* the DbConnection objects that exist
  idle,         \* connections_, the queue of idle connections
  pc,           \* what each thread is doing
  conn,         \* the connection a thread holds, or the checker is about to repair
  busy,         \* busy[c]: the thread that holds c's own mutex_ across steps
  link,         \* the server side of c: "ready", "bare" (connected, but without
                \* schema and charset) or "down"
  snapshot      \* connsToCheck: the connections the checker has still to look at

poolVars == <<mutex, initialized, toCreate, created, idle>>
connVars == <<busy, link>>
vars == <<poolVars, connVars, pc, conn, snapshot>>

Threads == Workers \union {Checker}

WorkerPC == {"out", "entering", "waiting", "pinging", "mustReopen", "reopening",
             "holding", "qreopening", "querying", "returning"}
CheckerPC == {"start", "sleepLocked", "checking", "mustReopen", "reopening", "sleeping"}

\* The worker has popped a connection and not pushed it back.
HolderPC == WorkerPC \ {"out", "entering", "waiting"}

\* The worker is inside executeQuery/executeUpdate, under the connection's mutex_.
StatementPC == {"qreopening", "querying"}

IdleSet == {idle[i] : i \in 1..Len(idle)}
Waiting == {w \in Workers : pc[w] = "waiting"}
Entering == {w \in Workers : pc[w] = "entering"}

\* Another thread is replacing c's conn_ without having taken c's mutex_.
ReplacedBySomeoneElse(t, c) ==
  \E o \in Threads \ {t} : pc[o] = "reopening" /\ conn[o] = c

\* conn_->isValid().  Read while another thread resets conn_ it can say anything.
IsValid(t, c, result) ==
  \/ result = (link[c] # "down")
  \/ ReplacedBySomeoneElse(t, c) /\ result \in BOOLEAN

\* A plausible slip: the connection is pushed and nobody is notified.
MoveAndNotifyNobody(w, next) == pc' = [pc EXCEPT ![w] = next]

\* cv_.notify_one(), together with the notifier's own move to `next'.
MoveAndNotifyOne(w, next) ==
  IF Waiting = {}
    THEN pc' = [pc EXCEPT ![w] = next]
    ELSE \E woken \in Waiting : pc' = [pc EXCEPT ![w] = next, ![woken] = "entering"]

-----------------------------------------------------------------------------
Init == /\ mutex = "free"
        /\ initialized = FALSE
        /\ toCreate = 0
        /\ created = {}
        /\ idle = <<>>
        /\ pc = [t \in Threads |-> IF t = Checker THEN "start" ELSE "out"]
        /\ conn = [t \in Threads |-> NoConn]
        /\ busy = [c \in Conns |-> NoThread]
        /\ link = [c \in Conns |-> "ready"]
        /\ snapshot = <<>>

\* init(): a second call returns at once (`if (initialized_) return').
InitBegin == /\ mutex = "free"
             /\ ~initialized
             /\ mutex' = "init"
             /\ toCreate' = PoolSize
             /\ UNCHANGED <<initialized, created, idle, connVars, pc, conn, snapshot>>

\* A plausible slip: `i <= poolSize'.
InitCreateOneMore(c) == /\ mutex = "init"
                        /\ toCreate >= 0
                        /\ c \notin created
                        /\ created' = created \union {c}
                        /\ idle' = Append(idle, c)
                        /\ toCreate' = toCreate - 1
                        /\ UNCHANGED <<mutex, initialized, connVars, pc, conn, snapshot>>

\* One round of the loop: connections_.push(createConnection()).
InitCreate(c) == /\ mutex = "init"
                 /\ toCreate > 0
                 /\ c \notin created
                 /\ created' = created \union {c}
                 /\ idle' = Append(idle, c)
                 /\ toCreate' = toCreate - 1
                 /\ UNCHANGED <<mutex, initialized, connVars, pc, conn, snapshot>>

\* createConnection() throws: the lock_guard lets go, what was pushed stays.
InitThrow == /\ mutex = "init"
             /\ toCreate > 0
             /\ mutex' = "free"
             /\ toCreate' = 0
             /\ UNCHANGED <<initialized, created, idle, connVars, pc, conn, snapshot>>

InitDone == /\ mutex = "init"
            /\ toCreate = 0
            /\ initialized' = TRUE
            /\ mutex' = "free"
            /\ UNCHANGED <<toCreate, created, idle, connVars, pc, conn, snapshot>>

-----------------------------------------------------------------------------
(* A worker's MysqlUtil::executeQuery/executeUpdate.                       *)

Call(w) == /\ pc[w] = "out"
           /\ pc' = [pc EXCEPT ![w] = "entering"]
           /\ UNCHANGED <<poolVars, connVars, conn, snapshot>>

\* A plausible slip: front() without pop().
TakeIdleWithoutPop(w) == /\ pc[w] = "entering"
                         /\ mutex = "free"
                         /\ idle # <<>>
                         /\ conn' = [conn EXCEPT ![w] = Head(idle)]
                         /\ pc' = [pc EXCEPT ![w] = "pinging"]
                         /\ UNCHANGED <<poolVars, connVars, snapshot>>

\* The loop of getConnection() under mutex_: pop, throw or wait.
TakeIdle(w) == /\ pc[w] = "entering"
               /\ mutex = "free"
               /\ idle # <<>>
               /\ conn' = [conn EXCEPT ![w] = Head(idle)]
               /\ idle' = Tail(idle)
               /\ pc' = [pc EXCEPT ![w] = "pinging"]
               /\ UNCHANGED <<mutex, initialized, toCreate, created, connVars, snapshot>>

ThrowUninitialized(w) == /\ pc[w] = "entering"
                         /\ mutex = "free"
                         /\ idle = <<>>
                         /\ ~initialized
                         /\ pc' = [pc EXCEPT ![w] = "out"]
                         /\ UNCHANGED <<poolVars, connVars, conn, snapshot>>

Wait(w) == /\ pc[w] = "entering"
           /\ mutex = "free"
           /\ idle = <<>>
           /\ initialized
           /\ pc' = [pc EXCEPT ![w] = "waiting"]
           /\ UNCHANGED <<poolVars, connVars, conn, snapshot>>

GetConnection(w) == TakeIdle(w) \/ ThrowUninitialized(w) \/ Wait(w)

SpuriousWakeup(w) == /\ pc[w] = "waiting"
                     /\ pc' = [pc EXCEPT ![w] = "entering"]
                     /\ UNCHANGED <<poolVars, connVars, conn, snapshot>>

\* ping() outside mutex_, under the connection's own mutex.
Ping(w) == /\ pc[w] = "pinging"
           /\ busy[conn[w]] = NoThread
           /\ \E ok \in BOOLEAN :
                /\ IsValid(w, conn[w], ok)
                /\ pc' = [pc EXCEPT ![w] = IF ok THEN "holding" ELSE "mustReopen"]
           /\ UNCHANGED <<poolVars, connVars, conn, snapshot>>

\* reconnect() takes no mutex.  First it closes the old connection ...
CloseOld(t) == /\ pc[t] = "mustReopen"
               /\ link' = [link EXCEPT ![conn[t]] = "down"]
               /\ pc' = [pc EXCEPT ![t] = "reopening"]
               /\ UNCHANGED <<poolVars, busy, conn, snapshot>>

\* A plausible slip: no catch block in getConnection().
OpenNewWithoutCatch(w) ==
  /\ pc[w] = "reopening"
  /\ \E state \in {"ready", "bare", "down"} :
       /\ link' = [link EXCEPT ![conn[w]] = state]
       /\ IF state = "ready"
            THEN pc' = [pc EXCEPT ![w] = "holding"] /\ UNCHANGED conn
            ELSE /\ pc' = [pc EXCEPT ![w] = "out"]
                 /\ conn' = [conn EXCEPT ![w] = NoConn]
  /\ UNCHANGED <<poolVars, busy, snapshot>>

\* A plausible change: getConnection() retries until reconnect() succeeds.
OpenNewRetries(w) ==
  /\ pc[w] = "reopening"
  /\ \E state \in {"ready", "bare", "down"} :
       /\ link' = [link EXCEPT ![conn[w]] = state]
       /\ pc' = [pc EXCEPT ![w] = IF state = "ready" THEN "holding" ELSE "mustReopen"]
  /\ UNCHANGED <<poolVars, busy, conn, snapshot>>

\* ... then connect() and setSchema(), either of which may throw.
OpenNew(w) ==
  /\ pc[w] = "reopening"
  /\ \E state \in {"ready", "bare", "down"} :
       /\ link' = [link EXCEPT ![conn[w]] = state]
       /\ pc' = [pc EXCEPT ![w] = IF state = "ready" THEN "holding" ELSE "returning"]
  /\ UNCHANGED <<poolVars, busy, conn, snapshot>>

\* The head of executeQuery/executeUpdate: lock, isValid(), maybe reconnect().
BeginStatement(w) ==
  /\ pc[w] = "holding"
  /\ busy[conn[w]] = NoThread
  /\ busy' = [busy EXCEPT ![conn[w]] = w]
  /\ \E ok \in BOOLEAN :
       /\ IsValid(w, conn[w], ok)
       /\ pc' = [pc EXCEPT ![w] = IF ok THEN "querying" ELSE "qreopening"]
       /\ link' = IF ok THEN link ELSE [link EXCEPT ![conn[w]] = "down"]
  /\ UNCHANGED <<poolVars, conn, snapshot>>

\* A plausible slip: lock() and unlock() by hand, and no unlock() when reconnect() throws.
OpenForStatementKeepsLock(w) ==
  /\ pc[w] = "qreopening"
  /\ \E state \in {"ready", "bare", "down"} :
       /\ link' = [link EXCEPT ![conn[w]] = state]
       /\ pc' = [pc EXCEPT ![w] = IF state = "ready" THEN "querying" ELSE "returning"]
  /\ UNCHANGED <<poolVars, busy, conn, snapshot>>

OpenForStatement(w) ==
  /\ pc[w] = "qreopening"
  /\ \E state \in {"ready", "bare", "down"} :
       /\ link' = [link EXCEPT ![conn[w]] = state]
       /\ IF state = "ready"
            THEN pc' = [pc EXCEPT ![w] = "querying"] /\ UNCHANGED busy
            ELSE /\ pc' = [pc EXCEPT ![w] = "returning"]
                 /\ busy' = [busy EXCEPT ![conn[w]] = NoThread]
  /\ UNCHANGED <<poolVars, conn, snapshot>>

\* The statement returns or throws: either way the lock_guard lets go.
EndStatement(w) == /\ pc[w] = "querying"
                   /\ busy' = [busy EXCEPT ![conn[w]] = NoThread]
                   /\ pc' = [pc EXCEPT ![w] = "returning"]
                   /\ UNCHANGED <<poolVars, link, conn, snapshot>>

\* The deleter of the returned shared_ptr, or the catch block of getConnection().
GiveBack(w) == /\ pc[w] = "returning"
               /\ mutex = "free"
               /\ idle' = Append(idle, conn[w])
               /\ conn' = [conn EXCEPT ![w] = NoConn]
               /\ MoveAndNotifyOne(w, "out")
               /\ UNCHANGED <<mutex, initialized, toCreate, created, connVars, snapshot>>

-----------------------------------------------------------------------------
(* checkConnections().                                                     *)

\* An empty queue: sleep_for(1s) with the lock held ...
SleepInsideLock == /\ pc[Checker] = "start"
                   /\ mutex = "free"
                   /\ idle = <<>>
                   /\ mutex' = "checker"
                   /\ pc' = [pc EXCEPT ![Checker] = "sleepLocked"]
                   /\ UNCHANGED <<initialized, toCreate, created, idle, connVars, conn, snapshot>>

\* ... and `continue', which leaves the block.
LeaveLock == /\ pc[Checker] = "sleepLocked"
             /\ mutex' = "free"
             /\ pc' = [pc EXCEPT ![Checker] = "start"]
             /\ UNCHANGED <<initialized, toCreate, created, idle, connVars, conn, snapshot>>

CopyQueue == /\ pc[Checker] = "start"
             /\ mutex = "free"
             /\ idle # <<>>
             /\ snapshot' = idle
             /\ pc' = [pc EXCEPT ![Checker] = "checking"]
             /\ UNCHANGED <<poolVars, connVars, conn>>

CheckNext == /\ pc[Checker] = "checking"
             /\ snapshot # <<>>
             /\ busy[Head(snapshot)] = NoThread
             /\ snapshot' = Tail(snapshot)
             /\ \E ok \in BOOLEAN :
                  /\ IsValid(Checker, Head(snapshot), ok)
                  /\ IF ok
                       THEN UNCHANGED <<pc, conn>>
                       ELSE /\ pc' = [pc EXCEPT ![Checker] = "mustReopen"]
                            /\ conn' = [conn EXCEPT ![Checker] = Head(snapshot)]
             /\ UNCHANGED <<poolVars, connVars>>

\* The end of the checker's reconnect(); a failure is only logged.
CheckerOpenNew == /\ pc[Checker] = "reopening"
                  /\ \E state \in {"ready", "bare", "down"} :
                       link' = [link EXCEPT ![conn[Checker]] = state]
                  /\ pc' = [pc EXCEPT ![Checker] = "checking"]
                  /\ conn' = [conn EXCEPT ![Checker] = NoConn]
                  /\ UNCHANGED <<poolVars, busy, snapshot>>

SleepOutside == /\ pc[Checker] = "checking"
                /\ snapshot = <<>>
                /\ pc' = [pc EXCEPT ![Checker] = "sleeping"]
                /\ UNCHANGED <<poolVars, connVars, conn, snapshot>>

WakeUp == /\ pc[Checker] = "sleeping"
          /\ pc' = [pc EXCEPT ![Checker] = "start"]
          /\ UNCHANGED <<poolVars, connVars, conn, snapshot>>

-----------------------------------------------------------------------------
\* The server closes a connection (wait_timeout, restart, network).
LinkDrops(c) == /\ c \in created
                /\ link[c] # "down"
                /\ link' = [link EXCEPT ![c] = "down"]
                /\ UNCHANGED <<poolVars, busy, pc, conn, snapshot>>

InitStep == InitBegin \/ (\E c \in Conns : InitCreate(c)) \/ InitThrow \/ InitDone

\* What a worker does by itself once it has called.
GoOn(w) == \/ GetConnection(w) \/ Ping(w) \/ CloseOld(w) \/ OpenNew(w)
           \/ BeginStatement(w) \/ OpenForStatement(w) \/ EndStatement(w)
           \/ GiveBack(w)

WorkerStep(w) == Call(w) \/ SpuriousWakeup(w) \/ GoOn(w)

CheckerStep == \/ SleepInsideLock \/ LeaveLock \/ CopyQueue \/ CheckNext
               \/ CloseOld(Checker) \/ CheckerOpenNew \/ SleepOutside \/ WakeUp

Next == \/ InitStep
        \/ \E w \in Workers : WorkerStep(w)
        \/ CheckerStep
        \/ \E c \in Conns : LinkDrops(c)

Spec == Init /\ [][Next]_vars

(* Fairness, weak throughout: a thread that could go on at every moment    *)
(* goes on.  That promises nothing about a mutex that is free again and    *)
(* again: the checker, over an empty queue, sleeps with mutex_ held,       *)
(* leaves the block and locks it again at once, and std::mutex does not    *)
(* queue those who want it.  Nobody has to call, the link may stay up, a   *)
(* spurious wakeup may never come.  init() is not retried for ever: the    *)
(* application calls it once.                                              *)
Fairness == /\ \A w \in Workers : WF_vars(GoOn(w))
            /\ WF_vars(CheckerStep)
            /\ WF_vars(InitStep) /\ <>[](mutex # "init")

FairSpec == Spec /\ Fairness

-----------------------------------------------------------------------------
TypeOK == /\ mutex \in {"free", "init", "checker"}
          /\ initialized \in BOOLEAN
          /\ toCreate \in 0..PoolSize
          /\ created \subseteq Conns
          /\ idle \in Seq(Conns)
          /\ pc \in [Threads -> WorkerPC \union CheckerPC]
          /\ \A w \in Workers : pc[w] \in WorkerPC
          /\ pc[Checker] \in CheckerPC
          /\ conn \in [Threads -> Conns \union {NoConn}]
          /\ busy \in [Conns -> Workers \union {NoThread}]
          /\ link \in [Conns -> {"ready", "bare", "down"}]
          /\ snapshot \in Seq(Conns)

\* A worker holds a connection exactly from the pop to the push.
HoldersHold == \A w \in Workers : (conn[w] # NoConn) <=> (pc[w] \in HolderPC)

\* Conservation.  Every connection ever opened is in the queue exactly once, or
\* held by exactly one worker and then not in the queue: no connection leaks on
\* an exception path of getConnection()/executeQuery() and none is handed out twice.
NothingTwice ==
  /\ \A i, j \in 1..Len(idle) : idle[i] = idle[j] => i = j
  /\ \A w \in Workers : conn[w] \notin IdleSet
  /\ \A v, w \in Workers : conn[v] = conn[w] /\ conn[v] # NoConn => v = w
NothingLost == \A c \in Conns :
  c \in created <=> c \in IdleSet \/ \E w \in Workers : conn[w] = c
Conservation == HoldersHold /\ NothingTwice /\ NothingLost

\* init() runs once: nobody waits, and nobody is inside init(), outside its phase.
InitPhase == /\ mutex = "init" => ~initialized
             /\ Waiting # {} => initialized

\* No lost wake-up: while a thread sleeps in cv_.wait(), every idle connection is
\* matched by a thread that is awake in getConnection() and will look at the queue.
NoLostWakeup == Waiting # {} => Len(idle) <= Cardinality(Entering)

\* Statements on one connection are serialised: the connection's mutex_ is held by
\* the one worker inside executeQuery/executeUpdate, and by nobody otherwise.
StatementsSerialised ==
  \A w \in Workers : \A c \in Conns :
    (busy[c] = w) <=> (pc[w] \in StatementPC /\ conn[w] = c)

\* The pool keeps the promise of the abstract ResourcePool, a connection's owner
\* being the worker that popped it (the checker owns nothing).
OwnerOf(c) == IF \E w \in Workers : conn[w] = c
                THEN CHOOSE w \in Workers : conn[w] = c
                ELSE NoThread
Abstract == INSTANCE ResourcePool
              WITH Clients <- Workers, Resources <- Conns, Nobody <- NoThread,
                   stock <- created, owner <- [c \in Conns |-> OwnerOf(c)]
ImplementsResourcePool == Abstract!SafeSpec

\* The checker over an empty queue: asleep with mutex_ held, or about to be.
CheckerBarges == idle = <<>> /\ pc[Checker] \in {"start", "sleepLocked"}

\* Whatever ping(), reconnect() and the statement do, the worker that took a connection
\* gets as far as giving it back, and it is given back unless the checker, which locks
\* mutex_ over an empty queue again and again, keeps that worker out for ever: there is
\* no other way to lose a connection.
OnlyTheCheckerStarves == \A c \in Conns :
  OwnerOf(c) # NoThread ~> \/ OwnerOf(c) = NoThread
                           \/ /\ [](\E w \in Workers : conn[w] = c /\ pc[w] = "returning")
                              /\ []<>(mutex = "checker")

\* If threads wait for a connection, one of the threads inside getConnection() gets one
\* in the end, unless the checker starves the one that is giving a connection back.
\* (Which one is up to notify_one and the mutex: a given waiter may be overtaken for ever.)
SomeWaiterServed ==
  Waiting # {} ~> \/ \E w \in Workers : pc[w] = "pinging"
                  \/ [](CheckerBarges /\ \E w \in Workers : pc[w] = "returning")

-----------------------------------------------------------------------------
(* What the comments say and the code does not do.                         *)

\* DbConnectionPool.cpp:140 and :55: only connections idle in the pool are checked,
\* to avoid conflicts with connections in use.
CheckerLeavesUsedConnectionsAlone ==
  pc[Checker] = "reopening" => \A w \in Workers : conn[w] = conn[Checker] => pc[w] \notin StatementPC

\* DbConnectionPool.cpp:109: the connection is returned to the pool in every case.
\* Not under weak fairness: the checker may keep the returning worker out for ever.
EveryConnectionReturns == Abstract!Spec
=============================================================================
