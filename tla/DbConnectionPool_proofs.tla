----------------------- MODULE DbConnectionPool_proofs -----------------------
(***************************************************************************)
(* Proofs about DbConnectionPool for every number of workers, connections  *)
(* and every pool size.                                                    *)
(***************************************************************************)
EXTENDS DbConnectionPool, FiniteSetTheorems, TLAPS

USE ThreadsAssumption, ConnsAssumption, PoolSizeAssumption

(* Typing: every step keeps the variables in their types.  The only thing  *)
(* to see is that a worker that pushes a connection really holds one.      *)
TypeInv == TypeOK /\ HoldersHold

LEMMA TypeInvStep == TypeInv /\ [Next]_vars => TypeInv'
<1> SUFFICES ASSUME TypeInv, [Next]_vars PROVE TypeInv'
  OBVIOUS
<1> USE DEF TypeInv, TypeOK, HoldersHold, HolderPC, WorkerPC, CheckerPC, Threads,
            poolVars, connVars
<1>1. CASE InitStep
  <2>1. CASE InitBegin
    BY <2>1 DEF InitBegin
  <2>2. ASSUME NEW c \in Conns, InitCreate(c) PROVE TypeInv'
    <3>1. idle' \in Seq(Conns) /\ toCreate' \in 0..PoolSize
      BY <2>2 DEF InitCreate
    <3>2. QED
      BY <2>2, <3>1 DEF InitCreate
  <2>3. CASE InitThrow
    BY <2>3 DEF InitThrow
  <2>4. CASE InitDone
    BY <2>4 DEF InitDone
  <2>5. QED
    BY <1>1, <2>1, <2>2, <2>3, <2>4 DEF InitStep
<1>2. ASSUME NEW w \in Workers, WorkerStep(w) PROVE TypeInv'
  <2>1. CASE Call(w)
    BY <2>1 DEF Call
  <2>2. CASE TakeIdle(w)
    BY <2>2 DEF TakeIdle
  <2>3. CASE ThrowUninitialized(w) \/ Wait(w) \/ SpuriousWakeup(w)
    <3>1. UNCHANGED <<poolVars, connVars, conn, snapshot>> /\ pc[w] \in {"entering", "waiting"}
      BY <2>3 DEF ThrowUninitialized, Wait, SpuriousWakeup
    <3>2. PICK next \in {"out", "waiting", "entering"} : pc' = [pc EXCEPT ![w] = next]
      BY <2>3 DEF ThrowUninitialized, Wait, SpuriousWakeup
    <3>3. QED
      BY <3>1, <3>2
  <2>4. CASE Ping(w)
    BY <2>4 DEF Ping
  <2>5. CASE CloseOld(w) \/ OpenNew(w)
    <3>1. UNCHANGED <<poolVars, busy, conn, snapshot>> /\ pc[w] \in HolderPC /\ conn[w] \in Conns
      BY <2>5 DEF CloseOld, OpenNew
    <3>2. PICK next \in {"reopening", "holding", "returning"} : pc' = [pc EXCEPT ![w] = next]
      <4>1. CASE CloseOld(w)
        BY <4>1 DEF CloseOld
      <4>2. CASE OpenNew(w)
        BY <4>2 DEF OpenNew
      <4>3. QED
        BY <2>5, <4>1, <4>2
    <3>3. link' \in [Conns -> {"ready", "bare", "down"}]
      <4>1. CASE CloseOld(w)
        BY <4>1 DEF CloseOld
      <4>2. CASE OpenNew(w)
        BY <4>2 DEF OpenNew
      <4>3. QED
        BY <2>5, <4>1, <4>2
    <3>4. QED
      BY <3>1, <3>2, <3>3
  <2>6. CASE BeginStatement(w) \/ OpenForStatement(w) \/ EndStatement(w)
    <3>1. CASE BeginStatement(w)
      BY <3>1 DEF BeginStatement
    <3>2. CASE OpenForStatement(w)
      BY <3>2 DEF OpenForStatement
    <3>3. CASE EndStatement(w)
      BY <3>3 DEF EndStatement
    <3>4. QED
      BY <2>6, <3>1, <3>2, <3>3
  <2>7. CASE GiveBack(w)
    <3>1. conn[w] \in Conns
      BY <2>7 DEF GiveBack
    <3>2. idle' \in Seq(Conns)
      BY <2>7, <3>1 DEF GiveBack
    <3>3. CASE Waiting = {}
      BY <2>7, <3>2, <3>3 DEF GiveBack, MoveAndNotifyOne
    <3>4. CASE Waiting # {}
      <4>1. PICK woken \in Waiting : pc' = [pc EXCEPT ![w] = "out", ![woken] = "entering"]
        BY <2>7, <3>4 DEF GiveBack, MoveAndNotifyOne
      <4>2. woken \in Workers /\ pc[woken] = "waiting" /\ woken # w
        BY <2>7, <4>1 DEF GiveBack, Waiting
      <4>3. QED
        BY <2>7, <3>2, <4>1, <4>2 DEF GiveBack
    <3>5. QED
      BY <3>3, <3>4
  <2>8. QED
    BY <1>2, <2>1, <2>2, <2>3, <2>4, <2>5, <2>6, <2>7 DEF WorkerStep, GoOn, GetConnection
<1>3. CASE CheckerStep
  <2>1. CASE SleepInsideLock \/ LeaveLock \/ CopyQueue \/ SleepOutside \/ WakeUp
    BY <1>3, <2>1 DEF SleepInsideLock, LeaveLock, CopyQueue, SleepOutside, WakeUp
  <2>2. CASE CheckNext
    <3>1. snapshot' \in Seq(Conns) /\ Head(snapshot) \in Conns
      BY <2>2 DEF CheckNext
    <3>2. QED
      BY <2>2, <3>1 DEF CheckNext
  <2>3. CASE CloseOld(Checker) \/ CheckerOpenNew
    BY <2>3 DEF CloseOld, CheckerOpenNew
  <2>4. QED
    BY <1>3, <2>1, <2>2, <2>3 DEF CheckerStep
<1>4. ASSUME NEW c \in Conns, LinkDrops(c) PROVE TypeInv'
  BY <1>4 DEF LinkDrops
<1>5. CASE UNCHANGED vars
  BY <1>5 DEF vars
<1>6. QED
  BY <1>1, <1>2, <1>3, <1>4, <1>5 DEF Next

LEMMA InitTyped == Init => TypeInv
<1> SUFFICES ASSUME Init PROVE TypeInv
  OBVIOUS
<1>1. idle \in Seq(Conns) /\ snapshot \in Seq(Conns) /\ toCreate \in 0..PoolSize
  BY DEF Init
<1>2. pc \in [Threads -> WorkerPC \union CheckerPC]
  BY DEF Init, WorkerPC, CheckerPC
<1>3. \A w \in Workers : pc[w] = "out" /\ conn[w] = NoConn
  BY DEF Init, Threads
<1>4. pc[Checker] = "start"
  BY DEF Init, Threads
<1>5. QED
  BY <1>1, <1>2, <1>3, <1>4
     DEF Init, TypeInv, TypeOK, HoldersHold, HolderPC, WorkerPC, CheckerPC

(* The typing theorem: the types in TypeOK hold in every reachable state,  *)
(* in particular a connection object is in the queue or in a thread's      *)
(* hands only if it is one, never null; and a worker has one in its hands  *)
(* exactly between pop() and push().                                       *)
THEOREM TypeCorrect == Spec => [](TypeOK /\ HoldersHold)
<1>1. TypeInv => TypeOK /\ HoldersHold
  BY DEF TypeInv
<1> QED BY <1>1, InitTyped, TypeInvStep, PTL DEF Spec

-----------------------------------------------------------------------------
(* Conservation.  Most steps leave the queue and the workers' connections  *)
(* alone; three kinds of step move a connection.                           *)

LEMMA StepKinds ==
  ASSUME TypeInv, [Next]_vars
  PROVE  \/ /\ idle' = idle /\ created' = created
            /\ \A w \in Workers : conn'[w] = conn[w]
         \/ \E c \in Conns : InitCreate(c)
         \/ \E w \in Workers : TakeIdle(w) \/ GiveBack(w)
<1> DEFINE Same == /\ idle' = idle /\ created' = created
                   /\ \A w \in Workers : conn'[w] = conn[w]
<1> USE DEF poolVars, connVars
<1>1. CASE InitStep
  BY <1>1 DEF InitStep, InitBegin, InitThrow, InitDone
<1>2. ASSUME NEW w \in Workers, WorkerStep(w), ~TakeIdle(w), ~GiveBack(w) PROVE Same
  <2>1. CASE Call(w) \/ ThrowUninitialized(w) \/ Wait(w) \/ SpuriousWakeup(w)
    BY <2>1 DEF Call, ThrowUninitialized, Wait, SpuriousWakeup
  <2>2. CASE Ping(w) \/ CloseOld(w) \/ OpenNew(w)
    BY <2>2 DEF Ping, CloseOld, OpenNew
  <2>3. CASE BeginStatement(w) \/ OpenForStatement(w) \/ EndStatement(w)
    BY <2>3 DEF BeginStatement, OpenForStatement, EndStatement
  <2>4. QED
    BY <1>2, <2>1, <2>2, <2>3 DEF WorkerStep, GoOn, GetConnection
<1>3. CASE CheckerStep
  <2>1. CASE SleepInsideLock \/ LeaveLock \/ CopyQueue \/ SleepOutside \/ WakeUp \/ CloseOld(Checker)
    BY <2>1 DEF SleepInsideLock, LeaveLock, CopyQueue, SleepOutside, WakeUp, CloseOld
  <2>2. CASE CheckNext
    BY <2>2 DEF CheckNext, TypeInv, TypeOK, Threads
  <2>3. CASE CheckerOpenNew
    BY <2>3 DEF CheckerOpenNew, TypeInv, TypeOK, Threads
  <2>4. QED
    BY <1>3, <2>1, <2>2, <2>3 DEF CheckerStep
<1>4. ASSUME NEW c \in Conns, LinkDrops(c) PROVE Same
  BY <1>4 DEF LinkDrops
<1>5. CASE UNCHANGED vars
  BY <1>5 DEF vars
<1>6. QED
  BY <1>1, <1>2, <1>3, <1>4, <1>5 DEF Next

(* Pushing x on a queue adds x at the end and leaves the rest in place.    *)
LEMMA PushFacts ==
  ASSUME NEW S, NEW q \in Seq(S), NEW x \in S
  PROVE  /\ Len(Append(q, x)) = Len(q) + 1
         /\ \A i \in 1..Len(q) : Append(q, x)[i] = q[i]
         /\ Append(q, x)[Len(q) + 1] = x
         /\ {Append(q, x)[i] : i \in 1..Len(Append(q, x))} = {q[i] : i \in 1..Len(q)} \union {x}
<1>1. /\ Len(Append(q, x)) = Len(q) + 1
      /\ \A i \in 1..Len(q) : Append(q, x)[i] = q[i]
      /\ Append(q, x)[Len(q) + 1] = x
  OBVIOUS
<1>2. 1..(Len(q) + 1) = (1..Len(q)) \union {Len(q) + 1}
  OBVIOUS
<1>3. QED
  BY <1>1, <1>2

(* Popping a non-empty queue shifts it by one.                             *)
LEMMA PopFacts ==
  ASSUME NEW S, NEW q \in Seq(S), q # <<>>
  PROVE  /\ Len(q) \in Nat \ {0}
         /\ Head(q) = q[1]
         /\ Len(Tail(q)) = Len(q) - 1
         /\ \A i \in 1..Len(Tail(q)) : Tail(q)[i] = q[i + 1]
         /\ {q[i] : i \in 1..Len(q)} = {Tail(q)[i] : i \in 1..Len(Tail(q))} \union {Head(q)}
<1>1. /\ Len(q) \in Nat \ {0}
      /\ Head(q) = q[1]
      /\ Len(Tail(q)) = Len(q) - 1
      /\ \A i \in 1..Len(Tail(q)) : Tail(q)[i] = q[i + 1]
  OBVIOUS
<1>2. ASSUME NEW i \in 1..Len(q), i # 1
      PROVE  i - 1 \in 1..Len(Tail(q)) /\ Tail(q)[i - 1] = q[i]
  BY <1>1, <1>2
<1>3. ASSUME NEW i \in 1..Len(Tail(q)) PROVE i + 1 \in 1..Len(q) /\ Tail(q)[i] = q[i + 1]
  BY <1>1, <1>3
<1> DEFINE All == {q[i] : i \in 1..Len(q)}
           Rest == {Tail(q)[i] : i \in 1..Len(Tail(q))}
<1>4. All \subseteq Rest \union {Head(q)}
  BY <1>1, <1>2
<1>5. Rest \subseteq All
  BY <1>3
<1>6. Head(q) \in All
  BY <1>1
<1>7. QED
  BY <1>1, <1>4, <1>5, <1>6

PoolInv == TypeInv /\ NothingTwice /\ NothingLost

LEMMA PoolInvStep == PoolInv /\ [Next]_vars => PoolInv'
<1> SUFFICES ASSUME PoolInv, [Next]_vars PROVE PoolInv'
  OBVIOUS
<1>1. TypeInv /\ TypeInv' /\ idle \in Seq(Conns)
  BY TypeInvStep DEF PoolInv, TypeInv, TypeOK
<1> SUFFICES NothingTwice' /\ NothingLost'
  BY <1>1 DEF PoolInv
<1> USE DEF PoolInv, NothingTwice, NothingLost, IdleSet
<1>2. CASE /\ idle' = idle /\ created' = created
           /\ \A w \in Workers : conn'[w] = conn[w]
  <2>1. IdleSet' = IdleSet /\ Len(idle') = Len(idle)
    BY <1>2
  <2>2. NothingTwice'
    BY <1>2, <2>1
  <2>3. NothingLost'
    BY <1>2, <2>1
  <2>4. QED
    BY <2>2, <2>3
<1>3. ASSUME NEW c \in Conns, InitCreate(c) PROVE NothingTwice' /\ NothingLost'
  <2>1. /\ idle' = Append(idle, c) /\ created' = created \union {c} /\ conn' = conn
        /\ c \notin created
    BY <1>3 DEF InitCreate
  <2>2. IdleSet' = IdleSet \union {c} /\ c \notin IdleSet
    BY <1>1, <2>1, PushFacts
  <2>3. \A i, j \in 1..Len(idle') : idle'[i] = idle'[j] => i = j
    BY <1>1, <2>1, <2>2, PushFacts
  <2>4. \A w \in Workers : conn[w] # c
    BY <2>1
  <2>5. QED
    BY <2>1, <2>2, <2>3, <2>4
<1>4. ASSUME NEW w \in Workers, TakeIdle(w) PROVE NothingTwice' /\ NothingLost'
  <2> DEFINE h == Head(idle)
  <2>1. /\ idle' = Tail(idle) /\ created' = created /\ conn' = [conn EXCEPT ![w] = h]
        /\ idle # <<>> /\ conn[w] = NoConn
    BY <1>1, <1>4 DEF TakeIdle, TypeInv, HoldersHold, HolderPC
  <2>2. IdleSet = IdleSet' \union {h} /\ h \in Conns
    <3>1. IdleSet = {Tail(idle)[i] : i \in 1..Len(Tail(idle))} \union {h}
      BY <1>1, <2>1, PopFacts
    <3>2. h \in Conns
      BY <1>1, <2>1
    <3>3. QED
      BY <2>1, <3>1, <3>2
  <2>3. \A i, j \in 1..Len(idle') : idle'[i] = idle'[j] => i = j
    BY <1>1, <2>1, PopFacts
  <2>4. h \notin IdleSet'
    BY <1>1, <2>1, PopFacts
  <2>5. conn'[w] = h /\ \A v \in Workers \ {w} : conn'[v] = conn[v]
    BY <1>1, <2>1 DEF TypeInv, TypeOK, Threads
  <2>6. \A v \in Workers : conn[v] # h
    BY <2>2
  <2>7. NothingTwice'
    <3>1. ASSUME NEW v \in Workers PROVE conn'[v] \notin IdleSet'
      <4>1. conn[v] \notin IdleSet /\ IdleSet' \subseteq IdleSet
        BY <2>2
      <4>2. CASE v = w
        BY <4>2, <2>4, <2>5
      <4>3. CASE v # w
        BY <4>1, <4>3, <2>5
      <4>4. QED
        BY <4>2, <4>3
    <3>2. ASSUME NEW u \in Workers, NEW v \in Workers,
                 conn'[u] = conn'[v], conn'[u] # NoConn
          PROVE  u = v
      BY <2>5, <2>6, <3>2
    <3>3. QED
      BY <2>3, <3>1, <3>2
  <2>8. NothingLost'
    <3> SUFFICES ASSUME NEW c \in Conns
                 PROVE  c \in created <=> c \in IdleSet' \/ \E v \in Workers : conn'[v] = c
      BY <2>1 DEF IdleSet
    <3>1. c \in created <=> c \in IdleSet' \/ c = h \/ \E v \in Workers : conn[v] = c
      BY <2>2
    <3>2. (\E v \in Workers : conn'[v] = c) <=> c = h \/ \E v \in Workers : conn[v] = c
      BY <2>1, <2>5
    <3>3. QED
      BY <3>1, <3>2
  <2>9. QED
    BY <2>7, <2>8
<1>5. ASSUME NEW w \in Workers, GiveBack(w) PROVE NothingTwice' /\ NothingLost'
  <2> DEFINE c == conn[w]
  <2>1. /\ idle' = Append(idle, c) /\ created' = created /\ conn' = [conn EXCEPT ![w] = NoConn]
        /\ c \in Conns
    BY <1>1, <1>5 DEF GiveBack, TypeInv, TypeOK, Threads, HoldersHold, HolderPC, WorkerPC
  <2>2. IdleSet' = IdleSet \union {c} /\ c \notin IdleSet
    BY <1>1, <2>1, PushFacts
  <2>3. \A i, j \in 1..Len(idle') : idle'[i] = idle'[j] => i = j
    BY <1>1, <2>1, <2>2, PushFacts
  <2>4. conn'[w] = NoConn /\ \A v \in Workers \ {w} : conn'[v] = conn[v]
    BY <1>1, <2>1 DEF TypeInv, TypeOK, Threads
  <2>5. \A v \in Workers \ {w} : conn[v] # c
    BY <2>1
  <2>6. NoConn \notin IdleSet'
    BY <1>1, <2>1, <2>2
  <2>7. QED
    BY <2>1, <2>2, <2>3, <2>4, <2>5, <2>6
<1>6. QED
  BY <1>1, <1>2, <1>3, <1>4, <1>5, StepKinds

LEMMA PoolInvInit == Init => PoolInv
<1> SUFFICES ASSUME Init PROVE PoolInv
  OBVIOUS
<1>1. TypeInv
  BY InitTyped
<1>2. idle = <<>> /\ created = {} /\ \A w \in Workers : conn[w] = NoConn
  BY DEF Init, Threads
<1>3. QED
  BY <1>1, <1>2 DEF PoolInv, NothingTwice, NothingLost, IdleSet

(* Every connection ever opened is in the queue exactly once or held by    *)
(* exactly one worker, on every path through getConnection(), reconnect(), *)
(* executeQuery() and the deleter: none leaks, none is handed out twice.   *)
THEOREM ConnectionsConserved == Spec => []Conservation
<1>1. PoolInv => Conservation
  BY DEF PoolInv, TypeInv, Conservation
<1>2. QED
  BY <1>1, PoolInvInit, PoolInvStep, PTL DEF Spec

-----------------------------------------------------------------------------
(* No lost wake-up, and statements one at a time.                          *)

LiveInv == TypeInv /\ InitPhase /\ NoLostWakeup

(* A set of workers has a size, and one more worker makes it one larger.   *)
LEMMA WorkerSets ==
  ASSUME NEW S \in SUBSET Workers
  PROVE  /\ Cardinality(S) \in Nat
         /\ \A w \in Workers \ S : Cardinality(S \union {w}) = Cardinality(S) + 1
         /\ \A w \in S : Cardinality(S \ {w}) = Cardinality(S) - 1
<1>1. IsFiniteSet(S)
  BY FS_Subset
<1>2. QED
  BY <1>1, FS_CardinalityType, FS_AddElement, FS_RemoveElement

(* The steps that change nothing the wake-up invariant looks at: no worker *)
(* starts or stops waiting or entering, and the queue stays.               *)
Quiet == /\ idle' = idle /\ initialized' = initialized
         /\ mutex' = "init" => mutex = "init"
         /\ Waiting' = Waiting /\ Entering' = Entering

LEMMA LiveStepKinds ==
  ASSUME TypeInv, [Next]_vars
  PROVE  \/ Quiet
         \/ InitBegin \/ InitDone \/ \E c \in Conns : InitCreate(c)
         \/ \E w \in Workers : Call(w) \/ SpuriousWakeup(w) \/ GetConnection(w) \/ GiveBack(w)
<1> USE DEF poolVars, connVars, Waiting, Entering, Quiet
<1>1. CASE InitStep
  BY <1>1 DEF InitStep, InitThrow
<1>2. ASSUME NEW w \in Workers,
             WorkerStep(w), ~Call(w), ~SpuriousWakeup(w), ~GetConnection(w), ~GiveBack(w)
      PROVE  Quiet
  <2> USE DEF TypeInv, TypeOK, Threads
  <2>1. CASE Ping(w)
    BY <2>1 DEF Ping
  <2>2. CASE CloseOld(w)
    BY <2>2 DEF CloseOld
  <2>3. CASE OpenNew(w)
    BY <2>3 DEF OpenNew
  <2>4. CASE BeginStatement(w)
    BY <2>4 DEF BeginStatement
  <2>5. CASE OpenForStatement(w)
    BY <2>5 DEF OpenForStatement
  <2>6. CASE EndStatement(w)
    BY <2>6 DEF EndStatement
  <2>7. QED
    BY <1>2, <2>1, <2>2, <2>3, <2>4, <2>5, <2>6 DEF WorkerStep, GoOn
<1>3. CASE CheckerStep
  <2> SUFFICES /\ idle' = idle /\ initialized' = initialized
               /\ mutex' = "init" => mutex = "init"
               /\ \A w \in Workers : pc'[w] = pc[w]
    OBVIOUS
  <2> USE DEF TypeInv, TypeOK, Threads
  <2>1. CASE SleepInsideLock \/ LeaveLock
    BY <2>1 DEF SleepInsideLock, LeaveLock
  <2>2. CASE CopyQueue \/ SleepOutside \/ WakeUp
    BY <2>2 DEF CopyQueue, SleepOutside, WakeUp
  <2>3. CASE CheckNext
    BY <2>3 DEF CheckNext
  <2>4. CASE CloseOld(Checker) \/ CheckerOpenNew
    BY <2>4 DEF CloseOld, CheckerOpenNew
  <2>5. QED
    BY <1>3, <2>1, <2>2, <2>3, <2>4 DEF CheckerStep
<1>4. ASSUME NEW c \in Conns, LinkDrops(c) PROVE Quiet
  BY <1>4 DEF LinkDrops
<1>5. CASE UNCHANGED vars
  BY <1>5 DEF vars
<1>6. QED
  BY <1>1, <1>2, <1>3, <1>4, <1>5 DEF Next

LEMMA LiveInvStep == LiveInv /\ [Next]_vars => LiveInv'
<1> SUFFICES ASSUME LiveInv, [Next]_vars PROVE LiveInv'
  OBVIOUS
<1>1. TypeInv /\ TypeInv' /\ idle \in Seq(Conns) /\ Len(idle) \in Nat
  BY TypeInvStep DEF LiveInv, TypeInv, TypeOK
<1>2. /\ Waiting \in SUBSET Workers /\ Entering \in SUBSET Workers
      /\ Cardinality(Entering) \in Nat
  BY WorkerSets DEF Waiting, Entering
<1> SUFFICES InitPhase' /\ NoLostWakeup'
  BY <1>1 DEF LiveInv
<1> USE DEF LiveInv, InitPhase, NoLostWakeup
<1>3. CASE Quiet
  BY <1>3 DEF Quiet
<1>4. CASE InitBegin \/ InitDone
  BY <1>4 DEF InitBegin, InitDone, Waiting, Entering
<1>5. ASSUME NEW c \in Conns, InitCreate(c) PROVE InitPhase' /\ NoLostWakeup'
  BY <1>5 DEF InitCreate, Waiting
<1>6. ASSUME NEW w \in Workers, Call(w) \/ SpuriousWakeup(w) PROVE InitPhase' /\ NoLostWakeup'
  <2>1. /\ Waiting' \subseteq Waiting /\ Entering' = Entering \union {w} /\ w \notin Entering
        /\ UNCHANGED poolVars
    BY <1>1, <1>6 DEF Call, SpuriousWakeup, Waiting, Entering, TypeInv, TypeOK, Threads
  <2>2. Cardinality(Entering') = Cardinality(Entering) + 1
    BY <1>2, <2>1, WorkerSets
  <2>3. QED
    BY <1>1, <1>2, <2>1, <2>2 DEF poolVars
<1>7. ASSUME NEW w \in Workers, TakeIdle(w) PROVE InitPhase' /\ NoLostWakeup'
  <2>1. /\ Waiting' = Waiting /\ Entering' = Entering \ {w} /\ w \in Entering
        /\ UNCHANGED <<mutex, initialized>> /\ idle' = Tail(idle) /\ idle # <<>>
    BY <1>1, <1>7 DEF TakeIdle, Waiting, Entering, TypeInv, TypeOK, Threads
  <2>2. Cardinality(Entering') = Cardinality(Entering) - 1
    BY <1>2, <2>1, WorkerSets
  <2>3. Len(idle') = Len(idle) - 1
    BY <1>1, <2>1, PopFacts
  <2>4. QED
    BY <1>1, <1>2, <2>1, <2>2, <2>3
<1>8. ASSUME NEW w \in Workers, ThrowUninitialized(w) \/ Wait(w)
      PROVE  InitPhase' /\ NoLostWakeup'
  <2>1. /\ UNCHANGED poolVars /\ Len(idle) = 0 /\ Entering' \in SUBSET Workers
        /\ Waiting' # {} => initialized
    BY <1>1, <1>8 DEF ThrowUninitialized, Wait, Waiting, Entering, TypeInv, TypeOK, Threads
  <2>2. Cardinality(Entering') \in Nat
    BY <2>1, WorkerSets
  <2>3. QED
    BY <1>1, <2>1, <2>2 DEF poolVars
<1>9. ASSUME NEW w \in Workers, GiveBack(w) PROVE InitPhase' /\ NoLostWakeup'
  <2>1. /\ UNCHANGED <<mutex, initialized>> /\ idle' = Append(idle, conn[w])
        /\ pc[w] = "returning" /\ conn[w] \in Conns
    BY <1>1, <1>9 DEF GiveBack, TypeInv, TypeOK, Threads, HoldersHold, HolderPC, WorkerPC
  <2>2. Len(idle') = Len(idle) + 1
    BY <1>1, <2>1, PushFacts
  <2>3. CASE Waiting = {}
    <3>1. Waiting' = {}
      BY <1>1, <1>9, <2>3 DEF GiveBack, MoveAndNotifyOne, Waiting, TypeInv, TypeOK, Threads
    <3>2. QED
      BY <2>1, <3>1
  <2>4. CASE Waiting # {}
    <3>1. PICK woken \in Waiting : pc' = [pc EXCEPT ![w] = "out", ![woken] = "entering"]
      BY <1>9, <2>4 DEF GiveBack, MoveAndNotifyOne
    <3>2. woken \in Workers /\ woken \notin Entering /\ woken # w
      BY <2>1, <3>1 DEF Waiting, Entering
    <3>3. Entering' = Entering \union {woken}
      BY <1>1, <2>1, <3>1, <3>2 DEF Entering, TypeInv, TypeOK, Threads
    <3>4. Cardinality(Entering') = Cardinality(Entering) + 1
      BY <1>2, <3>2, <3>3, WorkerSets
    <3>5. QED
      BY <1>1, <1>2, <2>1, <2>2, <2>4, <3>4
  <2>5. QED
    BY <2>3, <2>4
<1>10. QED
  BY <1>1, <1>3, <1>4, <1>5, <1>6, <1>7, <1>8, <1>9, LiveStepKinds DEF GetConnection

(* While some thread sleeps in cv_.wait(), there are at least as many      *)
(* threads awake in getConnection() as idle connections: a notify_one() is *)
(* never wasted, so a thread cannot sleep next to a connection nobody takes. *)
THEOREM NoWakeupLost == Spec => []NoLostWakeup
<1>1. Init => LiveInv
  <2> SUFFICES ASSUME Init PROVE LiveInv
    OBVIOUS
  <2>1. TypeInv
    BY InitTyped
  <2>2. mutex = "free" /\ Waiting = {}
    BY DEF Init, Threads, Waiting
  <2>3. QED
    BY <2>1, <2>2 DEF LiveInv, InitPhase, NoLostWakeup
<1>2. LiveInv => NoLostWakeup
  BY DEF LiveInv
<1>3. QED
  BY <1>1, <1>2, LiveInvStep, PTL DEF Spec

-----------------------------------------------------------------------------
(* Statements on one connection exclude each other.                        *)

LEMMA SerialisedStep == TypeInv /\ StatementsSerialised /\ [Next]_vars => StatementsSerialised'
<1> SUFFICES ASSUME TypeInv, StatementsSerialised, [Next]_vars,
                    NEW v \in Workers, NEW d \in Conns
             PROVE  (busy'[d] = v) <=> (pc'[v] \in StatementPC /\ conn'[v] = d)
  BY DEF StatementsSerialised
<1> DEFINE Goal == (busy'[d] = v) <=> (pc'[v] \in StatementPC /\ conn'[v] = d)
<1>1. (busy[d] = v) <=> (pc[v] \in StatementPC /\ conn[v] = d)
  BY DEF StatementsSerialised
<1> USE DEF poolVars, connVars, StatementPC
<1>2. CASE InitStep
  BY <1>1, <1>2 DEF InitStep, InitBegin, InitCreate, InitThrow, InitDone
<1>3. ASSUME NEW w \in Workers, WorkerStep(w) PROVE Goal
  <2> USE <1>1 DEF TypeInv, TypeOK, Threads
  <2>1. CASE Call(w) \/ SpuriousWakeup(w)
    BY <2>1 DEF Call, SpuriousWakeup
  <2>2. CASE TakeIdle(w)
    BY <2>2 DEF TakeIdle
  <2>3. CASE ThrowUninitialized(w) \/ Wait(w)
    BY <2>3 DEF ThrowUninitialized, Wait
  <2>4. CASE Ping(w)
    BY <2>4 DEF Ping
  <2>5. CASE CloseOld(w) \/ OpenNew(w)
    BY <2>5 DEF CloseOld, OpenNew
  <2>6. CASE BeginStatement(w)
    <3>1. /\ pc[w] = "holding" /\ conn[w] \in Conns /\ busy[conn[w]] = NoThread
          /\ busy' = [busy EXCEPT ![conn[w]] = w] /\ conn' = conn
          /\ pc'[w] \in StatementPC
          /\ \A u \in Workers \ {w} : pc'[u] = pc[u]
      BY <2>6 DEF BeginStatement, HoldersHold, HolderPC, WorkerPC
    <3>2. QED
      BY <3>1
  <2>7. CASE OpenForStatement(w)
    <3>1. pc[w] \in StatementPC /\ conn[w] \in Conns
      BY <2>7 DEF OpenForStatement, HoldersHold, HolderPC, WorkerPC
    <3>2. busy[conn[w]] = w
      BY <3>1 DEF StatementsSerialised
    <3>3. QED
      BY <2>7, <3>1, <3>2 DEF OpenForStatement
  <2>8. CASE EndStatement(w)
    <3>1. pc[w] \in StatementPC /\ conn[w] \in Conns
      BY <2>8 DEF EndStatement, HoldersHold, HolderPC, WorkerPC
    <3>2. busy[conn[w]] = w
      BY <3>1 DEF StatementsSerialised
    <3>3. QED
      BY <2>8, <3>1, <3>2 DEF EndStatement
  <2>9. CASE GiveBack(w)
    <3>1. /\ busy' = busy /\ conn' = [conn EXCEPT ![w] = NoConn] /\ pc[w] = "returning"
          /\ \A u \in Workers : (pc'[u] \in StatementPC) <=> (pc[u] \in StatementPC)
      BY <2>9 DEF GiveBack, MoveAndNotifyOne, Waiting
    <3>2. QED
      BY <3>1
  <2>10. QED
    BY <1>3, <2>1, <2>2, <2>3, <2>4, <2>5, <2>6, <2>7, <2>8, <2>9 DEF WorkerStep, GoOn, GetConnection
<1>4. CASE CheckerStep
  <2>1. busy' = busy /\ pc'[v] = pc[v] /\ conn'[v] = conn[v]
    <3> USE DEF TypeInv, TypeOK, Threads
    <3>1. CASE SleepInsideLock \/ LeaveLock \/ CopyQueue \/ SleepOutside \/ WakeUp
      BY <3>1 DEF SleepInsideLock, LeaveLock, CopyQueue, SleepOutside, WakeUp
    <3>2. CASE CheckNext
      BY <3>2 DEF CheckNext
    <3>3. CASE CloseOld(Checker) \/ CheckerOpenNew
      BY <3>3 DEF CloseOld, CheckerOpenNew
    <3>4. QED
      BY <1>4, <3>1, <3>2, <3>3 DEF CheckerStep
  <2>2. QED
    BY <1>1, <2>1
<1>5. ASSUME NEW c \in Conns, LinkDrops(c) PROVE Goal
  BY <1>1, <1>5 DEF LinkDrops
<1>6. CASE UNCHANGED vars
  BY <1>1, <1>6 DEF vars
<1>7. QED
  BY <1>2, <1>3, <1>4, <1>5, <1>6 DEF Next

(* The connection's own mutex_ is held by exactly the worker that runs a   *)
(* statement on it, so no two statements ever run on one MySQL connection. *)
THEOREM StatementsExclude == Spec => []StatementsSerialised
<1>1. Init => StatementsSerialised
  BY DEF Init, StatementsSerialised, StatementPC, Threads
<1>2. QED
  BY <1>1, InitTyped, TypeInvStep, SerialisedStep, PTL DEF Spec

-----------------------------------------------------------------------------
(* The pool implements the abstract ResourcePool.                          *)

(* The refinement mapping sees the one worker that holds a connection.     *)
LEMMA OwnerFacts ==
  ASSUME PoolInv, NEW c \in Conns
  PROVE  /\ \A w \in Workers : conn[w] = c => OwnerOf(c) = w
         /\ (\A w \in Workers : conn[w] # c) => OwnerOf(c) = NoThread
BY DEF PoolInv, NothingTwice, OwnerOf

(* Every step of the pool is a step of the abstract pool or leaves it      *)
(* alone: init() adds a free connection, getConnection() hands a free one  *)
(* to a caller that has none, the deleter and the catch block free it.     *)
LEMMA StepSimulation == PoolInv /\ [Next]_vars => [Abstract!Next]_(Abstract!vars)
<1> SUFFICES ASSUME PoolInv, [Next]_vars PROVE [Abstract!Next]_(Abstract!vars)
  OBVIOUS
<1> DEFINE owner == [c \in Conns |-> OwnerOf(c)]
<1>1. PoolInv'
  BY PoolInvStep
<1>2. \A c \in Conns : /\ \A w \in Workers : conn[w] = c => OwnerOf(c) = w
                       /\ (\A w \in Workers : conn[w] # c) => OwnerOf(c) = NoThread
  BY OwnerFacts
<1>3. \A c \in Conns : /\ \A w \in Workers : conn'[w] = c => OwnerOf(c)' = w
                       /\ (\A w \in Workers : conn'[w] # c) => OwnerOf(c)' = NoThread
  BY <1>1 DEF PoolInv, NothingTwice, OwnerOf
<1>4. CASE /\ idle' = idle /\ created' = created
           /\ \A w \in Workers : conn'[w] = conn[w]
  <2>1. \A c \in Conns : OwnerOf(c)' = OwnerOf(c)
    BY <1>2, <1>3, <1>4
  <2>2. QED
    BY <1>4, <2>1 DEF Abstract!vars
<1>5. ASSUME NEW c \in Conns, InitCreate(c) PROVE Abstract!Add(c)
  <2>1. created' = created \union {c} /\ c \notin created /\ conn' = conn
    BY <1>5 DEF InitCreate
  <2>2. owner' = owner
    BY <2>1 DEF OwnerOf
  <2>3. QED
    BY <2>1, <2>2 DEF Abstract!Add
<1>6. ASSUME NEW w \in Workers, TakeIdle(w) PROVE \E h \in Conns : Abstract!Acquire(w, h)
  <2>0. PICK h \in Conns : h = Head(idle)
    BY <1>6 DEF TakeIdle, PoolInv, TypeInv, TypeOK
  <2>1. /\ idle # <<>> /\ idle \in Seq(Conns) /\ created' = created /\ conn[w] = NoConn
        /\ conn'[w] = h /\ \A v \in Workers \ {w} : conn'[v] = conn[v]
    BY <1>6, <2>0 DEF TakeIdle, PoolInv, TypeInv, TypeOK, Threads, HoldersHold, HolderPC
  <2>2. h \in IdleSet
    BY <2>0, <2>1, PopFacts DEF IdleSet
  <2>3. h \in created /\ \A v \in Workers : conn[v] # h
    BY <2>2 DEF PoolInv, NothingTwice, NothingLost
  <2>4. OwnerOf(h) = NoThread /\ OwnerOf(h)' = w
    BY <1>2, <1>3, <2>1, <2>2, <2>3
  <2>5. \A c \in Conns \ {h} : OwnerOf(c)' = OwnerOf(c)
    <3> SUFFICES ASSUME NEW c \in Conns, c # h PROVE OwnerOf(c)' = OwnerOf(c)
      OBVIOUS
    <3>1. \A v \in Workers : (conn'[v] = c) <=> (conn[v] = c)
      BY <2>1
    <3>2. QED
      BY <1>2, <1>3, <3>1
  <2>6. \A c \in Conns : OwnerOf(c) # w
    <3> SUFFICES ASSUME NEW c \in Conns PROVE OwnerOf(c) # w
      OBVIOUS
    <3>1. CASE \E v \in Workers : conn[v] = c
      <4>1. PICK v \in Workers : conn[v] = c
        BY <3>1
      <4>2. QED
        BY <1>2, <2>1, <4>1
    <3>2. CASE \A v \in Workers : conn[v] # c
      BY <1>2, <3>2
    <3>3. QED
      BY <3>1, <3>2
  <2>7. owner' = [owner EXCEPT ![h] = w]
    BY <2>2, <2>4, <2>5
  <2>8. QED
    BY <2>1, <2>2, <2>3, <2>4, <2>6, <2>7 DEF Abstract!Acquire, Abstract!Free
<1>7. ASSUME NEW w \in Workers, GiveBack(w) PROVE \E c \in Conns : Abstract!GiveBack(w, c)
  <2>0. PICK c \in Conns : c = conn[w]
    BY <1>7 DEF GiveBack, PoolInv, TypeInv, TypeOK, Threads, HoldersHold, HolderPC, WorkerPC
  <2>1. /\ conn[w] = c /\ created' = created
        /\ conn'[w] = NoConn /\ \A v \in Workers \ {w} : conn'[v] = conn[v]
    BY <1>7, <2>0 DEF GiveBack, PoolInv, TypeInv, TypeOK, Threads
  <2>2. \A v \in Workers \ {w} : conn[v] # c
    BY <2>1 DEF PoolInv, NothingTwice
  <2>3. OwnerOf(c) = w /\ OwnerOf(c)' = NoThread
    BY <1>2, <1>3, <2>1, <2>2
  <2>4. \A d \in Conns \ {c} : OwnerOf(d)' = OwnerOf(d)
    <3> SUFFICES ASSUME NEW d \in Conns, d # c PROVE OwnerOf(d)' = OwnerOf(d)
      OBVIOUS
    <3>1. \A v \in Workers : (conn'[v] = d) <=> (conn[v] = d)
      BY <2>1
    <3>2. QED
      BY <1>2, <1>3, <3>1
  <2>5. owner' = [owner EXCEPT ![c] = NoThread]
    BY <2>1, <2>3, <2>4
  <2>6. QED
    BY <2>1, <2>3, <2>5 DEF Abstract!GiveBack
<1>8. ASSUME NEW w \in Workers, TakeIdle(w) \/ GiveBack(w) PROVE Abstract!Next
  BY <1>6, <1>7, <1>8 DEF Abstract!Next
<1>9. QED
  BY <1>4, <1>5, <1>8, StepKinds DEF Abstract!Next, PoolInv

(* DbConnectionPool implements ResourcePool: seen from outside, for every  *)
(* number of threads, it is a set of connections of which each is free or  *)
(* owned by one worker, whatever the checker, the links and init() do.     *)
THEOREM ImplementsPool == Spec => ImplementsResourcePool
<1>1. Init => Abstract!Init
  <2> SUFFICES ASSUME Init PROVE Abstract!Init
    OBVIOUS
  <2>1. \A w \in Workers : conn[w] = NoConn
    BY DEF Init, Threads
  <2>2. \A c \in Conns : OwnerOf(c) = NoThread
    BY <2>1 DEF OwnerOf
  <2>3. QED
    BY <2>2 DEF Init, Abstract!Init
<1>2. QED
  BY <1>1, PoolInvInit, PoolInvStep, StepSimulation, PTL
     DEF Spec, ImplementsResourcePool, Abstract!SafeSpec
=============================================================================
