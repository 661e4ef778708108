----------------------------- MODULE MessageLog -----------------------------
(***************************************************************************)
(* What the queue of statements promises the chat: a message that was      *)
(* published is stored at least once, unless it is lost, and then it is    *)
(* never stored.  MessageQueue implements it, ChatService builds on it.    *)
(***************************************************************************)
EXTENDS Naturals

CONSTANT Messages

VARIABLES published, \* what was given to MQManager::publish
          lost,      \* what will never be stored
          copies     \* how many rows each message has

logVars == <<published, lost, copies>>

LogInit == /\ published = {}
           /\ lost = {}
           /\ copies = [m \in Messages |-> 0]

Pending == {m \in published \ lost : copies[m] = 0}

Publish(m) == /\ m \notin published
              /\ published' = published \union {m}
              /\ UNCHANGED <<lost, copies>>

Lose(ms) == /\ ms \subseteq Pending
            /\ lost' = lost \union ms
            /\ UNCHANGED <<published, copies>>

Store(m) == /\ m \in published \ lost
            /\ copies' = [copies EXCEPT ![m] = @ + 1]
            /\ UNCHANGED <<published, lost>>

StoreFirst(m) == copies[m] = 0 /\ Store(m)

LogNext == \/ \E m \in Messages : Publish(m) \/ Store(m)
           \/ \E ms \in SUBSET Pending : Lose(ms)

LogSafety == LogInit /\ [][LogNext]_logVars
LogSpec == LogSafety /\ \A m \in Messages : WF_logVars(StoreFirst(m))
=============================================================================
