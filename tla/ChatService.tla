---------------------------- MODULE ChatService ----------------------------
(***************************************************************************)
(* The conversations: ChatSendHandler, ChatCreateAndSendHandler and        *)
(* AIHelper::chat on several threads, and the restart that rebuilds the    *)
(* conversations from the table.  What lies between, the queue and its     *)
(* workers, is the log that MessageQueue implements.                       *)
(*                                                                         *)
(* One user's conversations: those of different users share nothing but    *)
(* the queue.  A request is a number; its question and its answer are the  *)
(* messages.  AIHelper has no lock: the steps of two requests of one       *)
(* conversation interleave.  What two accesses to its vector at the same   *)
(* instant may do beyond that is not modelled.                             *)
(***************************************************************************)
EXTENDS Integers, Sequences, FiniteSets

CONSTANTS Threads, Convs,
          Registered,  \* the names StrategyFactory knows
          McpModels,   \* those whose strategy has isMCPModel
          ModelTypes,  \* what requests ask for
          Default,     \* what AIHelper's constructor asks for
          MaxRequests, \* bounds the requests
          MaxCopies,   \* bounds the rows of one message
          MaxRestarts  \* bounds the deaths of the process

ASSUME ChatAssumption == /\ IsFiniteSet(Threads)
                         /\ MaxRequests \in Nat /\ MaxCopies \in Nat \ {0} /\ MaxRestarts \in Nat

Requests == 1..MaxRequests
Roles == {"question", "answer"}
Message(r, role) == [request |-> r, role |-> role]
Prompt(r) == Message(r, "prompt")
Utterances == {Message(r, role) : r \in Requests, role \in Roles}

VARIABLES
  running,   \* the process runs
  restarts,  \* how often it died
  requests,  \* how many there were
  convOf,    \* the conversation of each request
  helpers,   \* chatInformation: the conversations that have an AIHelper
  listed,    \* sessionsIdsMap
  messages,  \* of each AIHelper
  strategy,  \* of each AIHelper: the model it uses
  pc, req,   \* of each thread: its next step and its request
  fresh,     \* of each thread: what its last call to the model returned
  sent, dropped, stored, \* what the queue was given, will never store, and the rows of each message
  failed,    \* the messages whose publish() threw (history)
  log,       \* the messages in the order of their time stamps (history)
  twins,     \* requests whose two messages may have one time stamp (history)
  disturbed  \* conversations in which the alternation may be broken (history)

Queue == INSTANCE MessageLog
           WITH Messages <- Utterances, published <- sent, lost <- dropped, copies <- stored

queueVars == <<sent, dropped, stored>>
serverVars == <<running, restarts, requests, convOf, helpers, listed, messages, strategy, pc, req,
                fresh, failed, log, twins, disturbed>>
chatVars == <<queueVars, serverVars>>

Conv(t) == convOf[req[t]]
At(t, step) == pc[t] = step
Goto(t, step) == pc' = [pc EXCEPT ![t] = step]
Busy(c) == \E t \in Threads : pc[t] # "idle" /\ Conv(t) = c

ChatInit == /\ Queue!LogInit
            /\ running = FALSE /\ restarts = 0 /\ requests = 0
            /\ convOf = <<>>
            /\ helpers = {} /\ listed = {}
            /\ messages = [c \in Convs |-> <<>>]
            /\ strategy = [c \in Convs |-> Default]
            /\ pc = [t \in Threads |-> "idle"]
            /\ req = [t \in Threads |-> 0]
            /\ fresh = [t \in Threads |-> "none"]
            /\ failed = {} /\ log = <<>> /\ twins = {} /\ disturbed = {}

-----------------------------------------------------------------------------
\* The sequence s, each element as often as times says.
Repeated(s, times) ==
  LET upTo[n \in 0..Len(s)] ==
        IF n = 0 THEN <<>> ELSE upTo[n - 1] \o [k \in 1..times[s[n]] |-> s[n]]
  IN  upTo[Len(s)]

Belongs(m, c) == m.request \in 1..requests /\ convOf[m.request] = c

\* Mutant: the rows are not told apart by session_id.
RestoredAll(c, swapped) == Repeated(log, stored)

(* ChatServer::readDataFromMySQL: the rows in the order of their time      *)
(* stamps, equal ones in either order; a query that fails restores nothing.*)
Restored(c, swapped) ==
  LET Twin(m) == Message(m.request, IF m.role = "question" THEN "answer" ELSE "question")
      order == [i \in DOMAIN log |-> IF log[i].request \in swapped THEN Twin(log[i]) ELSE log[i]]
  IN  Repeated(order, [m \in Utterances |-> IF Belongs(m, c) THEN stored[m] ELSE 0])

\* All that was said in c has one row, and its order can be told.
Settled(c) == \A i \in DOMAIN log : Belongs(log[i], c) =>
                stored[log[i]] = 1 /\ log[i].request \notin twins

\* main: the conversations are restored, the workers started, and requests are served.
ServerStarts ==
  /\ ~running
  /\ running' = TRUE
  /\ \/ /\ \E swapped \in SUBSET twins :
            messages' = [c \in Convs |-> Restored(c, swapped)]
        /\ disturbed' = disturbed \union {c \in Convs : ~Settled(c)}
     \/ /\ messages' = [c \in Convs |-> <<>>]
        /\ disturbed' = disturbed \union {convOf[r] : r \in 1..requests}
  /\ helpers' = {c \in Convs : messages'[c] # <<>>}
  /\ helpers' # {} => Default \in Registered
  /\ listed' = helpers'
  /\ UNCHANGED <<queueVars, strategy, restarts, requests, convOf, pc, req, fresh, failed, log, twins>>

\* The process dies, and some of what it had not yet handed to the broker with it.
ServerDies ==
  /\ running
  /\ restarts < MaxRestarts
  /\ restarts' = restarts + 1
  /\ running' = FALSE
  /\ helpers' = {} /\ listed' = {}
  /\ messages' = [c \in Convs |-> <<>>]
  /\ strategy' = [c \in Convs |-> Default]
  /\ pc' = [t \in Threads |-> "idle"]
  /\ req' = [t \in Threads |-> 0]
  /\ fresh' = [t \in Threads |-> "none"]
  /\ disturbed' = disturbed \union {c \in Convs : Busy(c)}
  /\ UNCHANGED <<queueVars, requests, convOf, failed, log, twins>>

\* The workers and the broker: rows are inserted, or a message is lost on its way.
QueueStep == /\ \/ \E m \in Utterances : stored[m] < MaxCopies /\ Queue!Store(m)
                \/ \E m \in Queue!Pending : Queue!Lose({m})
             /\ UNCHANGED serverVars

-----------------------------------------------------------------------------
(* The two handlers find or make the AIHelper under one mutex, and differ  *)
(* in that only ChatCreateAndSend enters the conversation into the list.   *)
(* Its id is a clock reading and a random number: it may be in use.        *)
BeginChat(t, c, list) ==
  /\ running /\ At(t, "idle")
  /\ requests < MaxRequests
  /\ requests' = requests + 1
  /\ convOf' = Append(convOf, c)
  /\ \/ /\ c \in helpers \/ Default \in Registered
        /\ helpers' = helpers \union {c}
        /\ listed' = IF list /\ c \notin helpers THEN listed \union {c} ELSE listed
        /\ Goto(t, "strategy")
        /\ req' = [req EXCEPT ![t] = requests + 1]
     \/ /\ c \notin helpers /\ Default \notin Registered
        /\ UNCHANGED <<helpers, listed, pc, req>>
  /\ disturbed' = IF Busy(c) THEN disturbed \union {c} ELSE disturbed
  /\ UNCHANGED <<queueVars, running, restarts, messages, strategy, fresh, failed, log, twins>>

ChatSend(t, c) == BeginChat(t, c, FALSE)
ChatCreateAndSend(t, c) == BeginChat(t, c, TRUE)

unchangedByThread == <<running, restarts, requests, convOf, helpers, listed>>

\* StrategyFactory::create and setStrategy; an empty question or an unknown model ends the request.
SetStrategy(t, model) ==
  /\ At(t, "strategy")
  /\ \/ /\ model \in Registered
        /\ strategy' = [strategy EXCEPT ![Conv(t)] = model]
        /\ Goto(t, "branch")
     \/ /\ Goto(t, "idle")
        /\ UNCHANGED strategy
  /\ UNCHANGED <<queueVars, unchangedByThread, messages, req, fresh, failed, log, twins, disturbed>>

(* strategy->isMCPModel, of whichever request set the strategy last; on the *)
(* MCP path a configuration that cannot be read ends the request.          *)
Branch(t) ==
  /\ At(t, "branch")
  /\ \/ strategy[Conv(t)] \notin McpModels /\ Goto(t, "question")
     \/ strategy[Conv(t)] \in McpModels /\ (Goto(t, "prompt") \/ Goto(t, "idle"))
  /\ fresh' = [fresh EXCEPT ![t] = "none"]
  /\ UNCHANGED <<queueVars, unchangedByThread, messages, strategy, req, failed, log, twins, disturbed>>

-----------------------------------------------------------------------------
(* addMessage: the message is appended, then published.                    *)
Append1(t, role, next) ==
  LET m == Message(req[t], role)
  IN  /\ messages' = [messages EXCEPT ![Conv(t)] = Append(@, m)]
      /\ log' = Append(log, m)
      /\ Goto(t, next)
      /\ UNCHANGED <<queueVars, unchangedByThread, strategy, req, fresh, failed, disturbed>>

AddQuestion(t) == /\ At(t, "question")
                  /\ Append1(t, "question", "publishQuestion")
                  /\ UNCHANGED twins

AddAnswer(t) == /\ At(t, "answer")
                /\ Append1(t, "answer", "publishAnswer")
                /\ twins' = IF fresh[t] = "kept" THEN twins \union {req[t]} ELSE twins

Disturb(t) == disturbed' = disturbed \union {Conv(t)}

\* An exception of MQManager::instance or publish: the broker may have the message even so.
PublishThrows(m) == /\ failed' = failed \union {m}
                    /\ Queue!Publish(m) \/ UNCHANGED queueVars

\* A plain model is asked now; an answer that is there already is added, unless it is empty.
AfterQuestion(t) ==
  Goto(t, CASE fresh[t] = "none" -> "ask" [] fresh[t] = "kept" -> "answer" [] OTHER -> "idle")

\* Mutant: an exception of publish() is swallowed, and the request goes on.
PublishQuestionQuietly(t) ==
  /\ At(t, "publishQuestion")
  /\ \/ Queue!Publish(Message(req[t], "question")) /\ UNCHANGED failed
     \/ PublishThrows(Message(req[t], "question"))
  /\ AfterQuestion(t)
  /\ UNCHANGED <<unchangedByThread, messages, strategy, req, fresh, log, twins, disturbed>>

\* The end of addMessage; an exception ends the request, whose question has been appended.
PublishQuestion(t) ==
  /\ At(t, "publishQuestion")
  /\ \/ /\ Queue!Publish(Message(req[t], "question"))
        /\ AfterQuestion(t)
        /\ UNCHANGED <<failed, disturbed>>
     \/ /\ PublishThrows(Message(req[t], "question"))
        /\ Goto(t, "idle")
        /\ Disturb(t)
  /\ UNCHANGED <<unchangedByThread, messages, strategy, req, fresh, log, twins>>

\* The same: the client is told of an error, and the conversation has the answer.
PublishAnswer(t) ==
  /\ At(t, "publishAnswer")
  /\ \/ Queue!Publish(Message(req[t], "answer")) /\ UNCHANGED failed
     \/ PublishThrows(Message(req[t], "answer"))
  /\ Goto(t, "idle")
  /\ UNCHANGED <<unchangedByThread, messages, strategy, req, fresh, log, twins, disturbed>>

\* executeCurl and parseResponse for a plain model: a text, an empty one, or an exception.
Ask(t) ==
  /\ At(t, "ask")
  /\ \/ Goto(t, "answer") /\ UNCHANGED disturbed
     \/ Goto(t, "idle") /\ Disturb(t)
  /\ UNCHANGED <<queueVars, unchangedByThread, messages, strategy, req, fresh, failed, log, twins>>

-----------------------------------------------------------------------------
(* The MCP path: a prompt is appended for the call and popped after it,    *)
(* once to learn whether a tool is wanted and, if so, once with its result.*)
(* An exception of a call leaves the prompt; one of a tool is the answer.  *)
PushPrompt(t) ==
  /\ pc[t] \in {"prompt", "secondPrompt"}
  /\ messages' = [messages EXCEPT ![Conv(t)] = Append(@, Prompt(req[t]))]
  /\ Goto(t, IF At(t, "prompt") THEN "firstAsk" ELSE "secondAsk")
  /\ UNCHANGED <<queueVars, unchangedByThread, strategy, req, fresh, failed, log, twins, disturbed>>

AskWithPrompt(t) ==
  /\ pc[t] \in {"firstAsk", "secondAsk"}
  /\ \/ /\ \E answer \in {"kept", "empty"} \union (IF At(t, "firstAsk") THEN {"tool"} ELSE {}) :
             fresh' = [fresh EXCEPT ![t] = answer]
        /\ Goto(t, "pop")
        /\ UNCHANGED disturbed
     \/ /\ Goto(t, "idle")
        /\ Disturb(t)
        /\ UNCHANGED fresh
  /\ UNCHANGED <<queueVars, unchangedByThread, messages, strategy, req, failed, log, twins>>

\* Mutant: the prompt stays.
PopPromptForgotten(t) ==
  /\ At(t, "pop")
  /\ \/ fresh[t] = "tool" /\ Goto(t, "secondPrompt") /\ UNCHANGED disturbed
     \/ fresh[t] = "kept" /\ Goto(t, "question") /\ UNCHANGED disturbed
     \/ fresh[t] = "empty" /\ Goto(t, "question") /\ Disturb(t)
  /\ UNCHANGED <<queueVars, unchangedByThread, messages, strategy, req, fresh, failed, log, twins>>

PopPrompt(t) ==
  /\ At(t, "pop")
  /\ messages' = [messages EXCEPT ![Conv(t)] = SubSeq(@, 1, Len(@) - 1)]
  /\ \/ fresh[t] = "tool" /\ Goto(t, "secondPrompt") /\ UNCHANGED <<fresh, disturbed>>
     \/ fresh[t] = "tool" /\ Goto(t, "question") /\ fresh' = [fresh EXCEPT ![t] = "kept"]
                           /\ UNCHANGED disturbed
     \/ fresh[t] = "kept" /\ Goto(t, "question") /\ UNCHANGED <<fresh, disturbed>>
     \/ fresh[t] = "empty" /\ Goto(t, "question") /\ Disturb(t) /\ UNCHANGED fresh
  /\ UNCHANGED <<queueVars, unchangedByThread, strategy, req, failed, log, twins>>

-----------------------------------------------------------------------------
\* ChatHistoryHandler looks, and makes an AIHelper where there is none; the list only looks.
ChatHistory(c) ==
  /\ running
  /\ Default \in Registered
  /\ helpers' = helpers \union {c}
  /\ UNCHANGED <<queueVars, running, restarts, requests, convOf, listed, messages, strategy, pc, req,
                 fresh, failed, log, twins, disturbed>>

Chat(t) == \/ \E model \in ModelTypes : SetStrategy(t, model)
           \/ Branch(t) \/ AddQuestion(t) \/ PublishQuestion(t) \/ Ask(t) \/ AddAnswer(t)
           \/ PublishAnswer(t) \/ PushPrompt(t) \/ AskWithPrompt(t) \/ PopPrompt(t)

ChatNext == \/ ServerStarts \/ ServerDies \/ QueueStep
            \/ \E t \in Threads : \/ \E c \in Convs : ChatSend(t, c) \/ ChatCreateAndSend(t, c)
                                  \/ Chat(t)
            \/ \E c \in Convs : ChatHistory(c)

ChatSpec == ChatInit /\ [][ChatNext]_chatVars

-----------------------------------------------------------------------------
\* The variables have their types.
ChatTypeOK ==
  /\ sent \subseteq Utterances /\ dropped \subseteq sent
  /\ stored \in [Utterances -> 0..MaxCopies]
  /\ running \in BOOLEAN /\ restarts \in 0..MaxRestarts /\ requests \in 0..MaxRequests
  /\ convOf \in [1..requests -> Convs]
  /\ listed \subseteq helpers /\ helpers \subseteq Convs
  /\ \A c \in Convs : \A i \in DOMAIN messages[c] : Belongs(messages[c][i], c)
  /\ strategy \in [Convs -> Registered \union {Default}]
  /\ req \in [Threads -> 0..requests]
  /\ fresh \in [Threads -> {"none", "kept", "empty", "tool"}]
  /\ failed \subseteq Utterances /\ disturbed \subseteq Convs

\* All that was said in c, in order.
SaidIn(c) == Repeated(log, [m \in Utterances |-> IF Belongs(m, c) THEN 1 ELSE 0])

\* Each question is followed by its answer, and there is nothing else.
Alternates(s) == \A i \in DOMAIN s : i % 2 = 1 => /\ s[i].role = "question"
                                                  /\ i < Len(s)
                                                  /\ s[i + 1] = Message(s[i].request, "answer")

(* What the parity of the index means (AIHelper.h:66, and the roles that   *)
(* ChatHistoryHandler and the strategies derive from it) holds for every   *)
(* conversation in which no request overlapped another, no call to the     *)
(* model failed or returned nothing, no question's publish() threw, and no *)
(* restart found rows missing, repeated or with equal time stamps: its     *)
(* memory is all that was said, in order, each question followed by its    *)
(* answer, without any prompt, though the publish() of an answer threw.    *)
HistoryAlternates ==
  running => \A c \in Convs \ disturbed : ~Busy(c) =>
    messages[c] = SaidIn(c) /\ Alternates(messages[c])

(* Whatever a conversation shows that is no prompt was given to the queue, *)
(* or its thread is about to, or its publish() threw: then it may never be *)
(* stored, although it is shown.  No request goes on after that: an answer *)
(* is shown only if the publish() of its question returned.  And a prompt  *)
(* is never popped from an empty vector, however requests overlap.         *)
SaidIsPublished ==
  /\ \A c \in Convs : \A i \in DOMAIN messages[c] :
        LET m == messages[c][i]
        IN  m.role # "prompt" =>
              /\ \/ m \in sent \union failed
                 \/ \E t \in Threads :
                      /\ req[t] = m.request
                      /\ pc[t] = IF m.role = "question" THEN "publishQuestion" ELSE "publishAnswer"
              /\ m.role = "answer" => Message(m.request, "question") \in sent \ failed
  /\ \A t \in Threads : At(t, "pop") => messages[Conv(t)] # <<>>
=============================================================================
