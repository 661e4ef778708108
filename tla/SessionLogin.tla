---------------------------- MODULE SessionLogin ----------------------------
(***************************************************************************)
(* Sessions, registration, login and logout: SessionManager, Session,      *)
(* MemorySessionStorage, and the handlers ChatRegisterHandler,             *)
(* ChatLoginHandler, ChatLogoutHandler and those that serve a user's page, *)
(* run by several IO threads on behalf of browsers that keep a cookie.     *)
(*                                                                         *)
(* A user is a row of the table users; a session object is known by its    *)
(* id, since load() returns the stored object and an object never changes  *)
(* its id.  Every access to the storage, to a session's data and to        *)
(* onlineUsers_ is a step of the thread that makes it.  The code locks     *)
(* only the writes to onlineUsers_; that two unlocked accesses at the same *)
(* instant may do worse than either order of them is not modelled.         *)
(***************************************************************************)
EXTENDS Integers, Sequences, FiniteSets

CONSTANTS Threads, Browsers, Names,
          SessionIds,  \* what generateSessionId() may return
          Registered,  \* the table users when the server starts
          MaxRows,     \* bounds it
          UniqueNames, \* the table refuses a second row of a name
          Knows,       \* the names whose passwords the person at a browser knows
          NoId, NoUser

Users == 1..MaxRows  \* column id

\* The table is one that the server made in earlier lives, with as many threads: see
\* RegisteredOnceEach.
ASSUME SessionAssumption == /\ IsFiniteSet(Threads)
                            /\ IsFiniteSet(SessionIds)
                            /\ MaxRows \in Nat \ {0}
                            /\ Registered \in UNION {[1..k -> Names] : k \in 0..MaxRows}
                            /\ \A n \in Names :
                                 Cardinality({i \in DOMAIN Registered : Registered[i] = n})
                                   <= Cardinality(Threads)
                            /\ UniqueNames \in BOOLEAN
                            /\ Knows \in [Browsers -> SUBSET Names]
                            /\ NoId \notin SessionIds
                            /\ NoUser \notin Users

Kinds == {"register", "login", "logout", "page"}

VARIABLES
  rows,      \* the table users: the name of each row, in the order of their ids
  live,      \* the sessions in sessions_ of MemorySessionStorage that have not expired
  userId,    \* of each session: data_["userId"]
  loggedIn,  \* the sessions with data_["isLoggedIn"] = "true"
  online,    \* onlineUsers_
  cookie,    \* of each browser
  pc,        \* what each thread does next
  job,       \* what it works for: browser, kind, name
  session,   \* the session it uses; up to getSession() the id its cookie names
  setCookie, \* the Set-Cookie header of its response
  user,      \* its local variable userId
  blamed     \* users to whose login something happened that may lock them out (history)

threadVars == <<pc, job, session, setCookie, user>>
dataVars == <<userId, loggedIn>>
vars == <<rows, live, dataVars, online, cookie, threadVars, blamed>>

NoJob == [browser |-> NoId, kind |-> "page", name |-> NoId]

RowsOf(n) == {i \in 1..Len(rows) : rows[i] = n}

\* Ids by which a session can still be reached, apart from thread t's own.
Held(t) == {cookie[b] : b \in Browsers} \union {session[o] : o \in Threads \ {t}}

\* Mutant: an id that another browser's cookie may have.
NewIdsRepeated(t) == SessionIds \ {session[o] : o \in Threads \ {t}}

\* 128 random bits: an id that nobody holds.
NewIds(t) == SessionIds \ Held(t)

(* No request can name a session again whose id nobody holds.  The storage *)
(* keeps it for good; the model forgets it, and the id may be made anew.   *)
(* The object is gone when neither the storage nor a thread has it.        *)
ForgetUnheld(t) ==
  LET kept == live' \union {session[o] : o \in Threads \ {t}}
  IN  /\ live' = live \intersect Held(t)'
      /\ userId' = [s \in SessionIds |-> IF s \in kept THEN userId[s] ELSE NoUser]
      /\ loggedIn' = loggedIn \intersect kept

\* Users whom a thread logs in with session s, and all who depend on s to log out.
LoginsIn(s) == {user[t] : t \in {o \in Threads : job[o].kind = "login" /\ session[o] = s}}
                 \ {NoUser}
UsersOf(s) == LoginsIn(s) \union ({userId[s]} \ {NoUser})

\* What happens to users who are online, or are being logged in, may lock them out.
Blame(users) == blamed' = blamed \union
                  (users \intersect (online \union UNION {LoginsIn(s) : s \in SessionIds}))

At(t, step) == pc[t] = step
Goto(t, step) == pc' = [pc EXCEPT ![t] = step]

-----------------------------------------------------------------------------
\* Of an earlier life of the server only the table survives.
Init == /\ rows = Registered
        /\ live = {}
        /\ userId = [s \in SessionIds |-> NoUser]
        /\ loggedIn = {}
        /\ online = {}
        /\ cookie = [b \in Browsers |-> NoId]
        /\ pc = [t \in Threads |-> "idle"]
        /\ job = [t \in Threads |-> NoJob]
        /\ session = [t \in Threads |-> NoId]
        /\ setCookie = [t \in Threads |-> NoId]
        /\ user = [t \in Threads |-> NoUser]
        /\ blamed = {}

\* The browser sends a request with its cookie and the router calls the handler.
Receive(t, b, k, n) ==
  /\ At(t, "idle")
  /\ n = NoId <=> k \in {"logout", "page"}
  /\ Goto(t, CASE k = "register" -> "checkName" [] k = "login" -> "query" [] OTHER -> "load")
  /\ job' = [job EXCEPT ![t] = [browser |-> b, kind |-> k, name |-> n]]
  /\ session' = [session EXCEPT ![t] = IF k = "register" THEN NoId ELSE cookie[b]]
  /\ UNCHANGED <<rows, live, dataVars, online, cookie, setCookie, user, blamed>>

Finish(t) == /\ Goto(t, "idle")
             /\ job' = [job EXCEPT ![t] = NoJob]
             /\ session' = [session EXCEPT ![t] = NoId]
             /\ setCookie' = [setCookie EXCEPT ![t] = NoId]
             /\ user' = [user EXCEPT ![t] = NoUser]
             /\ ForgetUnheld(t)

\* A response that carries no cookie leaves; what becomes of it changes nothing here.
AnswerPlain(t) == UNCHANGED <<rows, online, cookie, blamed>> /\ Finish(t)

\* The response leaves; it may be lost with its connection, and its Set-Cookie with it.
Answer(t, arrives) ==
  LET b == job[t].browser
      old == cookie[b]
  IN  /\ At(t, "answer")
      /\ cookie' = IF arrives /\ setCookie[t] # NoId
                     THEN [cookie EXCEPT ![b] = setCookie[t]] ELSE cookie
      /\ Blame((IF cookie'[b] = old \/ old = NoId THEN {} ELSE UsersOf(old))
                \union (IF cookie'[b] = session[t] THEN {} ELSE LoginsIn(session[t])))
      /\ UNCHANGED <<rows, online>>
      /\ Finish(t)

-----------------------------------------------------------------------------
(* ChatRegisterHandler: two statements, each on a pooled connection and    *)
(* each able to throw, which HttpServer answers with 500.                  *)
\* Mutant: the insert is tried whether or not the name is there.
CheckNameNever(t) == /\ At(t, "checkName")
                     /\ Goto(t, "insert")
                     /\ UNCHANGED <<rows, live, dataVars, online, cookie, job, session, setCookie,
                                    user, blamed>>

CheckName(t) == /\ At(t, "checkName")
                /\ \/ AnswerPlain(t)
                   \/ /\ RowsOf(job[t].name) = {}
                      /\ Goto(t, "insert")
                      /\ UNCHANGED <<rows, live, dataVars, online, cookie, job, session,
                                     setCookie, user, blamed>>

InsertUser(t) == /\ At(t, "insert")
                 /\ \/ AnswerPlain(t)
                    \/ /\ Len(rows) < MaxRows
                       /\ UniqueNames => RowsOf(job[t].name) = {}
                       /\ rows' = Append(rows, job[t].name)
                       /\ UNCHANGED <<online, cookie, blamed>>
                       /\ Finish(t)

-----------------------------------------------------------------------------
\* Mutant: the -1 of a wrong password is not looked at.
QueryUserUnchecked(t) ==
  /\ At(t, "query")
  /\ Goto(t, "load")
  /\ \/ UNCHANGED user
     \/ \E u \in RowsOf(job[t].name) :
          /\ job[t].name \in Knows[job[t].browser]
          /\ user' = [user EXCEPT ![t] = u]
  /\ UNCHANGED <<rows, live, dataVars, online, cookie, job, session, setCookie, blamed>>

\* ChatLoginHandler::queryUserId: a row of the name, whichever comes first, or no row.
QueryUser(t) ==
  /\ At(t, "query")
  /\ \/ AnswerPlain(t)
     \/ \E u \in RowsOf(job[t].name) :
          /\ job[t].name \in Knows[job[t].browser]
          /\ Goto(t, "load")
          /\ user' = [user EXCEPT ![t] = u]
          /\ UNCHANGED <<rows, live, dataVars, online, cookie, job, session, setCookie, blamed>>

(* SessionManager::getSession: load() finds a session that has not         *)
(* expired, or a new one is made, which is saved in a step of its own.     *)
LoadFound(t) == /\ At(t, "load")
                /\ session[t] \in live
                /\ Goto(t, "save")
                /\ UNCHANGED <<rows, live, dataVars, online, cookie, job, session, setCookie,
                               user, blamed>>

LoadNone(t) == /\ At(t, "load")
               /\ session[t] \notin live
               /\ \E s \in NewIds(t) : /\ session' = [session EXCEPT ![t] = s]
                                      /\ setCookie' = [setCookie EXCEPT ![t] = s]
               /\ Goto(t, "save")
               /\ UNCHANGED <<rows, online, cookie, job, user, blamed>>
               /\ ForgetUnheld(t)

SaveSession(t) ==
  /\ At(t, "save")
  /\ live' = live \union {session[t]}
  /\ Goto(t, CASE job[t].kind = "login" -> "setUserId"
               [] job[t].kind = "logout" -> "readUserId"
               [] OTHER -> "readLoggedIn")
  /\ UNCHANGED <<rows, dataVars, online, cookie, job, session, setCookie, user, blamed>>

-----------------------------------------------------------------------------
(* ChatLoginHandler: setValue() changes the data and saves the session,    *)
(* wherever it is by now; then the look at onlineUsers_, without its       *)
(* mutex, and the write, with it.                                          *)
SetUserId(t) ==
  LET s == session[t]
  IN  /\ At(t, "setUserId")
      /\ userId' = [userId EXCEPT ![s] = user[t]]
      /\ live' = live \union {s}
      /\ Blame(UsersOf(s) \ {user[t]})
      /\ Goto(t, "setLoggedIn")
      /\ UNCHANGED <<rows, loggedIn, online, cookie, job, session, setCookie, user>>

SetLoggedIn(t) == /\ At(t, "setLoggedIn")
                  /\ loggedIn' = loggedIn \union {session[t]}
                  /\ live' = live \union {session[t]}
                  /\ Goto(t, "readOnline")
                  /\ UNCHANGED <<rows, userId, online, cookie, job, session, setCookie,
                                 user, blamed>>

ReadOnline(t) == /\ At(t, "readOnline")
                 /\ Goto(t, IF user[t] \in online THEN "answer" ELSE "writeOnline")
                 /\ UNCHANGED <<rows, live, dataVars, online, cookie, job, session, setCookie,
                                user, blamed>>

WriteOnline(t) == /\ At(t, "writeOnline")
                  /\ online' = online \union {user[t]}
                  /\ Goto(t, "answer")
                  /\ UNCHANGED <<rows, live, dataVars, cookie, job, session, setCookie, user, blamed>>

-----------------------------------------------------------------------------
(* What logout and the pages read; std::stoi throws when there is no user. *)
ReadLoggedIn(t) ==
  /\ At(t, "readLoggedIn")
  /\ Goto(t, IF session[t] \in loggedIn THEN "readUserId" ELSE "answer")
  /\ UNCHANGED <<rows, live, dataVars, online, cookie, job, session, setCookie, user, blamed>>

ReadUserId(t) ==
  /\ At(t, "readUserId")
  /\ user' = [user EXCEPT ![t] = userId[session[t]]]
  /\ Goto(t, IF userId[session[t]] # NoUser /\ job[t].kind = "logout" THEN "clear" ELSE "answer")
  /\ UNCHANGED <<rows, live, dataVars, online, cookie, job, session, setCookie, blamed>>

-----------------------------------------------------------------------------
(* ChatLogoutHandler.  The body is parsed between destroySession() and the *)
(* removal from onlineUsers_, and may not be JSON.                         *)
ClearSession(t) ==
  LET s == session[t]
  IN  /\ At(t, "clear")
      /\ userId' = [userId EXCEPT ![s] = NoUser]
      /\ loggedIn' = loggedIn \ {s}
      /\ Blame((UsersOf(s) \ {user[t]}) \union LoginsIn(s))
      /\ Goto(t, "destroy")
      /\ UNCHANGED <<rows, live, online, cookie, job, session, setCookie, user>>

DestroySession(t) ==
  /\ At(t, "destroy")
  /\ live' = live \ {session[t]}
  /\ Blame(UsersOf(session[t]))
  /\ Goto(t, "parseBody")
  /\ UNCHANGED <<rows, dataVars, online, cookie, job, session, setCookie, user>>

ParseBody(t, isJson) ==
  /\ At(t, "parseBody")
  /\ Blame(IF isJson THEN {} ELSE {user[t]})
  /\ Goto(t, IF isJson THEN "eraseOnline" ELSE "answer")
  /\ UNCHANGED <<rows, live, dataVars, online, cookie, job, session, setCookie, user>>

\* Mutant: the user stays in onlineUsers_.
EraseOnlineForgotten(t) ==
  /\ At(t, "eraseOnline")
  /\ Goto(t, "answer")
  /\ UNCHANGED <<rows, live, dataVars, online, cookie, job, session, setCookie, user, blamed>>

\* Who is taken out, and is not being logged in, starts afresh.
EraseOnline(t) ==
  /\ At(t, "eraseOnline")
  /\ online' = online \ {user[t]}
  /\ blamed' = blamed \ ({user[t]} \ UNION {LoginsIn(s) : s \in SessionIds})
  /\ Goto(t, "answer")
  /\ UNCHANGED <<rows, live, dataVars, cookie, job, session, setCookie, user>>

-----------------------------------------------------------------------------
(* An hour without a request of the session, which is longer than any      *)
(* request takes: load() will remove what it finds expired.                *)
Expire(s) == /\ s \in live
             /\ \A t \in Threads : session[t] = s => pc[t] \in {"query", "load"}
             /\ live' = live \ {s}
             /\ userId' = [userId EXCEPT ![s] = NoUser]
             /\ loggedIn' = loggedIn \ {s}
             /\ Blame(UsersOf(s))
             /\ UNCHANGED <<rows, online, cookie, threadVars>>

GetSession(t) == LoadFound(t) \/ LoadNone(t) \/ SaveSession(t)

Register(t) == CheckName(t) \/ InsertUser(t)

Login(t) == QueryUser(t) \/ SetUserId(t) \/ SetLoggedIn(t) \/ ReadOnline(t) \/ WriteOnline(t)

Logout(t) == \/ ClearSession(t) \/ DestroySession(t) \/ EraseOnline(t)
             \/ \E isJson \in BOOLEAN : ParseBody(t, isJson)

\* ChatHandler, AIMenuHandler and AIUploadHandler: three pages, one sequence of steps.
ShowPage(t) == ReadLoggedIn(t) \/ ReadUserId(t)

Next == \/ \E t \in Threads :
             \/ \E b \in Browsers, k \in Kinds, n \in Names \union {NoId} : Receive(t, b, k, n)
             \/ GetSession(t) \/ Register(t) \/ Login(t) \/ Logout(t) \/ ShowPage(t)
             \/ \E arrives \in BOOLEAN : Answer(t, arrives)
        \/ \E s \in SessionIds : Expire(s)

Spec == Init /\ [][Next]_vars

-----------------------------------------------------------------------------
Steps == {"idle", "checkName", "insert", "query", "load", "save", "setUserId", "setLoggedIn",
          "readOnline", "writeOnline", "readLoggedIn", "readUserId", "clear", "destroy",
          "parseBody", "eraseOnline", "answer"}

\* The variables have their types.
TypeOK == /\ rows \in UNION {[1..k -> Names] : k \in 0..MaxRows}
          /\ live \subseteq SessionIds
          /\ userId \in [SessionIds -> Users \union {NoUser}]
          /\ loggedIn \subseteq SessionIds
          /\ online \subseteq Users
          /\ cookie \in [Browsers -> SessionIds \union {NoId}]
          /\ pc \in [Threads -> Steps]
          /\ session \in [Threads -> SessionIds \union {NoId}]
          /\ setCookie \in [Threads -> SessionIds \union {NoId}]
          /\ user \in [Threads -> Users \union {NoUser}]
          /\ job \in [Threads -> [browser : Browsers \union {NoId}, kind : Kinds,
                                  name : Names \union {NoId}]]
          /\ blamed \subseteq Users

(* A page is served, or a logout done, in the name of a user only for a    *)
(* browser that has given this user's password: neither expiry, nor the    *)
(* return of a destroyed session to the storage (Session::setValue), nor   *)
(* any order of the threads' steps mixes two browsers' sessions.           *)
ServedOwnUser ==
  \A t \in Threads : user[t] # NoUser => rows[user[t]] \in Knows[job[t].browser]

(* A user who is in onlineUsers_, and so refused by every later login, can *)
(* log out: some browser's cookie names a live session of this user; or a  *)
(* request that concerns the user is still in progress; or one of these    *)
(* happened: the response with the cookie was lost, another session's      *)
(* cookie or another user's login replaced it, the session expired, a      *)
(* logout's body was not JSON, or a logout met a login in one session.     *)
CanLogOut(u) == \E b \in Browsers : /\ cookie[b] \in live
                                    /\ userId[cookie[b]] = u
InProgress(u) == \E t \in Threads : user[t] = u
LockoutExplained == \A u \in online : CanLogOut(u) \/ InProgress(u) \/ u \in blamed

(* Without a constraint of the table, a name gets two rows only through    *)
(* registrations that overlap (ChatRegisterHandler::insertUser): there are *)
(* never more rows, made or on their way, than threads.                    *)
RegisteredOnceEach ==
  \A n \in Names :
     Cardinality(RowsOf(n)) + Cardinality({t \in Threads : At(t, "insert") /\ job[t].name = n})
       <= Cardinality(Threads)

(* The purpose of onlineUsers_ as its comment gives it (ChatServer.h:127): *)
(* a user is logged in once at a time.                                     *)
LoggedInOnce ==
  \A b, c \in Browsers :
     /\ cookie[b] # cookie[c]
     /\ {cookie[b], cookie[c]} \subseteq live \intersect loggedIn
     => userId[cookie[b]] # userId[cookie[c]]
=============================================================================
