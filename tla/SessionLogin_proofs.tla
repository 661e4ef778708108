------------------------- MODULE SessionLogin_proofs -------------------------
(***************************************************************************)
(* That nobody is served as a user whose password was not given, that a    *)
(* name gets no more rows than threads, and that a user who cannot log in  *)
(* can log out or a known event explains why not: for any number of        *)
(* threads, browsers, names, session ids and rows.                         *)
(*                                                                         *)
(* The argument for the first: a session id is held by one browser only,   *)
(* in its cookie or in the hands of threads that work for it; and whatever *)
(* user a session or a thread names, the browser that holds it knows this  *)
(* user's password.  A new id is one nobody holds, and its data are new.   *)
(***************************************************************************)
EXTENDS SessionLogin, FiniteSetTheorems, SequenceTheorems, TLAPS

Early == {"idle", "checkName", "insert"}
LoginSteps == {"setUserId", "setLoggedIn", "readOnline", "writeOnline"}
BeforeSession == Early \union {"query", "load"}

\* What a thread has while it works.
Working ==
  \A t \in Threads :
    /\ pc[t] \in Early => session[t] = NoId /\ user[t] = NoUser
    /\ pc[t] \in BeforeSession => setCookie[t] = NoId
    /\ pc[t] \notin BeforeSession => session[t] \in SessionIds
    /\ pc[t] # "idle" => job[t].browser \in Browsers
    /\ pc[t] \in {"checkName", "insert"} => job[t].name \in Names
    /\ setCookie[t] \in {NoId, session[t]}
    /\ pc[t] \in {"load", "save"} /\ job[t].kind = "login" => user[t] # NoUser
    /\ pc[t] \in LoginSteps => user[t] # NoUser

\* The browsers of all cookies and threads with one session are the same.
OneHolder ==
  \A s \in SessionIds :
    /\ \A b, c \in Browsers : cookie[b] = s /\ cookie[c] = s => b = c
    /\ \A b \in Browsers, t \in Threads : cookie[b] = s /\ session[t] = s => job[t].browser = b
    /\ \A t, o \in Threads : session[t] = s /\ session[o] = s => job[t].browser = job[o].browser

\* A user whose password the browser knows.
KnownTo(u, b) == u \in 1..Len(rows) /\ rows[u] \in Knows[b]

SessionsOwned ==
  \A s \in SessionIds : userId[s] # NoUser =>
    /\ \A b \in Browsers : cookie[b] = s => KnownTo(userId[s], b)
    /\ \A t \in Threads : session[t] = s => KnownTo(userId[s], job[t].browser)

UsersOwned == \A t \in Threads : user[t] # NoUser => KnownTo(user[t], job[t].browser)

Inv == TypeOK /\ Working /\ OneHolder /\ SessionsOwned /\ UsersOwned

-----------------------------------------------------------------------------
(* The table only grows.                                                   *)
LEMMA RowsAreSeq == ASSUME TypeOK
                    PROVE  rows \in Seq(Names) /\ Len(rows) \in 0..MaxRows
<1>1. PICK k \in 0..MaxRows : rows \in [1..k -> Names]
  BY DEF TypeOK
<1>2. k \in Nat
  BY <1>1, SessionAssumption
<1> QED BY <1>1, <1>2, SeqDef

LEMMA RowsTyped == ASSUME NEW r \in Seq(Names), Len(r) <= MaxRows
                   PROVE  r \in UNION {[1..k -> Names] : k \in 0..MaxRows}
<1>1. Len(r) \in 0..MaxRows /\ r \in [1..Len(r) -> Names]
  BY SessionAssumption
<1> QED BY <1>1

\* Who was blamed before and who is now are users.
LEMMA BlameTyped == ASSUME TypeOK, NEW X, Blame(X)
                    PROVE  blamed' \subseteq Users
<1>1. \A s \in SessionIds : LoginsIn(s) \subseteq Users
  BY DEF LoginsIn, TypeOK
<1> QED BY <1>1 DEF Blame, TypeOK

\* ForgetUnheld takes data away and leaves the rest.
LEMMA Forgotten ==
  ASSUME TypeOK, NEW t \in Threads, ForgetUnheld(t)
  PROVE  /\ live' \subseteq live
         /\ loggedIn' \subseteq loggedIn
         /\ userId' \in [SessionIds -> Users \union {NoUser}]
         /\ \A s \in SessionIds : userId'[s] \in {userId[s], NoUser}
         /\ \A s \in SessionIds : s \notin Held(t)' /\ s \notin {session[o] : o \in Threads \ {t}}
                                    => userId'[s] = NoUser
BY DEF ForgetUnheld, TypeOK

(* A step that gives nothing to anybody keeps the ownership.               *)
LEMMA OwnershipKept ==
  ASSUME Inv, UNCHANGED <<rows, cookie, job, session, user>>,
         \A s \in SessionIds : userId'[s] \in {userId[s], NoUser}
  PROVE  OneHolder' /\ SessionsOwned' /\ UsersOwned'
<1>1. OneHolder'
  BY DEF Inv, OneHolder
<1>2. SessionsOwned'
  BY DEF Inv, SessionsOwned, KnownTo
<1>3. UsersOwned'
  BY DEF Inv, UsersOwned, KnownTo
<1> QED BY <1>1, <1>2, <1>3

-----------------------------------------------------------------------------
\* What a browser knows it knows for good, since rows are only appended.
LEMMA RowsGrow ==
  ASSUME TypeOK, NEW n \in Names, Len(rows) < MaxRows, rows' = Append(rows, n)
  PROVE  /\ rows' \in UNION {[1..k -> Names] : k \in 0..MaxRows}
         /\ \A u, b : KnownTo(u, b) => KnownTo(u, b)'
<1>1. rows \in Seq(Names) /\ Len(rows) \in 0..MaxRows
  BY RowsAreSeq
<1>2. Append(rows, n) \in Seq(Names) /\ Len(Append(rows, n)) = Len(rows) + 1
  BY <1>1
<1>3. rows' \in UNION {[1..k -> Names] : k \in 0..MaxRows}
  <2>1. Len(Append(rows, n)) <= MaxRows
    BY <1>1, <1>2, SessionAssumption
  <2> QED BY <1>2, <2>1, RowsTyped
<1>4. \A i \in 1..Len(rows) : i \in 1..Len(rows') /\ rows'[i] = rows[i]
  BY <1>1
<1>5. \A u, b : KnownTo(u, b) => KnownTo(u, b)'
  BY <1>4 DEF KnownTo
<1> QED BY <1>3, <1>5

\* A thread finishes, and its browser may get the cookie.
LEMMA Finished ==
  ASSUME Inv, NEW t \in Threads, pc[t] # "idle", Finish(t),
         \/ cookie' = cookie
         \/ setCookie[t] # NoId /\ cookie' = [cookie EXCEPT ![job[t].browser] = setCookie[t]],
         \/ rows' = rows
         \/ \E n \in Names : Len(rows) < MaxRows /\ rows' = Append(rows, n),
         online' = online, blamed' \subseteq Users
  PROVE  Inv'
<1>1. rows' \in UNION {[1..k -> Names] : k \in 0..MaxRows}
  BY RowsGrow DEF Inv, TypeOK
<1>2. \A u, b : KnownTo(u, b) => KnownTo(u, b)'
  <2>1. CASE rows' = rows
    BY <2>1 DEF KnownTo
  <2>2. CASE \E n \in Names : Len(rows) < MaxRows /\ rows' = Append(rows, n)
    BY <2>2, RowsGrow DEF Inv
  <2> QED BY <2>1, <2>2
<1>3. /\ live' \subseteq live /\ loggedIn' \subseteq loggedIn
      /\ userId' \in [SessionIds -> Users \union {NoUser}]
      /\ \A s \in SessionIds : userId'[s] \in {userId[s], NoUser}
  BY Forgotten DEF Inv, Finish
<1>4. /\ pc' = [pc EXCEPT ![t] = "idle"]
      /\ job' = [job EXCEPT ![t] = NoJob]
      /\ session' = [session EXCEPT ![t] = NoId]
      /\ setCookie' = [setCookie EXCEPT ![t] = NoId]
      /\ user' = [user EXCEPT ![t] = NoUser]
  BY DEF Finish, Goto
<1>5. job[t].browser \in Browsers /\ (setCookie[t] # NoId => setCookie[t] = session[t] /\ session[t] \in SessionIds)
  BY DEF Inv, Working, BeforeSession
<1>6. TypeOK'
  BY <1>1, <1>3, <1>4, <1>5 DEF Inv, TypeOK, Steps, Kinds, NoJob
<1>7. Working'
  BY <1>4 DEF Inv, TypeOK, Working, Early, BeforeSession, LoginSteps, NoJob
<1>8. \A b \in Browsers : cookie'[b] = cookie[b] \/ (b = job[t].browser /\ cookie'[b] = session[t])
  BY <1>5 DEF Inv, TypeOK
<1>9. NoId \notin SessionIds
  BY SessionAssumption
<1>10. OneHolder'
  BY <1>4, <1>5, <1>8, <1>9 DEF Inv, TypeOK, OneHolder
<1>11. SessionsOwned'
  BY <1>2, <1>3, <1>4, <1>5, <1>8, <1>9 DEF Inv, TypeOK, SessionsOwned
<1>12. UsersOwned'
  BY <1>2, <1>4 DEF Inv, TypeOK, UsersOwned
<1> QED BY <1>6, <1>7, <1>10, <1>11, <1>12 DEF Inv

\* A thread that has its session goes on to another step, and gives nothing to anybody.
LEMMA WentOn ==
  ASSUME Inv, NEW t \in Threads, pc[t] \notin Early, session[t] \in SessionIds,
         NEW step \in Steps \ BeforeSession, pc' = [pc EXCEPT ![t] = step],
         step = "save" => pc[t] = "load",
         step \in LoginSteps => user[t] # NoUser,
         UNCHANGED <<rows, cookie, job, session, setCookie, user>>,
         live' \subseteq SessionIds, loggedIn' \subseteq SessionIds,
         userId' \in [SessionIds -> Users \union {NoUser}],
         \A s \in SessionIds : userId'[s] \in {userId[s], NoUser},
         online' \subseteq Users, blamed' \subseteq Users
  PROVE  Inv'
<1>1. TypeOK'
  BY DEF Inv, TypeOK
<1>2. Working'
  BY DEF Inv, TypeOK, Working, Early, BeforeSession, LoginSteps
<1>3. OneHolder' /\ SessionsOwned' /\ UsersOwned'
  BY OwnershipKept
<1> QED BY <1>1, <1>2, <1>3 DEF Inv

-----------------------------------------------------------------------------
(* One lemma for each action that gives somebody something.                *)
LEMMA ReceiveKeeps ==
  ASSUME Inv, NEW t \in Threads, NEW b \in Browsers, NEW k \in Kinds,
         NEW n \in Names \union {NoId}, Receive(t, b, k, n)
  PROVE  Inv'
<1> DEFINE id == IF k = "register" THEN NoId ELSE cookie[b]
<1>1. /\ pc[t] = "idle"
      /\ job' = [job EXCEPT ![t] = [browser |-> b, kind |-> k, name |-> n]]
      /\ session' = [session EXCEPT ![t] = id]
      /\ UNCHANGED <<rows, live, userId, loggedIn, online, cookie, setCookie, user, blamed>>
      /\ pc' = [pc EXCEPT ![t] = CASE k = "register" -> "checkName" [] k = "login" -> "query"
                                    [] OTHER -> "load"]
  BY DEF Receive, At, Goto, dataVars
<1>2. id \in {cookie[b], NoId} /\ id \in SessionIds \union {NoId}
  BY DEF Inv, TypeOK
<1>3. TypeOK'
  BY <1>1, <1>2 DEF Inv, TypeOK, Steps
<1>4. Working'
  <2>1. k = "register" => n \in Names
    BY DEF Receive
  <2>2. /\ k = "register" => pc'[t] = "checkName" /\ session'[t] = NoId
        /\ k # "register" => pc'[t] \in {"query", "load"}
        /\ pc'[t] = "load" => k # "login"
        /\ job'[t] = [browser |-> b, kind |-> k, name |-> n]
        /\ user'[t] = NoUser \/ pc[t] \notin Early
    BY <1>1 DEF Inv, TypeOK, Working, Kinds, Early
  <2>3. \A o \in Threads \ {t} : pc'[o] = pc[o] /\ job'[o] = job[o] /\ session'[o] = session[o]
    BY <1>1 DEF Inv, TypeOK
  <2> QED BY <1>1, <2>1, <2>2, <2>3 DEF Inv, TypeOK, Working, Early, BeforeSession, LoginSteps
<1>5. NoId \notin SessionIds
  BY SessionAssumption
<1>6. OneHolder'
  BY <1>1, <1>2, <1>5 DEF Inv, TypeOK, OneHolder
<1>7. SessionsOwned'
  BY <1>1, <1>2, <1>5 DEF Inv, TypeOK, SessionsOwned, KnownTo
<1>8. UsersOwned'
  BY <1>1 DEF Inv, TypeOK, UsersOwned, KnownTo, Working, Early
<1> QED BY <1>3, <1>4, <1>6, <1>7, <1>8 DEF Inv

LEMMA QueryUserKeeps ==
  ASSUME Inv, NEW t \in Threads, QueryUser(t)
  PROVE  Inv'
<1>1. CASE AnswerPlain(t)
  BY <1>1, Finished DEF QueryUser, At, AnswerPlain, Inv, TypeOK
<1>2. CASE \E u \in RowsOf(job[t].name) :
             /\ job[t].name \in Knows[job[t].browser]
             /\ Goto(t, "load")
             /\ user' = [user EXCEPT ![t] = u]
             /\ UNCHANGED <<rows, live, dataVars, online, cookie, job, session, setCookie, blamed>>
  <2>1. PICK u \in RowsOf(job[t].name) :
             /\ job[t].name \in Knows[job[t].browser]
             /\ pc' = [pc EXCEPT ![t] = "load"]
             /\ user' = [user EXCEPT ![t] = u]
             /\ UNCHANGED <<rows, live, userId, loggedIn, online, cookie, job, session, setCookie,
                            blamed>>
    BY <1>2 DEF Goto, dataVars
  <2>2. pc[t] = "query"
    BY DEF QueryUser, At
  <2>3. KnownTo(u, job[t].browser) /\ u \in Users
    <3>1. Len(rows) \in 0..MaxRows
      BY RowsAreSeq DEF Inv
    <3> QED BY <2>1, <3>1, SessionAssumption DEF RowsOf, KnownTo, Users
  <2>4. u # NoUser
    BY <2>3, SessionAssumption
  <2>5. TypeOK'
    BY <2>1, <2>3 DEF Inv, TypeOK, Steps
  <2>6. Working'
    BY <2>1, <2>2, <2>4 DEF Inv, TypeOK, Working, Early, BeforeSession, LoginSteps
  <2>7. OneHolder' /\ SessionsOwned'
    BY <2>1 DEF Inv, OneHolder, SessionsOwned, KnownTo
  <2>8. UsersOwned'
    BY <2>1, <2>3 DEF Inv, TypeOK, UsersOwned, KnownTo
  <2> QED BY <2>5, <2>6, <2>7, <2>8 DEF Inv
<1> QED BY <1>1, <1>2 DEF QueryUser

\* The new id is nobody's, and its data are new.
LEMMA LoadNoneKeeps ==
  ASSUME Inv, NEW t \in Threads, LoadNone(t)
  PROVE  Inv'
<1>1. PICK s \in NewIds(t) : /\ session' = [session EXCEPT ![t] = s]
                             /\ setCookie' = [setCookie EXCEPT ![t] = s]
  BY DEF LoadNone
<1>2. /\ pc[t] = "load" /\ pc' = [pc EXCEPT ![t] = "save"]
      /\ UNCHANGED <<rows, online, cookie, job, user, blamed>>
      /\ ForgetUnheld(t)
  BY DEF LoadNone, At, Goto
<1>3. /\ live' \subseteq live /\ loggedIn' \subseteq loggedIn
      /\ userId' \in [SessionIds -> Users \union {NoUser}]
      /\ \A i \in SessionIds : userId'[i] \in {userId[i], NoUser}
  BY <1>2, Forgotten DEF Inv
<1>4. /\ s \in SessionIds
      /\ \A b \in Browsers : cookie[b] # s
      /\ \A o \in Threads \ {t} : session[o] # s
  BY DEF NewIds, Held
<1>5. userId'[s] = NoUser
  <2>1. s \notin Held(t)' /\ s \notin {session[o] : o \in Threads \ {t}}
    BY <1>1, <1>2, <1>4 DEF Held, Inv, TypeOK
  <2> QED BY <1>2, <1>4, <2>1, Forgotten DEF Inv
<1>6. TypeOK'
  BY <1>1, <1>2, <1>3, <1>4 DEF Inv, TypeOK, Steps
<1>7. Working'
  BY <1>1, <1>2, <1>4 DEF Inv, TypeOK, Working, Early, BeforeSession, LoginSteps
<1>8. OneHolder'
  BY <1>1, <1>2, <1>4 DEF Inv, TypeOK, OneHolder
<1>9. SessionsOwned'
  BY <1>1, <1>2, <1>3, <1>4, <1>5 DEF Inv, TypeOK, SessionsOwned, KnownTo
<1>10. UsersOwned'
  BY <1>2 DEF Inv, UsersOwned, KnownTo
<1> QED BY <1>6, <1>7, <1>8, <1>9, <1>10 DEF Inv

\* The session gets the user of a thread that works for its only holder.
LEMMA SetUserIdKeeps ==
  ASSUME Inv, NEW t \in Threads, SetUserId(t)
  PROVE  Inv'
<1> DEFINE s == session[t]
<1>1. /\ pc[t] = "setUserId" /\ pc' = [pc EXCEPT ![t] = "setLoggedIn"]
      /\ userId' = [userId EXCEPT ![s] = user[t]]
      /\ live' = live \union {s}
      /\ UNCHANGED <<rows, loggedIn, online, cookie, job, session, setCookie, user>>
  BY DEF SetUserId, At, Goto
<1>2. blamed' \subseteq Users
  BY BlameTyped DEF SetUserId, Inv
<1>3. s \in SessionIds /\ user[t] # NoUser /\ KnownTo(user[t], job[t].browser)
  BY <1>1 DEF Inv, Working, Early, BeforeSession, LoginSteps, UsersOwned
<1>4. TypeOK'
  BY <1>1, <1>2, <1>3 DEF Inv, TypeOK, Steps
<1>5. Working'
  BY <1>1 DEF Inv, TypeOK, Working, Early, BeforeSession, LoginSteps
<1>6. OneHolder'
  BY <1>1 DEF Inv, OneHolder
<1>7. SessionsOwned'
  <2>1. \A i \in SessionIds \ {s} : userId'[i] = userId[i]
    BY <1>1, <1>3 DEF Inv, TypeOK
  <2>2. userId'[s] = user[t]
    BY <1>1, <1>3 DEF Inv, TypeOK
  <2>3. \A b \in Browsers : cookie[b] = s => b = job[t].browser
    BY <1>3 DEF Inv, OneHolder
  <2>4. \A o \in Threads : session[o] = s => job[o].browser = job[t].browser
    BY <1>3 DEF Inv, OneHolder
  <2> QED BY <1>1, <1>3, <2>1, <2>2, <2>3, <2>4 DEF Inv, SessionsOwned, KnownTo
<1>8. UsersOwned'
  BY <1>1 DEF Inv, UsersOwned, KnownTo
<1> QED BY <1>4, <1>5, <1>6, <1>7, <1>8 DEF Inv

LEMMA ReadUserIdKeeps ==
  ASSUME Inv, NEW t \in Threads, ReadUserId(t)
  PROVE  Inv'
<1>1. /\ pc[t] = "readUserId"
      /\ user' = [user EXCEPT ![t] = userId[session[t]]]
      /\ UNCHANGED <<rows, live, userId, loggedIn, online, cookie, job, session, setCookie, blamed>>
  BY DEF ReadUserId, At, dataVars
<1>2. PICK step \in {"clear", "answer"} : pc' = [pc EXCEPT ![t] = step]
  BY DEF ReadUserId, Goto
<1>3. session[t] \in SessionIds
  BY <1>1 DEF Inv, Working, Early, BeforeSession
<1>4. TypeOK'
  BY <1>1, <1>2, <1>3 DEF Inv, TypeOK, Steps
<1>5. Working'
  BY <1>1, <1>2, <1>3 DEF Inv, TypeOK, Working, Early, BeforeSession, LoginSteps
<1>6. OneHolder' /\ SessionsOwned'
  BY <1>1 DEF Inv, OneHolder, SessionsOwned, KnownTo
<1>7. UsersOwned'
  BY <1>1, <1>3 DEF Inv, TypeOK, UsersOwned, SessionsOwned, KnownTo
<1> QED BY <1>4, <1>5, <1>6, <1>7 DEF Inv

-----------------------------------------------------------------------------
(* Every step keeps the invariant.                                         *)
LEMMA GetSessionKeeps ==
  ASSUME Inv, NEW t \in Threads, GetSession(t)
  PROVE  Inv'
<1>1. CASE LoadFound(t)
  <2>1. /\ pc[t] = "load" /\ session[t] \in live /\ pc' = [pc EXCEPT ![t] = "save"]
        /\ UNCHANGED <<rows, live, userId, loggedIn, online, cookie, job, session, setCookie,
                       user, blamed>>
    BY <1>1 DEF LoadFound, At, Goto, dataVars
  <2> QED BY <2>1, WentOn DEF Inv, TypeOK, Steps, Early, BeforeSession, LoginSteps
<1>2. CASE LoadNone(t)
  BY <1>2, LoadNoneKeeps
<1>3. CASE SaveSession(t)
  <2>1. /\ pc[t] = "save" /\ live' = live \union {session[t]}
        /\ UNCHANGED <<rows, userId, loggedIn, online, cookie, job, session, setCookie, user, blamed>>
    BY <1>3 DEF SaveSession, At, dataVars
  <2>2. PICK step \in {"setUserId", "readUserId", "readLoggedIn"} :
           /\ pc' = [pc EXCEPT ![t] = step]
           /\ step = "setUserId" => job[t].kind = "login"
    BY <1>3 DEF SaveSession, Goto
  <2>3. session[t] \in SessionIds /\ (step = "setUserId" => user[t] # NoUser)
    BY <2>1, <2>2 DEF Inv, Working, Early, BeforeSession
  <2> QED BY <2>1, <2>2, <2>3, WentOn DEF Inv, TypeOK, Steps, Early, BeforeSession, LoginSteps
<1> QED BY <1>1, <1>2, <1>3 DEF GetSession

LEMMA RegisterKeeps ==
  ASSUME Inv, NEW t \in Threads, Register(t)
  PROVE  Inv'
<1>1. CASE CheckName(t) /\ ~AnswerPlain(t)
  <2>1. /\ pc[t] = "checkName" /\ pc' = [pc EXCEPT ![t] = "insert"]
        /\ UNCHANGED <<rows, live, userId, loggedIn, online, cookie, job, session, setCookie,
                       user, blamed>>
    BY <1>1 DEF CheckName, At, Goto, dataVars
  <2>2. TypeOK'
    BY <2>1 DEF Inv, TypeOK, Steps
  <2>3. Working'
    BY <2>1 DEF Inv, TypeOK, Working, Early, BeforeSession, LoginSteps
  <2> QED BY <2>1, <2>2, <2>3, OwnershipKept DEF Inv
<1>2. CASE AnswerPlain(t)
  BY <1>2, Finished DEF Register, CheckName, InsertUser, At, AnswerPlain, Inv, TypeOK
<1>3. CASE InsertUser(t) /\ ~AnswerPlain(t)
  <2>1. /\ pc[t] = "insert" /\ Len(rows) < MaxRows /\ rows' = Append(rows, job[t].name)
        /\ UNCHANGED <<online, cookie, blamed>> /\ Finish(t)
    BY <1>3 DEF InsertUser, At
  <2>2. job[t].name \in Names
    BY <2>1 DEF Inv, Working
  <2> QED BY <2>1, <2>2, Finished DEF Inv, TypeOK
<1> QED BY <1>1, <1>2, <1>3 DEF Register

LEMMA LoginKeeps ==
  ASSUME Inv, NEW t \in Threads, Login(t)
  PROVE  Inv'
<1>1. CASE QueryUser(t)
  BY <1>1, QueryUserKeeps
<1>2. CASE SetUserId(t)
  BY <1>2, SetUserIdKeeps
<1>3. ASSUME pc[t] \in LoginSteps
      PROVE  session[t] \in SessionIds /\ user[t] # NoUser /\ user[t] \in Users /\ pc[t] \notin Early
  BY <1>3 DEF Inv, TypeOK, Working, Early, BeforeSession, LoginSteps
<1>4. CASE SetLoggedIn(t)
  <2>1. /\ pc[t] = "setLoggedIn" /\ pc' = [pc EXCEPT ![t] = "readOnline"]
        /\ loggedIn' = loggedIn \union {session[t]} /\ live' = live \union {session[t]}
        /\ UNCHANGED <<rows, userId, online, cookie, job, session, setCookie, user, blamed>>
    BY <1>4 DEF SetLoggedIn, At, Goto
  <2> QED BY <1>3, <2>1, WentOn DEF Inv, TypeOK, Steps, Early, BeforeSession, LoginSteps
<1>5. CASE ReadOnline(t)
  <2>1. /\ pc[t] = "readOnline"
        /\ UNCHANGED <<rows, live, userId, loggedIn, online, cookie, job, session, setCookie,
                       user, blamed>>
    BY <1>5 DEF ReadOnline, At, dataVars
  <2>2. PICK step \in {"answer", "writeOnline"} : pc' = [pc EXCEPT ![t] = step]
    BY <1>5 DEF ReadOnline, Goto
  <2> QED BY <1>3, <2>1, <2>2, WentOn DEF Inv, TypeOK, Steps, Early, BeforeSession, LoginSteps
<1>6. CASE WriteOnline(t)
  <2>1. /\ pc[t] = "writeOnline" /\ pc' = [pc EXCEPT ![t] = "answer"]
        /\ online' = online \union {user[t]}
        /\ UNCHANGED <<rows, live, userId, loggedIn, cookie, job, session, setCookie, user, blamed>>
    BY <1>6 DEF WriteOnline, At, Goto, dataVars
  <2> QED BY <1>3, <2>1, WentOn DEF Inv, TypeOK, Steps, Early, BeforeSession, LoginSteps
<1> QED BY <1>1, <1>2, <1>4, <1>5, <1>6 DEF Login

LEMMA LogoutKeeps ==
  ASSUME Inv, NEW t \in Threads, Logout(t)
  PROVE  Inv'
<1>1. ASSUME pc[t] \notin BeforeSession
      PROVE  session[t] \in SessionIds /\ pc[t] \notin Early
  BY <1>1 DEF Inv, Working, BeforeSession
<1>2. CASE ClearSession(t)
  <2>1. /\ pc[t] = "clear" /\ pc' = [pc EXCEPT ![t] = "destroy"]
        /\ userId' = [userId EXCEPT ![session[t]] = NoUser]
        /\ loggedIn' = loggedIn \ {session[t]}
        /\ UNCHANGED <<rows, live, online, cookie, job, session, setCookie, user>>
    BY <1>2 DEF ClearSession, At, Goto
  <2>2. blamed' \subseteq Users
    BY <1>2, BlameTyped DEF ClearSession, Inv
  <2> QED BY <1>1, <2>1, <2>2, WentOn DEF Inv, TypeOK, Steps, Early, BeforeSession, LoginSteps
<1>3. CASE DestroySession(t)
  <2>1. /\ pc[t] = "destroy" /\ pc' = [pc EXCEPT ![t] = "parseBody"]
        /\ live' = live \ {session[t]}
        /\ UNCHANGED <<rows, userId, loggedIn, online, cookie, job, session, setCookie, user>>
    BY <1>3 DEF DestroySession, At, Goto, dataVars
  <2>2. blamed' \subseteq Users
    BY <1>3, BlameTyped DEF DestroySession, Inv
  <2> QED BY <1>1, <2>1, <2>2, WentOn DEF Inv, TypeOK, Steps, Early, BeforeSession, LoginSteps
<1>4. ASSUME NEW isJson \in BOOLEAN, ParseBody(t, isJson)
      PROVE  Inv'
  <2>1. /\ pc[t] = "parseBody"
        /\ UNCHANGED <<rows, live, userId, loggedIn, online, cookie, job, session, setCookie, user>>
    BY <1>4 DEF ParseBody, At, dataVars
  <2>2. PICK step \in {"eraseOnline", "answer"} : pc' = [pc EXCEPT ![t] = step]
    BY <1>4 DEF ParseBody, Goto
  <2>3. blamed' \subseteq Users
    BY <1>4, BlameTyped DEF ParseBody, Inv
  <2> QED BY <1>1, <2>1, <2>2, <2>3, WentOn DEF Inv, TypeOK, Steps, Early, BeforeSession, LoginSteps
<1>5. CASE EraseOnline(t)
  <2>1. /\ pc[t] = "eraseOnline" /\ pc' = [pc EXCEPT ![t] = "answer"]
        /\ online' \subseteq online /\ blamed' \subseteq blamed
        /\ UNCHANGED <<rows, live, userId, loggedIn, cookie, job, session, setCookie, user>>
    BY <1>5 DEF EraseOnline, At, Goto, dataVars
  <2> QED BY <1>1, <2>1, WentOn DEF Inv, TypeOK, Steps, Early, BeforeSession, LoginSteps
<1> QED BY <1>2, <1>3, <1>4, <1>5 DEF Logout

LEMMA ShowPageKeeps ==
  ASSUME Inv, NEW t \in Threads, ShowPage(t)
  PROVE  Inv'
<1>1. CASE ReadLoggedIn(t)
  <2>1. /\ pc[t] = "readLoggedIn"
        /\ UNCHANGED <<rows, live, userId, loggedIn, online, cookie, job, session, setCookie,
                       user, blamed>>
    BY <1>1 DEF ReadLoggedIn, At, dataVars
  <2>2. PICK step \in {"readUserId", "answer"} : pc' = [pc EXCEPT ![t] = step]
    BY <1>1 DEF ReadLoggedIn, Goto
  <2>3. session[t] \in SessionIds
    BY <2>1 DEF Inv, Working, Early, BeforeSession
  <2> QED BY <2>1, <2>2, <2>3, WentOn DEF Inv, TypeOK, Steps, Early, BeforeSession, LoginSteps
<1> QED BY <1>1, ReadUserIdKeeps DEF ShowPage

LEMMA AnswerKeeps ==
  ASSUME Inv, NEW t \in Threads, NEW arrives \in BOOLEAN, Answer(t, arrives)
  PROVE  Inv'
<1>1. blamed' \subseteq Users
  BY BlameTyped DEF Answer, Inv
<1> QED BY <1>1, Finished DEF Answer, At

LEMMA ExpireKeeps ==
  ASSUME Inv, NEW s \in SessionIds, Expire(s)
  PROVE  Inv'
<1>1. /\ live' = live \ {s} /\ loggedIn' = loggedIn \ {s}
      /\ userId' = [userId EXCEPT ![s] = NoUser]
      /\ UNCHANGED <<rows, online, cookie, pc, job, session, setCookie, user>>
  BY DEF Expire, threadVars
<1>2. blamed' \subseteq Users
  BY BlameTyped DEF Expire, Inv
<1>3. TypeOK'
  BY <1>1, <1>2 DEF Inv, TypeOK
<1>4. Working'
  BY <1>1 DEF Inv, Working
<1>5. OneHolder' /\ SessionsOwned' /\ UsersOwned'
  BY <1>1, OwnershipKept DEF Inv, TypeOK
<1> QED BY <1>3, <1>4, <1>5 DEF Inv

LEMMA InitInv == Init => Inv
<1> SUFFICES ASSUME Init PROVE Inv
  OBVIOUS
<1>1. TypeOK
  BY SessionAssumption DEF Init, TypeOK, NoJob, Kinds, Steps
<1>2. Working /\ OneHolder /\ SessionsOwned /\ UsersOwned
  BY SessionAssumption DEF Init, Working, OneHolder, SessionsOwned, UsersOwned, Early,
       BeforeSession, LoginSteps
<1> QED BY <1>1, <1>2 DEF Inv

LEMMA NextInv == Inv /\ [Next]_vars => Inv'
<1> SUFFICES ASSUME Inv, [Next]_vars PROVE Inv'
  OBVIOUS
<1>1. CASE UNCHANGED vars
  BY <1>1 DEF vars, threadVars, dataVars, Inv, TypeOK, Working, OneHolder, SessionsOwned,
       UsersOwned, KnownTo
<1>2. CASE \E s \in SessionIds : Expire(s)
  BY <1>2, ExpireKeeps
<1>3. ASSUME NEW t \in Threads,
             \/ \E b \in Browsers, k \in Kinds, n \in Names \union {NoId} : Receive(t, b, k, n)
             \/ GetSession(t) \/ Register(t) \/ Login(t) \/ Logout(t) \/ ShowPage(t)
             \/ \E arrives \in BOOLEAN : Answer(t, arrives)
      PROVE  Inv'
  BY <1>3, ReceiveKeeps, GetSessionKeeps, RegisterKeeps, LoginKeeps, LogoutKeeps, ShowPageKeeps,
       AnswerKeeps
<1> QED BY <1>1, <1>2, <1>3 DEF Next

LEMMA Invariant == Spec => []Inv
BY InitInv, NextInv, PTL DEF Spec

-----------------------------------------------------------------------------
(* Every variable keeps its type, and a thread that logs a user in has     *)
(* one: the -1 of ChatLoginHandler::queryUserId goes no further.           *)
THEOREM TypeCorrect == Spec => []TypeOK
<1>1. Inv => TypeOK
  BY DEF Inv
<1> QED BY Invariant, <1>1, PTL

(* A page is served, or a logout done, in the name of a user only for a    *)
(* browser that has given this user's password.                            *)
THEOREM EveryoneServedAsThemselves == Spec => []ServedOwnUser
<1>1. Inv => ServedOwnUser
  BY DEF Inv, UsersOwned, KnownTo, ServedOwnUser
<1> QED BY Invariant, <1>1, PTL

-----------------------------------------------------------------------------
(* Registration: a thread that finds no row of the name is on its way to   *)
(* insert one, and there are no more of these than threads.                *)
Inserting(n) == {t \in Threads : At(t, "insert") /\ job[t].name = n}

LEMMA RowsAndInserting ==
  ASSUME TypeOK, NEW n
  PROVE  /\ IsFiniteSet(RowsOf(n)) /\ Cardinality(RowsOf(n)) \in Nat
         /\ IsFiniteSet(Inserting(n)) /\ Cardinality(Inserting(n)) \in Nat
         /\ Cardinality(Inserting(n)) <= Cardinality(Threads)
         /\ Cardinality(Threads) \in Nat
<1>1. Len(rows) \in Nat
  BY RowsAreSeq, SessionAssumption
<1>2. IsFiniteSet(1..Len(rows))
  BY <1>1, FS_Interval
<1>3. RowsOf(n) \subseteq 1..Len(rows) /\ Inserting(n) \subseteq Threads
  BY DEF RowsOf, Inserting
<1>4. IsFiniteSet(Threads)
  BY SessionAssumption
<1> QED BY <1>2, <1>3, <1>4, FS_Subset, FS_CardinalityType

LEMMA RegisteredMeans ==
  RegisteredOnceEach <=> \A n \in Names : Cardinality(RowsOf(n)) + Cardinality(Inserting(n))
                                            <= Cardinality(Threads)
BY DEF RegisteredOnceEach, Inserting

\* No row is made and nobody new goes to make one.
LEMMA NobodyInserts ==
  ASSUME TypeOK, TypeOK', RegisteredOnceEach, rows' = rows,
         \A t \in Threads : pc'[t] = "insert" => pc[t] = "insert" /\ job'[t] = job[t]
  PROVE  RegisteredOnceEach'
<1> SUFFICES ASSUME NEW n \in Names
             PROVE  (Cardinality(RowsOf(n)) + Cardinality(Inserting(n)) <= Cardinality(Threads))'
  BY RegisteredMeans DEF RegisteredOnceEach, Inserting
<1>1. RowsOf(n)' = RowsOf(n) /\ Inserting(n)' \subseteq Inserting(n)
  BY DEF RowsOf, Inserting, At
<1>2. Cardinality(RowsOf(n)) + Cardinality(Inserting(n)) <= Cardinality(Threads)
  BY RegisteredMeans
<1>3. /\ Cardinality(RowsOf(n)) \in Nat
      /\ IsFiniteSet(Inserting(n)) /\ Cardinality(Inserting(n)) \in Nat
      /\ Cardinality(Threads) \in Nat
  BY RowsAndInserting
<1>4. Cardinality(Inserting(n)') \in Nat /\ Cardinality(Inserting(n)') <= Cardinality(Inserting(n))
  BY <1>1, <1>3, FS_Subset, FS_CardinalityType
<1> QED BY <1>1, <1>2, <1>3, <1>4

\* A thread that has seen no row goes to make the first.
LEMMA FirstInserts ==
  ASSUME TypeOK, TypeOK', RegisteredOnceEach, NEW t \in Threads, rows' = rows, job' = job,
         RowsOf(job[t].name) = {}, pc' = [pc EXCEPT ![t] = "insert"]
  PROVE  RegisteredOnceEach'
<1> SUFFICES ASSUME NEW n \in Names
             PROVE  (Cardinality(RowsOf(n)) + Cardinality(Inserting(n)) <= Cardinality(Threads))'
  BY RegisteredMeans DEF RegisteredOnceEach, Inserting
<1>1. RowsOf(n)' = RowsOf(n)
  BY DEF RowsOf
<1>2. /\ Cardinality(Inserting(n)') \in Nat /\ Cardinality(Inserting(n)') <= Cardinality(Threads)
      /\ Cardinality(Threads) \in Nat
  <2>1. IsFiniteSet(Threads) /\ Inserting(n)' \subseteq Threads
    BY SessionAssumption DEF Inserting
  <2> QED BY <2>1, FS_Subset, FS_CardinalityType
<1>3. CASE n = job[t].name
  <2>1. Cardinality(RowsOf(n)') = 0
    BY <1>1, <1>3, FS_EmptySet
  <2> QED BY <1>2, <2>1
<1>4. CASE n # job[t].name
  <2>1. Inserting(n)' = Inserting(n)
    BY <1>4 DEF Inserting, At, TypeOK
  <2>2. Cardinality(RowsOf(n)) + Cardinality(Inserting(n)) <= Cardinality(Threads)
    BY RegisteredMeans
  <2> QED BY <1>1, <2>1, <2>2
<1> QED BY <1>3, <1>4

\* The row is there and the thread is no longer on its way.
LEMMA RowInserted ==
  ASSUME TypeOK, RegisteredOnceEach, NEW t \in Threads, pc[t] = "insert",
         pc' = [pc EXCEPT ![t] = "idle"], job' = [job EXCEPT ![t] = NoJob],
         rows' = Append(rows, job[t].name)
  PROVE  RegisteredOnceEach'
<1> SUFFICES ASSUME NEW n \in Names
             PROVE  (Cardinality(RowsOf(n)) + Cardinality(Inserting(n)) <= Cardinality(Threads))'
  BY RegisteredMeans DEF RegisteredOnceEach, Inserting
<1>1. rows \in Seq(Names) /\ Len(rows) \in Nat
  BY RowsAreSeq, SessionAssumption
<1>2. /\ Len(rows') = Len(rows) + 1 /\ rows'[Len(rows) + 1] = job[t].name
      /\ \A i \in 1..Len(rows) : rows'[i] = rows[i]
  BY <1>1
<1>3. /\ IsFiniteSet(RowsOf(n)) /\ Cardinality(RowsOf(n)) \in Nat
      /\ IsFiniteSet(Inserting(n)) /\ Cardinality(Inserting(n)) \in Nat
      /\ Cardinality(RowsOf(n)) + Cardinality(Inserting(n)) <= Cardinality(Threads)
      /\ Cardinality(Threads) \in Nat
  BY RowsAndInserting, RegisteredMeans
<1>4. \A i : i \in 1..(Len(rows) + 1) <=> i \in 1..Len(rows) \/ i = Len(rows) + 1
  BY <1>1
<1>5. Inserting(n)' = Inserting(n) \ {t}
  BY DEF Inserting, At, TypeOK
<1>6. CASE n = job[t].name
  <2>1. RowsOf(n)' = RowsOf(n) \cup {Len(rows) + 1}
    BY <1>2, <1>4, <1>6 DEF RowsOf
  <2>2. Len(rows) + 1 \notin RowsOf(n)
    BY <1>1 DEF RowsOf
  <2>3. Cardinality(RowsOf(n)') = Cardinality(RowsOf(n)) + 1
    BY <1>3, <2>1, <2>2, FS_AddElement
  <2>4. t \in Inserting(n)
    BY <1>6 DEF Inserting, At
  <2>5. Cardinality(Inserting(n)') = Cardinality(Inserting(n)) - 1
    BY <1>3, <1>5, <2>4, FS_RemoveElement
  <2> QED BY <1>3, <2>3, <2>5
<1>7. CASE n # job[t].name
  <2>1. RowsOf(n)' = RowsOf(n)
    BY <1>2, <1>4, <1>7 DEF RowsOf
  <2>2. Inserting(n)' = Inserting(n)
    BY <1>5, <1>7 DEF Inserting
  <2> QED BY <1>3, <2>1, <2>2
<1> QED BY <1>6, <1>7

LEMMA RegisteredInit == Init => RegisteredOnceEach
<1> SUFFICES ASSUME Init, NEW n \in Names
             PROVE  Cardinality(RowsOf(n)) + Cardinality(Inserting(n)) <= Cardinality(Threads)
  BY RegisteredMeans
<1>1. Inserting(n) = {} /\ rows = Registered
  BY DEF Init, Inserting, At
<1>2. TypeOK
  BY InitInv DEF Inv
<1>3. DOMAIN rows = 1..Len(rows)
  BY <1>2, RowsAreSeq, LenProperties
<1>4. RowsOf(n) = {i \in DOMAIN Registered : Registered[i] = n}
  BY <1>1, <1>3 DEF RowsOf
<1>5. Cardinality(RowsOf(n)) <= Cardinality(Threads)
  BY <1>4, SessionAssumption
<1>6. Cardinality(RowsOf(n)) \in Nat /\ Cardinality(Threads) \in Nat
  BY <1>2, RowsAndInserting
<1>7. Cardinality(Inserting(n)) = 0
  BY <1>1, FS_EmptySet
<1> QED BY <1>5, <1>6, <1>7

\* Threads that go on to another step with the same job, or finish.
LEMMA RegisteredMoves ==
  ASSUME TypeOK, TypeOK', RegisteredOnceEach, NEW t \in Threads, NEW step, step # "insert",
         pc' = [pc EXCEPT ![t] = step], rows' = rows,
         \A o \in Threads \ {t} : job'[o] = job[o]
  PROVE  RegisteredOnceEach'
<1>1. \A o \in Threads : pc'[o] = "insert" => pc[o] = "insert" /\ job'[o] = job[o]
  BY DEF TypeOK
<1> QED BY <1>1, NobodyInserts

LEMMA RegisteredNext ==
  ASSUME Inv, Inv', RegisteredOnceEach, [Next]_vars
  PROVE  RegisteredOnceEach'
<1>1. TypeOK /\ TypeOK'
  BY DEF Inv
<1>2. CASE UNCHANGED vars \/ \E s \in SessionIds : Expire(s)
  <2>1. rows' = rows /\ pc' = pc /\ job' = job
    BY <1>2 DEF vars, threadVars, Expire
  <2> QED BY <1>1, <2>1, NobodyInserts
<1>3. ASSUME NEW t \in Threads, NEW b \in Browsers, NEW k \in Kinds,
             NEW n \in Names \union {NoId}, Receive(t, b, k, n)
      PROVE  RegisteredOnceEach'
  <2>1. /\ pc' = [pc EXCEPT ![t] = CASE k = "register" -> "checkName" [] k = "login" -> "query"
                                     [] OTHER -> "load"]
        /\ rows' = rows /\ job' = [job EXCEPT ![t] = [browser |-> b, kind |-> k, name |-> n]]
    BY <1>3 DEF Receive, Goto
  <2>2. \A o \in Threads \ {t} : job'[o] = job[o]
    BY <1>1, <2>1 DEF TypeOK
  <2>3. PICK step \in {"checkName", "query", "load"} : pc' = [pc EXCEPT ![t] = step]
    BY <2>1
  <2> QED BY <1>1, <2>1, <2>2, <2>3, RegisteredMoves
<1>4. ASSUME NEW t \in Threads, Finish(t), rows' = rows
      PROVE  RegisteredOnceEach'
  <2>1. pc' = [pc EXCEPT ![t] = "idle"] /\ job' = [job EXCEPT ![t] = NoJob]
    BY <1>4 DEF Finish, Goto
  <2>2. \A o \in Threads \ {t} : job'[o] = job[o]
    BY <1>1, <2>1 DEF TypeOK
  <2> QED BY <1>1, <1>4, <2>1, <2>2, RegisteredMoves
<1>5. ASSUME NEW t \in Threads, GetSession(t) \/ Login(t) \/ Logout(t) \/ ShowPage(t)
      PROVE  RegisteredOnceEach'
  <2>1. CASE AnswerPlain(t)
    BY <1>4, <2>1 DEF AnswerPlain
  <2>2. CASE ~AnswerPlain(t)
    <3>1. /\ rows' = rows /\ job' = job
          /\ \E step \in Steps \ {"insert"} : pc' = [pc EXCEPT ![t] = step]
      <4>1. CASE GetSession(t)
        BY <4>1 DEF GetSession, LoadFound, LoadNone, SaveSession, Goto, Steps
      <4>2. CASE Login(t)
        BY <2>2, <4>2 DEF Login, QueryUser, SetUserId, SetLoggedIn, ReadOnline, WriteOnline, Goto,
             Steps
      <4>3. CASE Logout(t)
        BY <4>3 DEF Logout, ClearSession, DestroySession, ParseBody, EraseOnline, Goto, Steps
      <4>4. CASE ShowPage(t)
        BY <4>4 DEF ShowPage, ReadLoggedIn, ReadUserId, Goto, Steps
      <4> QED BY <1>5, <4>1, <4>2, <4>3, <4>4
    <3>2. PICK step \in Steps \ {"insert"} : pc' = [pc EXCEPT ![t] = step]
      BY <3>1
    <3>3. step # "insert" /\ \A o \in Threads \ {t} : job'[o] = job[o]
      BY <3>1, <3>2
    <3> QED BY <1>1, <3>1, <3>2, <3>3, RegisteredMoves
  <2> QED BY <2>1, <2>2
<1>6. ASSUME NEW t \in Threads, Register(t)
      PROVE  RegisteredOnceEach'
  <2>1. CASE AnswerPlain(t)
    BY <1>4, <2>1 DEF AnswerPlain
  <2>2. CASE CheckName(t) /\ ~AnswerPlain(t)
    <3>1. /\ RowsOf(job[t].name) = {} /\ pc' = [pc EXCEPT ![t] = "insert"]
          /\ rows' = rows /\ job' = job
      BY <2>2 DEF CheckName, Goto
    <3> QED BY <1>1, <3>1, FirstInserts
  <2>3. CASE InsertUser(t) /\ ~AnswerPlain(t)
    <3>1. /\ pc[t] = "insert" /\ rows' = Append(rows, job[t].name)
          /\ pc' = [pc EXCEPT ![t] = "idle"] /\ job' = [job EXCEPT ![t] = NoJob]
      BY <2>3 DEF InsertUser, At, Finish, Goto
    <3> QED BY <1>1, <3>1, RowInserted
  <2> QED BY <1>6, <2>1, <2>2, <2>3 DEF Register
<1>7. ASSUME NEW t \in Threads, NEW arrives \in BOOLEAN, Answer(t, arrives)
      PROVE  RegisteredOnceEach'
  BY <1>4, <1>7 DEF Answer
<1> QED BY <1>2, <1>3, <1>5, <1>6, <1>7 DEF Next

(* Without a constraint of the table, a name gets two rows only through    *)
(* registrations that overlap: no more rows of it, made or on their way,   *)
(* than threads.                                                           *)
THEOREM NoMoreRowsThanThreads == Spec => []RegisteredOnceEach
<1>1. Inv /\ Inv' /\ RegisteredOnceEach /\ [Next]_vars => RegisteredOnceEach'
  BY RegisteredNext
<1> QED BY Invariant, RegisteredInit, <1>1, PTL DEF Spec

-----------------------------------------------------------------------------
(* Lockouts.  The argument: from setUserId() on, the user of a login has   *)
(* the thread's session in the storage, so that the answer, when it        *)
(* arrives with the cookie, leaves the user able to log out; whatever      *)
(* takes the session or the cookie away is blamed for it.                  *)
ReadSteps == {"readLoggedIn", "readUserId", "clear", "destroy", "parseBody", "eraseOnline"}
BoundSteps == {"setLoggedIn", "readOnline", "writeOnline", "answer"}

\* The steps of a thread are those of its handler.
KindsFit ==
  \A t \in Threads :
    /\ pc[t] \in LoginSteps => job[t].kind = "login"
    /\ pc[t] \in ReadSteps => job[t].kind # "login"
    /\ pc[t] = "query" => user[t] = NoUser

LogsIn(t) == job[t].kind = "login" /\ user[t] # NoUser
LogsOut(t) == pc[t] \in {"clear", "destroy", "parseBody", "eraseOnline"}
Concerns(t, u) == user[t] = u /\ (LogsIn(t) \/ LogsOut(t))
HasSession(b, u) == cookie[b] \in live /\ userId[cookie[b]] = u

Bound(t) == session[t] \in live /\ userId[session[t]] = user[t]
LoginBound ==
  \A t \in Threads : LogsIn(t) /\ pc[t] \in BoundSteps => user[t] \in blamed \/ Bound(t)

Explained(u) == \/ u \in blamed
                \/ \E b \in Browsers : HasSession(b, u)
                \/ \E t \in Threads : Concerns(t, u)
OnlineExplained == \A u \in online : Explained(u)

Lockout == KindsFit /\ LoginBound /\ OnlineExplained

LEMMA BlameGrows ==
  ASSUME NEW X, Blame(X)
  PROVE  /\ blamed \subseteq blamed'
         /\ \A u \in X : u \in online => u \in blamed'
         /\ \A s \in SessionIds : \A u \in X : u \in LoginsIn(s) => u \in blamed'
BY DEF Blame

LEMMA LoginMember == ASSUME NEW t \in Threads, LogsIn(t) PROVE user[t] \in LoginsIn(session[t])
BY DEF LogsIn, LoginsIn

LEMMA OnlineAreUsers == ASSUME Inv PROVE \A u \in online : u \in Users /\ u # NoUser
BY SessionAssumption DEF Inv, TypeOK

\* What somebody holds is not forgotten.
LEMMA HeldKept ==
  ASSUME TypeOK, NEW t \in Threads, ForgetUnheld(t), NEW s \in live,
         \/ \E b \in Browsers : s = cookie'[b]
         \/ \E o \in Threads \ {t} : s = session'[o]
  PROVE  s \in live' /\ userId'[s] = userId[s]
BY DEF ForgetUnheld, Held, TypeOK

\* A thread goes on to another step and takes nothing from anybody.
LEMMA MovedOn ==
  ASSUME Inv, Lockout, NEW t \in Threads, NEW step, pc' = [pc EXCEPT ![t] = step],
         UNCHANGED <<cookie, job, session, user, userId, blamed>>, live \subseteq live',
         ~LogsOut(t),
         step \in LoginSteps => job[t].kind = "login",
         step \in ReadSteps => job[t].kind # "login",
         step # "query",
         LogsIn(t) /\ step \in BoundSteps => pc[t] \in BoundSteps,
         \A u \in online' : u \in online \/ (u = user[t] /\ LogsIn(t))
  PROVE  Lockout'
<1>1. pc'[t] = step /\ \A o \in Threads \ {t} : pc'[o] = pc[o]
  BY DEF Inv, TypeOK
<1>2. KindsFit'
  BY <1>1 DEF Lockout, KindsFit
<1>3. LoginBound'
  BY <1>1 DEF Lockout, LoginBound, LogsIn, Bound
<1>4. ASSUME NEW u \in online'
      PROVE  Explained(u)'
  <2>1. CASE u \in online
    BY <1>1, <2>1 DEF Lockout, OnlineExplained, Explained, HasSession, Concerns, LogsIn, LogsOut
  <2>2. CASE u = user[t] /\ LogsIn(t)
    BY <2>2 DEF Explained, Concerns, LogsIn
  <2> QED BY <1>4, <2>1, <2>2
<1>5. OnlineExplained'
  BY <1>4 DEF OnlineExplained
<1> QED BY <1>2, <1>3, <1>5 DEF Lockout

\* A thread finishes; the cookie and the blame are as Answer leaves them.
LEMMA FinishedLockout ==
  ASSUME Inv, Lockout, NEW t \in Threads, Finish(t), online' = online, blamed \subseteq blamed',
         ~LogsOut(t),
         \A b \in Browsers, u \in online : HasSession(b, u) /\ cookie'[b] # cookie[b] => u \in blamed',
         user[t] \in online /\ LogsIn(t) =>
           \/ user[t] \in blamed'
           \/ Bound(t) /\ \E b \in Browsers : cookie'[b] = session[t]
  PROVE  Lockout'
<1>1. /\ pc' = [pc EXCEPT ![t] = "idle"] /\ job' = [job EXCEPT ![t] = NoJob]
      /\ session' = [session EXCEPT ![t] = NoId] /\ user' = [user EXCEPT ![t] = NoUser]
      /\ ForgetUnheld(t)
  BY DEF Finish, Goto
<1>2. TypeOK /\ pc'[t] = "idle" /\ user'[t] = NoUser
  BY <1>1 DEF Inv, TypeOK
<1>3. \A o \in Threads \ {t} : /\ pc'[o] = pc[o] /\ job'[o] = job[o]
                               /\ session'[o] = session[o] /\ user'[o] = user[o]
  BY <1>1, <1>2 DEF TypeOK
<1>4. KindsFit'
  BY <1>2, <1>3 DEF Lockout, KindsFit, LoginSteps, ReadSteps
<1>5. ASSUME NEW o \in Threads, LogsIn(o)', pc'[o] \in BoundSteps
      PROVE  (user[o] \in blamed \/ Bound(o))'
  <2>1. o # t
    BY <1>2, <1>5 DEF BoundSteps
  <2>2. user[o] \in blamed \/ Bound(o)
    BY <1>3, <1>5, <2>1 DEF Lockout, LoginBound, LogsIn
  <2>3. CASE Bound(o)
    <3>1. session[o] \in live' /\ userId'[session[o]] = userId[session[o]]
      BY <1>1, <1>2, <1>3, <2>1, <2>3, HeldKept DEF Bound
    <3> QED BY <1>3, <2>1, <2>3, <3>1 DEF Bound
  <2> QED BY <1>3, <2>1, <2>2, <2>3
<1>6. LoginBound'
  BY <1>5 DEF LoginBound
<1>7. ASSUME NEW u \in online
      PROVE  Explained(u)'
  <2>1. CASE u \in blamed
    BY <2>1 DEF Explained
  <2>2. ASSUME NEW b \in Browsers, HasSession(b, u)
        PROVE  Explained(u)'
    <3>1. CASE cookie'[b] # cookie[b]
      BY <2>2, <3>1 DEF Explained
    <3>2. CASE cookie'[b] = cookie[b]
      BY <1>1, <1>2, <2>2, <3>2, HeldKept DEF Explained, HasSession
    <3> QED BY <3>1, <3>2
  <2>3. ASSUME NEW o \in Threads, Concerns(o, u)
        PROVE  Explained(u)'
    <3>1. CASE o # t
      BY <1>3, <2>3, <3>1 DEF Explained, Concerns, LogsIn, LogsOut
    <3>2. CASE o = t
      <4>1. user[t] = u /\ LogsIn(t)
        BY <2>3, <3>2 DEF Concerns
      <4>2. ASSUME Bound(t), NEW b \in Browsers, cookie'[b] = session[t]
            PROVE  Explained(u)'
        <5>1. session[t] \in live /\ session[t] = cookie'[b]
          BY <4>2 DEF Bound
        <5>2. session[t] \in live' /\ userId'[session[t]] = userId[session[t]]
          BY <1>1, <1>2, <5>1, HeldKept
        <5> QED BY <4>1, <4>2, <5>2 DEF Bound, Explained, HasSession
      <4>3. CASE user[t] \in blamed'
        BY <4>1, <4>3 DEF Explained
      <4> QED BY <4>1, <4>2, <4>3
    <3> QED BY <3>1, <3>2
  <2> QED BY <2>1, <2>2, <2>3 DEF Lockout, OnlineExplained, Explained
<1>8. OnlineExplained'
  BY <1>7 DEF OnlineExplained
<1> QED BY <1>4, <1>6, <1>8 DEF Lockout

-----------------------------------------------------------------------------
(* What each action does to the explanations.                              *)
LEMMA PlainAnswerLockout ==
  ASSUME Inv, Lockout, NEW t \in Threads, pc[t] \in {"checkName", "insert", "query"}, Finish(t),
         UNCHANGED <<online, cookie, blamed>>
  PROVE  Lockout'
<1>1. user[t] = NoUser /\ ~LogsOut(t)
  BY DEF Inv, Working, Early, Lockout, KindsFit, LogsOut
<1>2. ~LogsIn(t)
  BY <1>1 DEF LogsIn
<1> QED BY <1>1, <1>2, FinishedLockout

LEMMA ReceiveLockout ==
  ASSUME Inv, Lockout, NEW t \in Threads, NEW b \in Browsers, NEW k \in Kinds,
         NEW n \in Names \union {NoId}, Receive(t, b, k, n)
  PROVE  Lockout'
<1>1. /\ pc[t] = "idle"
      /\ job' = [job EXCEPT ![t] = [browser |-> b, kind |-> k, name |-> n]]
      /\ session' = [session EXCEPT ![t] = IF k = "register" THEN NoId ELSE cookie[b]]
      /\ UNCHANGED <<rows, live, userId, loggedIn, online, cookie, setCookie, user, blamed>>
  BY DEF Receive, At, dataVars
<1>2. PICK step \in {"checkName", "query", "load"} : pc' = [pc EXCEPT ![t] = step]
  BY DEF Receive, Goto
<1>3. user[t] = NoUser /\ pc'[t] = step
  BY <1>1, <1>2 DEF Inv, TypeOK, Working, Early
<1>4. \A o \in Threads \ {t} : pc'[o] = pc[o] /\ job'[o] = job[o] /\ session'[o] = session[o]
  BY <1>1, <1>2 DEF Inv, TypeOK
<1>5. KindsFit'
  BY <1>1, <1>3, <1>4 DEF Lockout, KindsFit, LoginSteps, ReadSteps
<1>6. LoginBound'
  BY <1>1, <1>3, <1>4 DEF Lockout, LoginBound, LogsIn, Bound
<1>7. ASSUME NEW u \in online
      PROVE  Explained(u)'
  <2>1. \A o \in Threads \ {t} : Concerns(o, u) => Concerns(o, u)'
    BY <1>1, <1>4 DEF Concerns, LogsIn, LogsOut
  <2>2. ~Concerns(t, u)
    BY <1>1, <1>3, OnlineAreUsers DEF Concerns
  <2>3. Explained(u)
    BY DEF Lockout, OnlineExplained
  <2> QED BY <1>1, <2>1, <2>2, <2>3 DEF Explained, HasSession
<1>8. OnlineExplained'
  BY <1>1, <1>7 DEF OnlineExplained
<1> QED BY <1>5, <1>6, <1>8 DEF Lockout

\* A row is found: its user is one more who is being logged in.
LEMMA QueryUserLockout ==
  ASSUME Inv, Lockout, NEW t \in Threads, NEW u \in Users, pc[t] = "query",
         pc' = [pc EXCEPT ![t] = "load"], user' = [user EXCEPT ![t] = u],
         UNCHANGED <<live, userId, online, cookie, job, session, blamed>>
  PROVE  Lockout'
<1>1. pc'[t] = "load" /\ user'[t] = u /\ user[t] = NoUser
  BY DEF Inv, TypeOK, Lockout, KindsFit
<1>2. \A o \in Threads \ {t} : pc'[o] = pc[o] /\ user'[o] = user[o]
  BY DEF Inv, TypeOK
<1>3. KindsFit'
  BY <1>1, <1>2 DEF Lockout, KindsFit, LoginSteps, ReadSteps
<1>4. LoginBound'
  BY <1>1, <1>2 DEF Lockout, LoginBound, LogsIn, Bound, BoundSteps
<1>5. ASSUME NEW v \in online
      PROVE  Explained(v)'
  <2>1. \A o \in Threads \ {t} : Concerns(o, v) => Concerns(o, v)'
    BY <1>2 DEF Concerns, LogsIn, LogsOut
  <2>2. ~Concerns(t, v)
    BY <1>1, OnlineAreUsers DEF Concerns
  <2>3. Explained(v)
    BY DEF Lockout, OnlineExplained
  <2> QED BY <2>1, <2>2, <2>3 DEF Explained, HasSession
<1>6. OnlineExplained'
  BY <1>5 DEF OnlineExplained
<1> QED BY <1>3, <1>4, <1>6 DEF Lockout

\* A new session is made, and those that nobody holds are forgotten.
LEMMA LoadNoneLockout ==
  ASSUME Inv, Lockout, NEW t \in Threads, LoadNone(t)
  PROVE  Lockout'
<1>1. PICK s : session' = [session EXCEPT ![t] = s]
  BY DEF LoadNone
<1>2. /\ pc[t] = "load" /\ pc' = [pc EXCEPT ![t] = "save"]
      /\ UNCHANGED <<online, cookie, job, user, blamed>> /\ ForgetUnheld(t)
  BY DEF LoadNone, At, Goto
<1>3. TypeOK /\ pc'[t] = "save"
  BY <1>2 DEF Inv, TypeOK
<1>4. \A o \in Threads \ {t} : pc'[o] = pc[o] /\ session'[o] = session[o]
  BY <1>1, <1>2, <1>3 DEF TypeOK
<1>5. KindsFit'
  BY <1>2, <1>3, <1>4 DEF Lockout, KindsFit, LoginSteps, ReadSteps
<1>6. ASSUME NEW o \in Threads, LogsIn(o)', pc'[o] \in BoundSteps
      PROVE  (user[o] \in blamed \/ Bound(o))'
  <2>1. o # t
    BY <1>3, <1>6 DEF BoundSteps
  <2>2. user[o] \in blamed \/ Bound(o)
    BY <1>2, <1>4, <1>6, <2>1 DEF Lockout, LoginBound, LogsIn
  <2>3. CASE Bound(o)
    <3>1. session[o] \in live' /\ userId'[session[o]] = userId[session[o]]
      BY <1>2, <1>3, <1>4, <2>1, <2>3, HeldKept DEF Bound
    <3> QED BY <1>2, <1>4, <2>1, <2>3, <3>1 DEF Bound
  <2> QED BY <1>2, <2>1, <2>2, <2>3
<1>7. LoginBound'
  BY <1>6 DEF LoginBound
<1>8. ASSUME NEW u \in online
      PROVE  Explained(u)'
  <2>1. ASSUME NEW b \in Browsers, HasSession(b, u)
        PROVE  HasSession(b, u)'
    <3>1. cookie[b] \in live /\ cookie[b] = cookie'[b]
      BY <1>2, <2>1 DEF HasSession
    <3>2. cookie[b] \in live' /\ userId'[cookie[b]] = userId[cookie[b]]
      BY <1>2, <1>3, <3>1, HeldKept
    <3> QED BY <2>1, <3>1, <3>2 DEF HasSession
  <2>2. \A o \in Threads : Concerns(o, u) => Concerns(o, u)'
    BY <1>2, <1>3, <1>4 DEF Concerns, LogsIn, LogsOut
  <2>3. Explained(u)
    BY DEF Lockout, OnlineExplained
  <2> QED BY <1>2, <2>1, <2>2, <2>3 DEF Explained
<1>9. OnlineExplained'
  BY <1>2, <1>8 DEF OnlineExplained
<1> QED BY <1>5, <1>7, <1>9 DEF Lockout

\* The session is this login's; who had it, or was getting it, may be locked out.
LEMMA SetUserIdLockout ==
  ASSUME Inv, Lockout, NEW t \in Threads, SetUserId(t)
  PROVE  Lockout'
<1> DEFINE s == session[t]
<1>1. /\ pc[t] = "setUserId" /\ pc' = [pc EXCEPT ![t] = "setLoggedIn"]
      /\ userId' = [userId EXCEPT ![s] = user[t]] /\ live' = live \union {s}
      /\ Blame(UsersOf(s) \ {user[t]})
      /\ UNCHANGED <<online, cookie, job, session, user>>
  BY DEF SetUserId, At, Goto
<1>2. s \in SessionIds /\ pc'[t] = "setLoggedIn" /\ TypeOK /\ job[t].kind = "login"
  BY <1>1 DEF Inv, TypeOK, Working, Early, BeforeSession, Lockout, KindsFit, LoginSteps
<1>3. \A o \in Threads \ {t} : pc'[o] = pc[o]
  BY <1>1, <1>2 DEF TypeOK
<1>4. userId'[s] = user[t] /\ \A i \in SessionIds \ {s} : userId'[i] = userId[i]
  BY <1>1, <1>2 DEF TypeOK
<1>5. /\ blamed \subseteq blamed'
      /\ \A u \in UsersOf(s) \ {user[t]} : u \in online => u \in blamed'
      /\ \A u \in UsersOf(s) \ {user[t]} : u \in LoginsIn(s) => u \in blamed'
  BY <1>1, <1>2, BlameGrows
<1> HIDE DEF s
<1>6. KindsFit'
  BY <1>1, <1>2, <1>3 DEF Lockout, KindsFit, LoginSteps, ReadSteps
<1>7. ASSUME NEW o \in Threads, LogsIn(o), pc'[o] \in BoundSteps
      PROVE  user[o] \in blamed' \/ Bound(o)'
  <2>1. CASE session[o] # s
    <3>1. o # t
      BY <2>1 DEF s
    <3>2. user[o] \in blamed \/ Bound(o)
      BY <1>3, <1>7, <3>1 DEF Lockout, LoginBound
    <3>3. Bound(o) => Bound(o)'
      BY <1>1, <1>2, <1>4, <2>1 DEF Bound, TypeOK
    <3> QED BY <1>5, <3>2, <3>3
  <2>2. CASE session[o] = s /\ user[o] = user[t]
    BY <1>1, <1>4, <2>2 DEF Bound
  <2>3. CASE session[o] = s /\ user[o] # user[t]
    <3>1. user[o] \in LoginsIn(s)
      BY <1>7, <2>3, LoginMember
    <3> QED BY <1>5, <2>3, <3>1 DEF UsersOf
  <2> QED BY <2>1, <2>2, <2>3
<1>8. LoginBound'
  BY <1>1, <1>7 DEF LoginBound, LogsIn
<1>9. ASSUME NEW u \in online
      PROVE  Explained(u)'
  <2>1. ASSUME NEW b \in Browsers, HasSession(b, u)
        PROVE  Explained(u)'
    <3>1. u # NoUser
      BY OnlineAreUsers
    <3>2. CASE cookie[b] = s /\ u # user[t]
      BY <1>5, <2>1, <3>1, <3>2 DEF HasSession, UsersOf, Explained
    <3>3. CASE cookie[b] = s /\ u = user[t]
      <4>1. HasSession(b, u)'
        BY <1>1, <1>4, <2>1, <3>3 DEF HasSession
      <4> QED BY <4>1 DEF Explained
    <3>4. CASE cookie[b] # s
      <4>1. HasSession(b, u)'
        BY <1>1, <1>2, <1>4, <2>1, <3>4 DEF HasSession, TypeOK
      <4> QED BY <4>1 DEF Explained
    <3> QED BY <3>2, <3>3, <3>4
  <2>2. \A o \in Threads : Concerns(o, u) => Concerns(o, u)'
    BY <1>1, <1>2, <1>3 DEF Concerns, LogsIn, LogsOut
  <2>3. Explained(u)
    BY DEF Lockout, OnlineExplained
  <2> QED BY <1>5, <2>1, <2>2, <2>3 DEF Explained
<1>10. OnlineExplained'
  BY <1>1, <1>9 DEF OnlineExplained
<1> QED BY <1>6, <1>8, <1>10 DEF Lockout

\* A session is taken away from those who use it; X are blamed for it.
LEMMA SessionTaken ==
  ASSUME Inv, Lockout, KindsFit', NEW s \in SessionIds, NEW X, Blame(X), LoginsIn(s) \subseteq X,
         UNCHANGED <<online, cookie, job, session, user>>,
         \A i \in SessionIds \ {s} : userId'[i] = userId[i] /\ (i \in live => i \in live'),
         \A o \in Threads : LogsIn(o) /\ pc'[o] \in BoundSteps => pc[o] \in BoundSteps,
         \A o \in Threads : LogsOut(o) => LogsOut(o)',
         \/ userId[s] \in X \union {NoUser}
         \/ \E o \in Threads : userId[s] = user[o] /\ LogsOut(o)'
  PROVE  Lockout'
<1>1. /\ blamed \subseteq blamed'
      /\ \A u \in X : u \in online => u \in blamed'
      /\ \A u \in X : u \in LoginsIn(s) => u \in blamed'
  BY BlameGrows
<1>2. ASSUME NEW o \in Threads, LogsIn(o), pc'[o] \in BoundSteps
      PROVE  user[o] \in blamed' \/ Bound(o)'
  <2>1. CASE session[o] = s
    BY <1>1, <1>2, <2>1, LoginMember
  <2>2. CASE session[o] # s
    <3>1. user[o] \in blamed \/ Bound(o)
      BY <1>2 DEF Lockout, LoginBound
    <3>2. Bound(o) => Bound(o)'
      BY <2>2 DEF Bound, Inv, TypeOK
    <3> QED BY <1>1, <3>1, <3>2
  <2> QED BY <2>1, <2>2
<1>3. LoginBound'
  BY <1>2 DEF LoginBound, LogsIn
<1>4. ASSUME NEW u \in online
      PROVE  Explained(u)'
  <2>1. ASSUME NEW b \in Browsers, HasSession(b, u)
        PROVE  Explained(u)'
    <3>1. CASE cookie[b] = s
      <4>1. userId[s] = u /\ u # NoUser
        BY <2>1, <3>1, OnlineAreUsers DEF HasSession
      <4>2. ASSUME NEW o \in Threads, user[o] = u, LogsOut(o)'
            PROVE  Explained(u)'
        BY <4>2 DEF Explained, Concerns
      <4>3. CASE u \in X
        BY <1>1, <4>3 DEF Explained
      <4> QED BY <4>1, <4>2, <4>3
    <3>2. CASE cookie[b] # s
      <4>1. HasSession(b, u)'
        BY <2>1, <3>2 DEF HasSession, Inv, TypeOK
      <4> QED BY <4>1 DEF Explained
    <3> QED BY <3>1, <3>2
  <2>2. \A o \in Threads : Concerns(o, u) => Concerns(o, u)'
    BY DEF Concerns, LogsIn
  <2>3. Explained(u)
    BY DEF Lockout, OnlineExplained
  <2> QED BY <1>1, <2>1, <2>2, <2>3 DEF Explained
<1>5. OnlineExplained'
  BY <1>4 DEF OnlineExplained
<1> QED BY <1>3, <1>5 DEF Lockout

LEMMA ClearSessionLockout ==
  ASSUME Inv, Lockout, NEW t \in Threads, ClearSession(t)
  PROVE  Lockout'
<1> DEFINE s == session[t]
<1> DEFINE X == (UsersOf(s) \ {user[t]}) \union LoginsIn(s)
<1>1. /\ pc[t] = "clear" /\ pc' = [pc EXCEPT ![t] = "destroy"]
      /\ userId' = [userId EXCEPT ![s] = NoUser] /\ Blame(X)
      /\ UNCHANGED <<live, online, cookie, job, session, user>>
  BY DEF ClearSession, At, Goto
<1>2. s \in SessionIds /\ TypeOK /\ pc'[t] = "destroy" /\ \A o \in Threads \ {t} : pc'[o] = pc[o]
  BY <1>1 DEF Inv, TypeOK, Working, Early, BeforeSession
<1>3. KindsFit'
  BY <1>1, <1>2 DEF Lockout, KindsFit, LoginSteps, ReadSteps
<1>4. \A i \in SessionIds \ {s} : userId'[i] = userId[i]
  BY <1>1, <1>2 DEF TypeOK
<1>5. \A o \in Threads : LogsIn(o) /\ pc'[o] \in BoundSteps => pc[o] \in BoundSteps
  BY <1>2 DEF BoundSteps
<1>6. LogsOut(t)' /\ \A o \in Threads : LogsOut(o) => LogsOut(o)'
  BY <1>1, <1>2 DEF LogsOut
<1>7. LoginsIn(s) \subseteq X /\ (userId[s] \in X \union {NoUser} \/ userId[s] = user[t])
  BY DEF UsersOf
<1> HIDE DEF s, X
<1> QED BY <1>1, <1>2, <1>3, <1>4, <1>5, <1>6, <1>7, SessionTaken

LEMMA DestroySessionLockout ==
  ASSUME Inv, Lockout, NEW t \in Threads, DestroySession(t)
  PROVE  Lockout'
<1> DEFINE s == session[t]
<1>1. /\ pc[t] = "destroy" /\ pc' = [pc EXCEPT ![t] = "parseBody"]
      /\ live' = live \ {s} /\ Blame(UsersOf(s))
      /\ UNCHANGED <<userId, online, cookie, job, session, user>>
  BY DEF DestroySession, At, Goto, dataVars
<1>2. s \in SessionIds /\ TypeOK /\ pc'[t] = "parseBody" /\ \A o \in Threads \ {t} : pc'[o] = pc[o]
  BY <1>1 DEF Inv, TypeOK, Working, Early, BeforeSession
<1>3. KindsFit'
  BY <1>1, <1>2 DEF Lockout, KindsFit, LoginSteps, ReadSteps
<1>4. \A o \in Threads : /\ LogsIn(o) /\ pc'[o] \in BoundSteps => pc[o] \in BoundSteps
                         /\ LogsOut(o) => LogsOut(o)'
  BY <1>1, <1>2 DEF BoundSteps, LogsOut
<1>5. LoginsIn(s) \subseteq UsersOf(s) /\ userId[s] \in UsersOf(s) \union {NoUser}
  BY DEF UsersOf
<1> HIDE DEF s
<1> QED BY <1>1, <1>2, <1>3, <1>4, <1>5, SessionTaken

LEMMA ExpireLockout ==
  ASSUME Inv, Lockout, NEW s \in SessionIds, Expire(s)
  PROVE  Lockout'
<1>1. /\ live' = live \ {s} /\ userId' = [userId EXCEPT ![s] = NoUser] /\ Blame(UsersOf(s))
      /\ UNCHANGED <<online, cookie, pc, job, session, user>>
  BY DEF Expire, threadVars
<1>2. KindsFit'
  BY <1>1 DEF Lockout, KindsFit
<1>3. \A i \in SessionIds \ {s} : userId'[i] = userId[i]
  BY <1>1 DEF Inv, TypeOK
<1>4. LoginsIn(s) \subseteq UsersOf(s) /\ userId[s] \in UsersOf(s) \union {NoUser}
  BY DEF UsersOf
<1>5. \A o \in Threads : LogsOut(o) => LogsOut(o)'
  BY <1>1 DEF LogsOut
<1> QED BY <1>1, <1>2, <1>3, <1>4, <1>5, SessionTaken

\* Who logs out with a body that is not JSON stays in onlineUsers_.
LEMMA ParseBodyLockout ==
  ASSUME Inv, Lockout, NEW t \in Threads, NEW isJson \in BOOLEAN, ParseBody(t, isJson)
  PROVE  Lockout'
<1> DEFINE X == IF isJson THEN {} ELSE {user[t]}
<1>1. /\ pc[t] = "parseBody" /\ Blame(X)
      /\ pc' = [pc EXCEPT ![t] = IF isJson THEN "eraseOnline" ELSE "answer"]
      /\ UNCHANGED <<live, userId, online, cookie, job, session, user>>
  BY DEF ParseBody, At, Goto, dataVars
<1>2. /\ pc'[t] = IF isJson THEN "eraseOnline" ELSE "answer"
      /\ \A o \in Threads \ {t} : pc'[o] = pc[o]
  BY <1>1 DEF Inv, TypeOK
<1>3. blamed \subseteq blamed' /\ \A u \in X : u \in online => u \in blamed'
  BY <1>1, BlameGrows
<1>4. KindsFit' /\ ~LogsIn(t)
  BY <1>1, <1>2 DEF Lockout, KindsFit, LoginSteps, ReadSteps, LogsIn
<1>5. LoginBound'
  BY <1>1, <1>2, <1>3, <1>4 DEF Lockout, LoginBound, LogsIn, Bound
<1>6. ASSUME NEW u \in online
      PROVE  Explained(u)'
  <2>1. Concerns(t, u) => Concerns(t, u)' \/ u \in blamed'
    BY <1>1, <1>2, <1>3, <1>4 DEF Concerns, LogsOut
  <2>2. \A o \in Threads \ {t} : Concerns(o, u) => Concerns(o, u)'
    BY <1>1, <1>2 DEF Concerns, LogsIn, LogsOut
  <2>3. Explained(u)
    BY DEF Lockout, OnlineExplained
  <2> QED BY <1>1, <1>3, <2>1, <2>2, <2>3 DEF Explained, HasSession
<1>7. OnlineExplained'
  BY <1>1, <1>6 DEF OnlineExplained
<1> QED BY <1>4, <1>5, <1>7 DEF Lockout

\* Who is no longer online needs no explanation, and logins keep theirs.
LEMMA EraseOnlineLockout ==
  ASSUME Inv, Lockout, NEW t \in Threads, EraseOnline(t)
  PROVE  Lockout'
<1>1. /\ pc[t] = "eraseOnline" /\ pc' = [pc EXCEPT ![t] = "answer"]
      /\ online' = online \ {user[t]}
      /\ blamed' = blamed \ ({user[t]} \ UNION {LoginsIn(s) : s \in SessionIds})
      /\ UNCHANGED <<live, userId, cookie, job, session, user>>
  BY DEF EraseOnline, At, Goto, dataVars
<1>2. pc'[t] = "answer" /\ \A o \in Threads \ {t} : pc'[o] = pc[o]
  BY <1>1 DEF Inv, TypeOK
<1>3. KindsFit' /\ ~LogsIn(t)
  BY <1>1, <1>2 DEF Lockout, KindsFit, LoginSteps, ReadSteps, LogsIn
<1>4. ASSUME NEW o \in Threads, LogsIn(o), pc'[o] \in BoundSteps
      PROVE  user[o] \in blamed' \/ Bound(o)'
  <2>1. o # t /\ (user[o] \in blamed \/ Bound(o))
    BY <1>2, <1>3, <1>4 DEF Lockout, LoginBound
  <2>2. session[o] \in SessionIds /\ user[o] \in LoginsIn(session[o])
    BY <1>2, <1>4, <2>1, LoginMember DEF Inv, Working, BoundSteps, Early, BeforeSession
  <2> QED BY <1>1, <2>1, <2>2 DEF Bound
<1>5. LoginBound'
  BY <1>1, <1>4 DEF LoginBound, LogsIn
<1>6. ASSUME NEW u \in online, u # user[t]
      PROVE  Explained(u)'
  <2>1. ~Concerns(t, u) /\ (u \in blamed => u \in blamed')
    BY <1>1, <1>6 DEF Concerns
  <2>2. \A o \in Threads \ {t} : Concerns(o, u) => Concerns(o, u)'
    BY <1>1, <1>2 DEF Concerns, LogsIn, LogsOut
  <2>3. Explained(u)
    BY DEF Lockout, OnlineExplained
  <2> QED BY <1>1, <2>1, <2>2, <2>3 DEF Explained, HasSession
<1>7. OnlineExplained'
  BY <1>1, <1>6 DEF OnlineExplained
<1> QED BY <1>3, <1>5, <1>7 DEF Lockout

LEMMA ReadUserIdLockout ==
  ASSUME Inv, Lockout, NEW t \in Threads, ReadUserId(t)
  PROVE  Lockout'
<1>1. /\ pc[t] = "readUserId" /\ user' = [user EXCEPT ![t] = userId[session[t]]]
      /\ UNCHANGED <<live, userId, online, cookie, job, session, blamed>>
  BY DEF ReadUserId, At, dataVars
<1>2. PICK step \in {"clear", "answer"} : pc' = [pc EXCEPT ![t] = step]
  BY DEF ReadUserId, Goto
<1>3. pc'[t] = step /\ \A o \in Threads \ {t} : pc'[o] = pc[o] /\ user'[o] = user[o]
  BY <1>1, <1>2 DEF Inv, TypeOK
<1>4. job[t].kind # "login" /\ ~LogsOut(t)
  BY <1>1 DEF Lockout, KindsFit, ReadSteps, LogsOut
<1>5. KindsFit'
  BY <1>1, <1>3, <1>4 DEF Lockout, KindsFit, LoginSteps, ReadSteps
<1>6. LoginBound'
  BY <1>1, <1>3, <1>4 DEF Lockout, LoginBound, LogsIn, Bound
<1>7. ASSUME NEW u \in online
      PROVE  Explained(u)'
  <2>1. ~Concerns(t, u) /\ \A o \in Threads \ {t} : Concerns(o, u) => Concerns(o, u)'
    BY <1>1, <1>3, <1>4 DEF Concerns, LogsIn, LogsOut
  <2>2. Explained(u)
    BY DEF Lockout, OnlineExplained
  <2> QED BY <1>1, <2>1, <2>2 DEF Explained, HasSession
<1>8. OnlineExplained'
  BY <1>1, <1>7 DEF OnlineExplained
<1> QED BY <1>5, <1>6, <1>8 DEF Lockout

\* The answer leaves: the cookie a browser had is gone, or its own login's is lost.
LEMMA AnswerLockout ==
  ASSUME Inv, Lockout, NEW t \in Threads, NEW arrives \in BOOLEAN, Answer(t, arrives)
  PROVE  Lockout'
<1> DEFINE b == job[t].browser
<1> DEFINE gone == IF cookie'[b] = cookie[b] \/ cookie[b] = NoId THEN {} ELSE UsersOf(cookie[b])
<1> DEFINE lost == IF cookie'[b] = session[t] THEN {} ELSE LoginsIn(session[t])
<1>1. /\ pc[t] = "answer" /\ Blame(gone \union lost) /\ online' = online /\ Finish(t)
      /\ cookie' = IF arrives /\ setCookie[t] # NoId
                     THEN [cookie EXCEPT ![b] = setCookie[t]] ELSE cookie
  BY DEF Answer, At
<1>2. b \in Browsers /\ TypeOK
  BY <1>1 DEF Inv, Working
<1>3. \A c \in Browsers \ {b} : cookie'[c] = cookie[c]
  BY <1>1, <1>2 DEF TypeOK
<1>4. /\ blamed \subseteq blamed'
      /\ \A u \in gone \union lost : u \in online => u \in blamed'
  BY <1>1, BlameGrows
<1>5. ASSUME NEW c \in Browsers, NEW u \in online, HasSession(c, u), cookie'[c] # cookie[c]
      PROVE  u \in blamed'
  <2>1. c = b /\ cookie[b] \in SessionIds /\ userId[cookie[b]] = u /\ u # NoUser
    BY <1>2, <1>3, <1>5, OnlineAreUsers DEF HasSession, TypeOK
  <2>2. cookie[b] # NoId
    BY <2>1, SessionAssumption
  <2>3. u \in gone
    BY <1>5, <2>1, <2>2 DEF UsersOf
  <2> QED BY <1>4, <2>3
<1>6. ASSUME user[t] \in online, LogsIn(t)
      PROVE  user[t] \in blamed' \/ (Bound(t) /\ \E c \in Browsers : cookie'[c] = session[t])
  <2>1. user[t] \in blamed \/ Bound(t)
    BY <1>1, <1>6 DEF Lockout, LoginBound, BoundSteps
  <2>2. CASE cookie'[b] = session[t]
    BY <1>2, <1>4, <2>1, <2>2
  <2>3. CASE cookie'[b] # session[t]
    BY <1>4, <1>6, <2>3, LoginMember
  <2> QED BY <2>2, <2>3
<1>7. ~LogsOut(t)
  BY <1>1 DEF LogsOut
<1> HIDE DEF b, gone, lost
<1> QED BY <1>1, <1>4, <1>5, <1>6, <1>7, FinishedLockout

-----------------------------------------------------------------------------
LEMMA GetSessionLockout ==
  ASSUME Inv, Lockout, NEW t \in Threads, GetSession(t)
  PROVE  Lockout'
<1>1. CASE LoadFound(t)
  <2>1. /\ pc[t] = "load" /\ pc' = [pc EXCEPT ![t] = "save"]
        /\ UNCHANGED <<live, userId, online, cookie, job, session, user, blamed>>
    BY <1>1 DEF LoadFound, At, Goto, dataVars
  <2> QED BY <2>1, MovedOn DEF LogsOut, LoginSteps, ReadSteps, BoundSteps
<1>2. CASE SaveSession(t)
  <2>1. /\ pc[t] = "save" /\ live' = live \union {session[t]}
        /\ UNCHANGED <<userId, online, cookie, job, session, user, blamed>>
    BY <1>2 DEF SaveSession, At, dataVars
  <2>2. PICK step \in {"setUserId", "readUserId", "readLoggedIn"} :
           /\ pc' = [pc EXCEPT ![t] = step]
           /\ step = "setUserId" <=> job[t].kind = "login"
    BY <1>2 DEF SaveSession, Goto
  <2> QED BY <2>1, <2>2, MovedOn DEF LogsOut, LoginSteps, ReadSteps, BoundSteps
<1> QED BY <1>1, <1>2, LoadNoneLockout DEF GetSession

LEMMA RegisterLockout ==
  ASSUME Inv, Lockout, NEW t \in Threads, Register(t)
  PROVE  Lockout'
<1>1. CASE AnswerPlain(t)
  BY <1>1, PlainAnswerLockout DEF Register, CheckName, InsertUser, At, AnswerPlain
<1>2. CASE CheckName(t) /\ ~AnswerPlain(t)
  <2>1. /\ pc[t] = "checkName" /\ pc' = [pc EXCEPT ![t] = "insert"]
        /\ UNCHANGED <<live, userId, online, cookie, job, session, user, blamed>>
    BY <1>2 DEF CheckName, At, Goto, dataVars
  <2> QED BY <2>1, MovedOn DEF LogsOut, LoginSteps, ReadSteps, BoundSteps
<1>3. CASE InsertUser(t) /\ ~AnswerPlain(t)
  BY <1>3, PlainAnswerLockout DEF InsertUser, At
<1> QED BY <1>1, <1>2, <1>3 DEF Register

LEMMA LoginLockout ==
  ASSUME Inv, Lockout, NEW t \in Threads, Login(t)
  PROVE  Lockout'
<1>1. CASE QueryUser(t)
  <2>1. CASE AnswerPlain(t)
    BY <1>1, <2>1, PlainAnswerLockout DEF QueryUser, At, AnswerPlain
  <2>2. CASE ~AnswerPlain(t)
    <3>1. PICK u \in RowsOf(job[t].name) :
            /\ pc[t] = "query" /\ pc' = [pc EXCEPT ![t] = "load"]
            /\ user' = [user EXCEPT ![t] = u]
            /\ UNCHANGED <<live, userId, online, cookie, job, session, blamed>>
      BY <1>1, <2>2 DEF QueryUser, At, Goto, dataVars
    <3>2. u \in Users
      <4>1. Len(rows) \in 0..MaxRows
        BY RowsAreSeq DEF Inv
      <4> QED BY <4>1, SessionAssumption DEF RowsOf, Users
    <3> QED BY <3>1, <3>2, QueryUserLockout
  <2> QED BY <2>1, <2>2
<1>2. ASSUME pc[t] \in LoginSteps
      PROVE  job[t].kind = "login" /\ LogsIn(t) /\ ~LogsOut(t)
  BY <1>2 DEF Inv, Working, Lockout, KindsFit, LogsIn, LogsOut, LoginSteps
<1>3. CASE SetLoggedIn(t)
  <2>1. /\ pc[t] = "setLoggedIn" /\ pc' = [pc EXCEPT ![t] = "readOnline"]
        /\ live' = live \union {session[t]}
        /\ UNCHANGED <<userId, online, cookie, job, session, user, blamed>>
    BY <1>3 DEF SetLoggedIn, At, Goto
  <2> QED BY <1>2, <2>1, MovedOn DEF LoginSteps, ReadSteps, BoundSteps
<1>4. CASE ReadOnline(t)
  <2>1. /\ pc[t] = "readOnline"
        /\ UNCHANGED <<live, userId, online, cookie, job, session, user, blamed>>
    BY <1>4 DEF ReadOnline, At, dataVars
  <2>2. PICK step \in {"answer", "writeOnline"} : pc' = [pc EXCEPT ![t] = step]
    BY <1>4 DEF ReadOnline, Goto
  <2> QED BY <1>2, <2>1, <2>2, MovedOn DEF LoginSteps, ReadSteps, BoundSteps
<1>5. CASE WriteOnline(t)
  <2>1. /\ pc[t] = "writeOnline" /\ pc' = [pc EXCEPT ![t] = "answer"]
        /\ online' = online \union {user[t]}
        /\ UNCHANGED <<live, userId, cookie, job, session, user, blamed>>
    BY <1>5 DEF WriteOnline, At, Goto, dataVars
  <2> QED BY <1>2, <2>1, MovedOn DEF LoginSteps, ReadSteps, BoundSteps
<1> QED BY <1>1, <1>3, <1>4, <1>5, SetUserIdLockout DEF Login

LEMMA ShowPageLockout ==
  ASSUME Inv, Lockout, NEW t \in Threads, ShowPage(t)
  PROVE  Lockout'
<1>1. CASE ReadLoggedIn(t)
  <2>1. /\ pc[t] = "readLoggedIn"
        /\ UNCHANGED <<live, userId, online, cookie, job, session, user, blamed>>
    BY <1>1 DEF ReadLoggedIn, At, dataVars
  <2>2. PICK step \in {"readUserId", "answer"} : pc' = [pc EXCEPT ![t] = step]
    BY <1>1 DEF ReadLoggedIn, Goto
  <2>3. job[t].kind # "login" /\ ~LogsIn(t) /\ ~LogsOut(t)
    BY <2>1 DEF Lockout, KindsFit, ReadSteps, LogsIn, LogsOut
  <2> QED BY <2>1, <2>2, <2>3, MovedOn DEF LoginSteps, ReadSteps
<1> QED BY <1>1, ReadUserIdLockout DEF ShowPage

LEMMA LogoutLockout ==
  ASSUME Inv, Lockout, NEW t \in Threads, Logout(t)
  PROVE  Lockout'
BY ClearSessionLockout, DestroySessionLockout, ParseBodyLockout, EraseOnlineLockout DEF Logout

LEMMA LockoutNext ==
  ASSUME Inv, Lockout, [Next]_vars
  PROVE  Lockout'
<1>1. CASE UNCHANGED vars
  BY <1>1 DEF vars, threadVars, dataVars, Lockout, KindsFit, LoginBound, OnlineExplained, Explained,
       HasSession, Concerns, LogsIn, LogsOut, Bound
<1>2. CASE \E s \in SessionIds : Expire(s)
  BY <1>2, ExpireLockout
<1>3. ASSUME NEW t \in Threads,
             \/ \E b \in Browsers, k \in Kinds, n \in Names \union {NoId} : Receive(t, b, k, n)
             \/ GetSession(t) \/ Register(t) \/ Login(t) \/ Logout(t) \/ ShowPage(t)
             \/ \E arrives \in BOOLEAN : Answer(t, arrives)
      PROVE  Lockout'
  BY <1>3, ReceiveLockout, GetSessionLockout, RegisterLockout, LoginLockout, LogoutLockout,
     ShowPageLockout, AnswerLockout
<1> QED BY <1>1, <1>2, <1>3 DEF Next

LEMMA LockoutInit == Init => Lockout
BY DEF Init, Lockout, KindsFit, LoginBound, OnlineExplained, LogsIn, LoginSteps, ReadSteps, NoJob

(* A user who is in onlineUsers_ can log out, or a request that concerns   *)
(* the user is in progress, or one of the events that the model blames,    *)
(* and no other order of steps, has made it impossible.                    *)
THEOREM LockoutsExplained == Spec => []LockoutExplained
<1>1. Inv /\ Lockout /\ [Next]_vars => Lockout'
  BY LockoutNext
<1>2. Lockout => LockoutExplained
  BY DEF Lockout, OnlineExplained, Explained, HasSession, Concerns, LockoutExplained, CanLogOut,
       InProgress
<1> QED BY Invariant, LockoutInit, <1>1, <1>2, PTL DEF Spec
=============================================================================
