# Verification of cyclone-HTTPServer

cyclone-HTTPServer is an HTTP server library on top of muduo (`src/HttpServer`) and an AI chat
service built with it (`src/AIApps/ChatServer`). This directory holds TLA+ models of its parts,
the TLC runs that check them on small instances, and TLAPS proofs of the most important results
for all instances. Paths below are relative to `src/HttpServer` unless they start with `AIApps`.

## 1. Inventory

The process (`AIApps/ChatServer/src/main.cpp`) has four muduo IO threads, which parse requests and
run handlers to completion; two consumers of a RabbitMQ queue, which execute the SQL they
receive; and one detached thread that checks database connections. There are no timers, so the
only things that move the system are data from clients, database, broker and AI services.

| Part | State | Operations | Who calls it |
|---|---|---|---|
| Database pool (`src/DbConnectionPool.cpp`, `DbConnection`, `MysqlUtil`) | queue of idle connections, mutex and condition variable; each connection's mutex and `conn_` | `init`, `getConnection`, the deleter that gives back, `executeQuery/Update`, `ping`, `reconnect`, `checkConnections` | handlers in IO threads, MQ consumers, the checker thread |
| HTTP connection (`HttpServer.cpp`, `HttpContext.cpp`, `HttpRequest`) | input buffer, parser state, one `HttpRequest` reused per connection | `onMessage`, `parseRequest`, `onRequest` | muduo, one IO thread per connection |
| Middleware (`MiddlewareChain`, `CorsMiddleware`) | the chain, fixed at start | `before` (may throw a response), `after` | `HttpHandleRequest` |
| Router and response cache (`Router.cpp`, `Cache/`) | route tables, one LRU of responses | `route`, look-up and store | all IO threads |
| LRU caches (`KLruCache.hpp`) | list and map; LRU-K history; slices | `get`, `put`, `remove` | the response cache |
| Memory pool (`src/MemoryPool/`) | `ThreadCache` per thread, `CentralCache` with a lock per size class and shared span trackers, `PageCache` under one mutex | `allocate`, `deallocate`, `fetchRange`, `returnRange`, `allocateSpan`, `deallocateSpan` | `CachedResponse` bodies, from all threads |
| Sessions (`SessionManager`, `Session`, `MemorySessionStorage`) | map of sessions, expiry times | `getSession`, `setValue`, `destroySession` | every handler |
| Login, logout, registration (`AIApps/.../handlers`) | `onlineUsers_`, rows of `users` | the handlers | IO threads |
| Chat (`ChatServer`, `AIHelper`, send/create/history/sessions handlers) | conversations per user and session id, list of session ids | `chat`, `addMessage`, `readDataFromMySQL` | IO threads; publishes SQL to the queue |
| Message queue (`MQManager`, `RabbitMQThreadPool`) | five channels in rotation; two consumers; the broker's queue | `publish`, `worker`, `shutdown` | chat publishes; consumers use the database pool |
| SSL (`SslConnection`, `SslContext`) | handshake state, two BIOs, map of connections | `onRead`, `send`, `handleHandshake` | muduo and `HttpServer`; switched off in `ChatServer.cpp:40` |
| AI strategies, tools, speech, image recognition, base64 | registry of strategies; otherwise stateless | request formatting, polling | chat, speech and upload handlers |

What makes them correct, and what is hard about it:

* **Pool**: no connection lost or handed out twice on any exception path; nobody sleeps beside an
  idle connection; statements on a connection exclude each other; the checker leaves connections
  in use alone. Hard: `init()` failing midway, `reconnect()` outside every lock, a checker that
  sleeps with the mutex held.
* **HTTP**: a stream cut anywhere yields the requests that were sent, in order, with the
  data that belong to them; every request is answered. Hard: chunk boundaries, pipelining, rejected lines, state left
  over from an earlier request.
* **Memory pool**: pages and blocks are never in two places and never lost. Hard: splitting and
  merging, counts kept on several paths, trackers that are never cleared, blocks freed by another
  thread.
* **Sessions and login**: a user is logged in once, and can log in again after logging out.
  Hard: no locks around the session map, check-then-act, exceptions between two updates.
* **Chat and queue**: every message is stored, once, in the order of the conversation, and a
  restart restores it. Hard: at-least-once delivery, consumers that die, two consumers.
* **Router and caches**: a request gets the response of its own route and query, never an older
  one than it could have had. Hard: look-up, handler and store are separate steps.
* **SSL**: what the handshake and the handlers write reaches the client. Hard: what is pending
  when the state changes.

## 2. Plan

What there is, in the order in which it was built, and what is left.

1. Database pool: `ResourcePool` (abstract), `DbConnectionPool`. Checked and proved.
2. HTTP connection: `HttpConnection`. Checked; all of its safety proved.
3. Memory pool: `PageAllocator` (abstract), `PageCache`, `CentralCache` and `MemoryPool`, which
   compose. Checked; all of their safety proved.
4. Sessions, registration, login and logout: `SessionLogin`. Checked and proved.
5. Message queue: `MessageLog` (abstract), `MessageQueue`, which implements it. Checked; safety
   proved, its part of the refinement included.
6. Chat: `ChatService`, on top of `MessageLog`. Checked; all of it proved, that its use of the queue is
   what `MessageLog` allows included.
7. Router and caches: `LruSequence` (abstract), `LruCache`, which implements it, `CachedResponse` (who
   owns the body of a copy), and `ResponseCache`, which composes the last two with the router.
   Checked; all of it proved, the refinement included. Left: `KLruKCache` and `KHashLruCaches`,
   which have no caller.
8. SSL: `SslConnection`. Checked; its safety proved.

Each passing run asks its own question. Four disagreements have no run any more but the configuration
that shows them is kept (section 12).

## 3. Database connection pool

`DbConnectionPool.tla`, from `DbConnectionPool.{hpp,cpp}`, `DbConnection.{hpp,cpp}`, `MysqlUtil.hpp`.
`idle` is `connections_`, `created` the connection objects, `conn[t]` and `pc[t]` what a thread holds
and does, `busy[c]` the connection's own mutex, `link[c]` the server side, `snapshot` the checker's
copy. A critical section of the pool's mutex is one step, except where the code stays inside:
`init()` opening connections (`InitBegin`, `InitCreate`, `InitThrow`, `InitDone`) and the checker's
sleep (`SleepInsideLock`, `LeaveLock`); `mutex` says who. A worker goes through `getConnection()`
(`TakeIdle`, `ThrowUninitialized`, `Wait`; `Ping`, `CloseOld`, `OpenNew`) and one statement (`BeginStatement`,
`OpenForStatement`, `EndStatement`), and gives the connection back (`GiveBack`, the deleter or the
catch block). `reconnect()` takes two steps, because other threads see `conn_` in between; what
`isValid()` then answers is any Boolean. `LinkDrops` may happen at any time.

| Run | Instance | Shows |
|---|---|---|
| `pool_safety` | 3 workers, 3 connection objects, pool of 2 | `Conservation`, `NoLostWakeup`, `StatementsSerialised`, refinement of `ResourcePool` |
| `pool_liveness` | 3 workers, 1 connection, weak fairness | every connection taken is given back and, while threads wait, some thread gets one, unless the checker starves the thread that gives a connection back (`OnlyTheCheckerStarves`, `SomeWaiterServed`) |
| `pool_checker_conflict` (violated) | 2 workers, 1 connection | the checker reconnects a connection under a running statement |

Bounds: two waiters and one other thread are what a misdirected `notify_one` needs; three
objects with a pool of two allow `init()` to fail once after a push and succeed later. Workers and
connections are symmetric, and the symmetry is used only in the run without liveness properties.

Fairness (`FairSpec`) is weak for every worker, the checker and `init()`, which moreover is not retried for
ever. It promises nothing about a mutex that is free again and again: over an empty queue the checker
sleeps a second inside the critical section, leaves it and locks the mutex again at once
(`DbConnectionPool.cpp:149-156`), and `std::mutex` does not queue those who want it. So a worker that gives
the last connection back may be kept out for ever, and with it everyone who waits. Both properties have this
as their only way out, and state it: `OnlyTheCheckerStarves` says that an owned connection comes back, or else
its worker stands in front of the mutex for ever while the checker locks it infinitely often;
`SomeWaiterServed` that some thread gets a connection, or else the queue is empty, the checker is in that loop
and a worker stands there, for ever. Neither `ping()`, `reconnect()`, a failing statement nor a lost
notification starves anyone. `DbPoolStarved.cfg` shows the starvation itself (section 12). With several connections
the returning worker may also be overtaken by other workers between two locks of the checker;
`DbPoolOvertaking.cfg` (2 workers, 2 connections, under a minute; it passes) covers that. No fairness is assumed of
callers, of spurious wake-ups or of the server. `SomeWaiterServed` is about the waiters together, since
`notify_one` may overtake any one of them for ever.

## 4. HTTP connection

`HttpConnection.tla`, from `HttpServer.cpp`, `HttpContext.cpp`, `HttpRequest.{hpp,cpp}` and, as far as
they decide whether a response closes, `HttpResponse`, `MiddlewareChain` and `CorsMiddleware`. The stream is
a sequence of pieces (request line, header lines, blank line, units of body) that name the request
they belong to. `Deliver(n)` is muduo appending data and calling `onMessage()`; `n = 0` is a chunk that
ends inside a line. Each iteration of `parseRequest()` and each thing `onMessage()` does afterwards is an
action, rejections and the assertion in `setMethod()` included. `request` and `content` are the one
`HttpRequest` of the connection; `handled` and `answers` record what handlers saw and what was sent.

| Run | Instance | Shows |
|---|---|---|
| `http_framing` | 3 requests of 16 kinds, waiting or pipelining client | framing and order, `BodiesShown`, `NothingAfterBadLine`; a client that waits gets every answer |

`BodiesShown` says which body every handled request is shown. A POST that declares a length and carries a body gets its
own data. A request that carries none gets what the one before it was shown, because `swap()` leaves `content_` out
and `setupBodyParsing()` goes to `kGotAll` without touching it when the length is 0; this is the code's behaviour,
not a promise (section 12). A POST whose length is missing or unusable reaches no handler before the shutdown that
goes with its 400; afterwards it may, when a later request in the misread stream supplies a length.

Bounds: three requests give every pair an earlier and a later neighbour; the kinds have every
combination of method class, version, Connection and Content-Length that the control tells
apart, bodies of up to two units, and bodies with and without a colon, which a header parser
confuses with header lines. Fairness: strong for `Deliver` (TCP delivers what was sent; the server
cannot prevent a delivery for ever), weak for the IO loop. Clients need not send. The runs stop
when the client has sent all, so deadlock is not checked.

## 5. Memory pool

`PageCache.tla`: `freeSpans` maps a size to the list of free spans' addresses, where the empty
sequence is a null head, not an absent key; `spanMap` is `spanMap_`; `mapped` the pages from `mmap()`;
`held` the spans callers have. `allocateSpan()` is `SystemAlloc`, `TakeSpan` or `NullSpan` (the first fitting
key has a null head); `deallocateSpan()` is `GiveBack` or `GiveBackAndMerge`. Both hold the mutex
throughout. `PageAllocator.tla` is its promise: runs of pages that are out never meet.

`CentralCache.tla`: a list per size class, the trackers (never cleared, shared by the classes), delayed
returns, and `lock`: each class has its own lock and steps of different classes interleave
between calls to `PageCache`. `MemoryPool.tla` adds the threads' caches with their wrapping counters.
`corrupted` becomes "freed" when a span goes back while one of its blocks is in use (this is what
`memory_in_use` finds), and "link" when a thread may follow a stale first word of a span with one
block (`CentralCache.cpp:82`, `ThreadCache.cpp:78`). Nothing is promised of memory after either, and the
model stops there; all steps before are checked.

| Run | Instance | Shows |
|---|---|---|
| `page_cache` | 7 pages, any placement, sizes 1 to 3 | `PagesConserved`, `SpanMapCurrent`, refinement of `PageAllocator` |
| `memory_pool` | 2 threads, 2 classes, 6 pages, 3 spans, 1 failure | no block twice, blocks in spans held, lists bounded although counters wrap, `PageCache` unharmed |
| `memory_in_use` (violated) | 1 thread, 2 spans | a span is returned with a block in use |

Bounds: seven pages hold three spans with a gap, so that split, merge and exact fit meet; in
`memory_pool` six pages and three places for `mmap()` let spans of both classes be neighbours.
`MaxSpans` bounds the trackers, `MaxFreeCount` the count that grows, `MaxFailures` failed `mmap()` calls,
`SizeMod` stands for 2^64, `Threshold` for 256 and `MaxDelayCount` for 48: the smallest values with which
a list is split, a counter wraps and a delayed return happens. In `memory_in_use` there are
returns that are due and returns that are not. Deadlock is not checked, since the bounds stop the
system.

## 6. Sessions, registration and login

`SessionLogin.tla`, from `SessionManager`, `Session`, `SessionStorage.hpp` and the handlers for registration,
login, logout and the pages that show a user. `live` is `sessions_` without what has expired, `userId`
and `loggedIn` the data of each session object, `online` is `onlineUsers_`, `rows` the table `users`;
`cookie` is what each browser sends. A thread works on one request (`pc`, `job`, `session`, `user`), and
every access to shared state is a step: `getSession()` is `LoadFound` or `LoadNone`, then `SaveSession`;
login is `QueryUser`, `SetUserId`, `SetLoggedIn`, `ReadOnline`, `WriteOnline`; logout is `ReadUserId`,
`ClearSession`, `DestroySession`, `ParseBody`, `EraseOnline`. A response may be lost (`Answer`), and a session that no
request uses may expire (`Expire`). `blamed` records the users to whom one of the accidents
happened that the code cannot undo.

`session_login` has two threads, two browsers, two names of which one is registered and one browser
knows only that one's password, three session ids and two rows. Two threads interleave
every pair of requests; three ids are one for each cookie and one in a thread's hands; two rows
let the name be registered again or the other one be added. `UniqueNames` is `FALSE`: the repository does
not show a constraint of the table. It shows:

* `ServedOwnUser`: no interleaving serves a user's page, or does a logout, for a browser that has not
  given this user's password (proved for every instance, section 11);
* `LockoutExplained`: a user in `onlineUsers_`, whom every login refuses, has a browser that can still
  log out or a request in progress, or is `blamed`. The list of reasons is the result: a
  lost response, a cookie replaced, a session expired, a logout whose body is not JSON, a logout that
  met a login in the same session;
* `RegisteredOnceEach`: a name gets two rows only through registrations that overlap.

Sessions are objects known by id, because `load()` returns the stored object and nothing changes an
id. 128 random bits are an id nobody holds; ids held by nobody are forgotten, which no request can
notice. Safety only, so there is no fairness; the system never stops, and deadlock is checked.
What two unlocked accesses to `sessions_` or to the generator at the same instant do is undefined and
not modelled: the model takes them in either order.

## 7. Message queue

`MessageQueue.tla`, from `MQManager` and `RabbitMQThreadPool`. `Publish` takes the next channel of the pool,
`transit` is what the channels were given and the broker does not have; `Arrive` queues it, or drops it when
nobody has declared the queue yet. A worker declares the queue, consumes, handles (the statement
inserts its row) and acknowledges; an exception in between ends it for good and the message goes back
(`WorkerFails`). The process may die at any step and is started again. The broker is modelled from
how the code uses it, and does not fail.

`MessageLog.tla` is the promise: what is published is stored at least once, unless it is lost, and then
never. `message_queue` (three messages, two workers, two channels, one failure per life of the process,
one death) checks `NothingLost`, `DuplicatesExplained` and that the queue implements the log, its fairness
included. Three messages over two channels arrive in orders other than that of publication;
one death and one failure reach every point between delivery and acknowledgement. Fairness is weak, for the
restart, the network and the workers' steps, which nothing disables; none is assumed for publishers,
failures or deaths. The instance has fewer failures than workers on purpose: with as many, every worker
has ended and nothing is consumed any more (`MQManager.cpp:64`), which no part of the code notices. Deadlock is not checked:
the messages end.

## 8. Chat

`ChatService.tla`, from `ChatServer`, `ChatSendHandler`, `ChatCreateAndSendHandler`, `ChatHistoryHandler` and
`AIHelper`, takes the queue to be an instance of `MessageLog` (`Queue`), with its own `sent`, `dropped` and `stored` for what was
published, lost and has rows; a message (`Utterances`) is the question or the answer of a request. It has one user's conversations, since those of
different users share nothing but the queue. `messages` is the vector of each `AIHelper`, `strategy` its
model, `helpers` and `listed` are `chatInformation` and `sessionsIdsMap`. `AIHelper::chat()` is a sequence of steps of a
thread that other threads' interleave with: `SetStrategy`, `Branch`, then for a plain model `AddQuestion`,
`PublishQuestion`, `Ask`, `AddAnswer`, `PublishAnswer`, and on the MCP path `PushPrompt`, `AskWithPrompt`, `PopPrompt` once or twice before the
question is stored. Any call of the model may throw, answer nothing or answer. `publish()`, or `MQManager::instance()` on its first
call, may throw after the message was appended (`PublishThrows`; `AIHelper.cpp:36-38`, `MQManager.cpp:9`, `21`), whether or not
the broker has the message: the request ends there, on either path. `failed` remembers those messages. `ServerDies` drops all but the table;
`ServerStarts` restores each conversation from its rows in the order of their time stamps, equal ones in either order:
`Repeated` writes each message of the log as often as it has rows.

`chat_service`: two threads, two conversations, two requests, two copies of a row at most, one death. It shows
that `HistoryAlternates` (even places hold questions, odd ones their answers, `AIHelper.h:66`) holds in
every conversation in which no requests overlapped, no call of the model failed, no question's `publish()` threw and no restart found rows
missing, repeated or equal in time (`disturbed` collects the others; an answer whose `publish()` threw stands in its place and
disturbs nothing until a restart finds its row missing). And it shows `SaidIsPublished`, whatever overlaps: what is shown was published, is about to
be, or its `publish()` threw; no request goes past a question whose `publish()` threw, so that every answer shown has a
question that was published; and no prompt is popped from an empty vector. It has 4.4 million states. Two requests are one of each kind in one conversation or one in each of two; the second
also follows a restart. The instance registers "aliyun", the name `AIHelper.cpp:12` asks for; the repository registers only "1" to "4"
(`AIStrategy.cpp:175-178`), so that as it stands every conversation fails to begin, which is a step of the model.
Time stamps are assumed to advance between a question and the answer to it from the service, and
between requests; on the MCP path both are stored at the end and may have one stamp (`twins`).
Two accesses to one vector at the same instant are undefined and not modelled. `ChatServer.cpp:93`, `98` and
`ChatHistoryHandler.cpp:66` do not type-check as written and are modelled as `chatInformation[userId][sessionId]`.

## 9. Router, response cache and LRU caches

`LruCache.tla` is `KLruCache`: `next_` and `prev_` between two dummies, and the map of nodes; `get`, `put` and what they
call are each one step under the mutex. `LruSequence.tla` is a bounded sequence in order of use, and
`LruCache` implements it. `CachedResponse.tla` has the bodies: which object owns which buffer, of which size and
from where (memory pool, or `malloc` above `PoolLimit`), through construction, copy, assignment and destruction.
`ResponseCache.tla` is `Router::route()` on both: route tables and their priority, the cache's look-up, the
handler, and the store as separate steps of several threads, while time passes and what handlers
answer changes. A store makes the copies the code makes (the parameter, the node's value, a
temporary), each of which takes and gives back a body.

`response_cache`: two threads, static and dynamic targets with and without a cache, three cached ones for
two places, so that entries are evicted; bodies that are empty, from the pool or from the system;
times to live of 0 and 1 on a clock of 3. It checks `ListMatchesMap`, the refinement `ImplementsLru`,
`ServedFresh` (an answer from the cache belongs to this target and was made by a handler no longer ago than its time to
live, although a slower thread may store an older answer over a newer one) and `BodiesOwned` (no buffer is leaked, freed twice or given back to the
wrong allocator). Safety only; the clock stops the runs, so deadlock is not checked.

Assumed: allocation succeeds, routes are registered before the server starts, keys are the default ones,
method and path. Hence a response is served for any query string of its path, and errors and Set-Cookie
headers are cached like all else (`Router.cpp:46`); re-registering a route without a cache keeps the
old configuration. `ChatServer` registers no route with a cache.

## 10. SSL connection

`SslConnection.tla`, from `SslConnection.cpp` and the TLS branches of `HttpServer.cpp`, with a client. OpenSSL is
modelled by flights and records: `readBio` and `writeBio` hold records, `handleHandshake` is one call of it,
`readAll` the loop of `SSL_read`, `send` one `SSL_write` with partial writes. `onRead(n)` is TCP delivering n
records; a chunk that completes no record changes nothing. The parser is `HttpConnection`'s, reduced to
where lines and requests end and which lines are malformed, and sees the plaintext of one call in a buffer of its own.
A malformed line is answered past SSL, with a plaintext 400, and a shutdown (`BadRequest`, `HttpServer.cpp:69-73`
and 80-84); a response that says close is sent through SSL and followed by a shutdown (`onRequest`). After a
shutdown data are still read and parsed, and what would be sent is dropped. `stream` is what the client sends:
which lines are malformed, and which requests have a response that closes. Once a chunk was torn the parser may
be out of step, and then anything may come of a chunk: nothing, a 400, a response, with or without a shutdown.

`ssl`: four kinds of handshake (TLS 1.3, full and resumed TLS 1.2, false start), six pieces of plaintext that make
four requests, one of them in two pieces and a line in two, one with a response larger
than a record, at most one request whose response closes and at most one malformed line, each at every place (30
streams), and records that cannot be decrypted; 143,986 states. Fairness is weak, for TCP in both directions. It
shows that answers come in order (`AnswersInOrder`): always rising; and, until a chunk is torn, those of the
client's requests, none skipped, none behind a closing response or a malformed line, and the plaintext
400 of the first malformed line after the answers of all requests before it. And whatever stalls has one of seven reasons
(`StallsExplained`): a handshake without its last flight, data behind the end of the handshake, a torn chunk, a record that
cannot be decrypted, a large response, a closed connection, a malformed line. Torn chunks and large
responses are defects that the property names, not ones it rules out. The client may stop, so deadlock is not checked.
One connection is modelled; `sslConns_` (`HttpServer.cpp:43`), one map that four IO threads change without a lock, is not.
`ChatServer` has TLS switched off (`ChatServer.cpp:40`).

## 11. Proofs

`DbConnectionPool_proofs.tla`, for any finite set of workers, any connections and pool size:

* `TypeCorrect`: `TypeOK`; with `HoldersHold` it is inductive (`TypeInv`).
* `ConnectionsConserved`: `PoolInv` = `TypeInv`, `NothingTwice`, `NothingLost`. Conservation needs that a
  worker holds exactly while its program counter says so; otherwise a give-back could push
  nothing or push twice.
* `NoWakeupLost`: `LiveInv` = `TypeInv`, `InitPhase`, `NoLostWakeup`. `InitPhase` is needed because `init()`
  pushes without notifying: no thread may wait then.
* `StatementsExclude`: a connection's mutex is held by the worker inside the statement.
* `ImplementsPool`: every step maps to a step of `ResourcePool` or a stutter.

`PageCache_proofs.tla`, for any number of pages, any placement of mappings and any sizes:

* `Inv` = `TypeOK`, `PagesConserved`, `SpanMapCurrent` is inductive as it stands, but none of its parts is
  alone: a merge is right only if `spanMap_` names a real neighbour, and `spanMap_` stays right only if
  spans are disjoint, so that an address belongs to one of them.
* The first part says what each operation does to the set of free spans (`LookSpans`, `PushSpans`,
  `RemoveSpans`, then one lemma per action); the second treats a step as cutting the same pages in
  another way (`Grow`, `Recut`).
* `TypeCorrect`, `PagesStayConserved`, `SpanMapStaysCurrent`, and `ImplementsAllocator`, the refinement.

`MemoryPool_proofs.tla`, for any threads, size classes, spans and placements:

* `PageCache` under `CentralCache` is `PageCache` with other sizes, so that its proofs are used as they are
  (`Proved == INSTANCE PageCache_proofs`): a step of a class either leaves the pages alone or is a step
  of `PageCache`, and `Proved!Inv` is the first part of the invariant.
* `CentralInv` adds that blocks which are out belong to spans that are held and to one class each
  (`Backed`), and that a span which a thread is about to cut, after `PageCache` gave it and before
  its blocks are made, has none and is cut by this thread only (`Cuts`): the lock of another class does not
  keep others out, the disjointness of held spans does. `Holding` ties locks to threads; `Caches` says that
  what a thread keeps is out and nobody else's; `Counted` that a wrapping counter is off by no
  more than the failed fetches of its thread, without which no bound on the list follows.
* The lists are sequences that are cut by position; what a cut leaves is shown with sets of positions.
  `Without`, which takes the blocks of a returned span out of a list, is a recursive function; what it leaves is shown with its
  least counterexample.
* `TypeCorrect`, `BlocksOnce` (`NothingTwice`), `BlocksInHeldSpans` (`BlocksBacked`), `PagesUnharmed`
  (`PageCacheUnharmed`), `CachesBounded` (`CacheBounded`).

`HttpConnection_proofs.tla`, for any kinds of requests, any number of them and any chunks:

* The invariant speaks of the stream, the input buffer and the wire together, which a delivery does not
  change. `Framed`: its pieces are in the client's order, a request line in it has its headers and blank
  line behind it, and a blank line its body. `Current`: nothing of an earlier request is left but
  data. `Aligned`: while the connection is open, exactly the requests after the last handled one
  have their line in the stream, so that none was skipped. `Fresh`: the reused `HttpRequest`
  has no length from before. `Contents`: `content_` is what the last handler was shown until a body is
  read, and then what the next is to be shown. `BodiesShown` needs all of them: a stale Content-Length would take
  a body that is not there.
* After a shutdown the parser may go on in what is left, and requests may then lose their lines;
  only `Current`'s part about the request in hand survives, which is enough.
* `TypeCorrect`, `AnswersInOrder` (`HandledInOrder`), `BodiesAreExplained` (`BodiesShown`), and the action property
  `BadLineIsTheEnd` (`NothingAfterBadLine`).

`SessionLogin_proofs.tla`, for any number of threads, browsers, names, session ids and rows:

* `Inv` = `TypeOK`, `Working`, `OneHolder`, `SessionsOwned`, `UsersOwned`. `ServedOwnUser` speaks of the moment a page
  is answered; what makes it true is that a session id is held by one browser only, in its cookie or in
  the hands of threads that work for it (`OneHolder`), and that the user a session or a thread names is
  one whose password this browser knows (`SessionsOwned`, `UsersOwned`). A new id is one nobody holds,
  and its data are new; rows are only appended, so what a browser knows it knows for good.
* `Working` says what a thread has at each of its steps, among others that a registration holds no session.
* `NoMoreRowsThanThreads` (`RegisteredOnceEach`) counts: the rows of a name and the threads about to insert
  it are at most as many as there are threads, since a thread goes from `checkName` to `insert` only while the
  name has no row.
* `LockoutsExplained` (`LockoutExplained`) adds `Lockout`: from `setUserId` on a login's user has the thread's session in
  the storage (`LoginBound`), so that an answer that arrives with the cookie leaves him able to
  log out; each step that takes a session or a cookie away blames whom it concerns.
* `TypeCorrect` and `EveryoneServedAsThemselves`.

`MessagePath_proofs.tla` is about both ends of a message's way. The queue, for any number of messages, workers, channels, exceptions and deaths:

* `Inv` adds to `TypeOK`, `NothingLost` and `DuplicatesExplained` that a message is in one place of one channel and
  nowhere else (`TransitOnce`), or once in the queue or in one hand (`OnePlace`); that what is to be
  inserted has a row only if it was delivered before (`FirstRow`); and that no worker runs while the
  process is down. Without the first, a death of the process could lose what has a row already;
  without the second, an acknowledgement could remove one of two.
* `TypeCorrect`, `NothingIsLost`, `DuplicatesAreExplained`, and `ImplementsLogSteps`, the refinement of
  `MessageLog` without its fairness: each `Handle` is a `Store`, each drop or death a `Lose` of messages that
  have no row.

The conversations, in the same module, for any number of threads, conversations, requests, restarts and rows, any
registered strategies and any default:

* `ChatInv` is `ChatTypeOK` with five parts. `Served`: a thread at work has a request and the server runs. `Alone`:
  while nothing disturbs a conversation, at most one thread is in it. `Kept`: what that thread has made of the
  vector at each of its steps (`Remembers`): what was said, and then the prompt of its own request between push and
  pop; what was said alternates, up to its question while that has no answer. `HistoryAlternates` speaks only
  of conversations in which nobody is at work and says nothing of a step in between, so it cannot be kept by itself; `Kept` without
  `Alone` could not either, since a second thread would push between the push and the pop of the first.
* `Published` says for each message in a vector which thread is about to publish it, at which step, if nobody has tried.
  `Pushed` counts: a vector is at least as long as there are threads with a prompt in it, so that `pop_back()`
  always finds something even where threads overlap and it takes the other's message.
* What was said in a conversation (`SaidIn`) and what a restart restores are both `Repeated` of the log, a recursive function. What is
  needed of it follows from the chain of its values, by the least index at which two chains differ or one leaves
  its set (`BuildsSame`, `RepeatedElements`): it depends only on what is repeated at all (`RepeatedSame`), grows at
  its end with the log (`RepeatedAppend`), and has only what it is made of. So in a conversation in which each message has
  one row and a stamp of its own, a restart restores what was said, whatever rows of other conversations are swapped or missing
  (`RestoredSettled`).
* One lemma for a step of a thread (`ThreadStep`), in three forms, for steps that change nothing shared, that change the
  vector (`VectorStep`) and that say something (`SayStep`); then one lemma per action.
* `ChatTypeCorrect`, `HistoriesAlternate` (`HistoryAlternates`), `WhatIsSaidIsPublished` (`SaidIsPublished`).
* The two components meet at `MessageLog`. `Publish` has a guard there that the code has not; `PublishedOnce` shows that it
  never holds a thread back, since requests in progress differ and each has published no more than its step says (`Once`). `Once` also says that a
  thread past its question, and so every answer that was tried, has a question whose `publish()` returned: `SaidIsPublished` needs it.
  `ChatUsesTheLog`: what the chat does with the queue are steps of `MessageLog`, so that with `ImplementsLogSteps` what the queue
  keeps is what the conversations rely on.

`ResponseCache_proofs.tla`, for any number of threads, targets and nodes, any times and any table of routes:

* The list: `LruInv` says that there is a path of n nodes from dummy to dummy which `next_` follows and `prev_`
  follows back, and that its nodes are those of the map, at most `Capacity` of them. Removing the i-th
  node and inserting one before the tail lead from path to path (`ListRemoved`, `ListInserted`); this
  holds only because a node which is moved is on the path, which the map knows. A cache that is not full has a
  free node, by counting (`NodeForNewEntry`).
* Requests: `Requests` says what a thread has in hand at each step, `Entries` that what lies under a key was made for
  it, no later than now. With it `isExpired()` is enough for `ServedFresh`, although a slower thread may store
  an older response over a newer one.
* The refinement: the walk from the head finds the path (`WalkedList`), its keys are the sequence, and `UsedOrder`
  and `AddedOrder` say that moving a node is taking its key out and appending it.
* Bodies: `Good` says that every buffer has one owner, which has it as it was allocated; one lemma for each constructor, assignment and
  the destructor, then `HitBodies`, `PackBodies` and `StoreBodies`, which follow the copies of each operation.
  Between two steps only nodes of the map and requests about to store own a body, so that parameters and
  temporaries own nothing when they are made; without this an allocation would overwrite a buffer.
* `TypeCorrect`, `ListAndMapAgree` (`ListMatchesMap`), `HitsAreFresh` (`ServedFresh`), `CacheIsLruSequence` (`ImplementsLru`) and
  `BodiesFreedOnce` (`BodiesOwned`).

`SslConnection_proofs.tla`, for any pieces, requests, flights of the handshake and chunks:

* What the server has not read is in order (`Ordered`), so that a response is for a later request than those sent
  before it (`Rising`), torn or not. A chunk that is not torn adds at most one request to those read, and what is
  on its way to the client is flights of the handshake and behind them responses, as many as were read and not
  yet received (`OnTheirWay`), and last the 400 of the first malformed line (`GivenUp`): with it, as with a closing
  response, the connection is shut down, and nothing more is sent (`InStep`). Nothing lies in
  `writeBio` while the handshake goes on (`Handshaking`), which is why no response overtakes a flight, and
  what lies there when the connection is shut down never comes (`Pending`).
* `TypeCorrect` and `ResponsesInOrder` (`AnswersInOrder`).

The assumptions are those of the modules, which TLC evaluates on each run. Most say that constants have
their types and that special values are outside the sets. These say more:

* `PageCache`, `MemoryPool`: sizes and bases are pages; a class with several blocks in a span is one of up to 32 KB, whose
  spans have `SPAN_PAGES` pages and no class has smaller ones (`CentralCache.cpp:285`); the bound on a
  tracker's count is no more than one short of a span's blocks; the modulus of the counters exceeds the threshold and the
  bound on failures, as 2^64 does.
* `SessionLogin`: registered users are among the names, and no name has more rows at the start than there are threads:
  the table is one that this program may have left.
* `ChatService`: threads are finitely many.
* `ResponseCache`: nodes, threads, parameters and the temporary are distinct objects; `Values` has every response that
  a handler can make within the bounds on time and versions; there are at least as many nodes as places.

What is left to TLC is liveness: `SomeWaiterServed`, `OnlyTheCheckerStarves`, `EveryRequestAnswered`,
`StallsExplained`, and the fairness part of `ImplementsMessageLog`. The provers have no fairness and no
ENABLED. Every safety property of the passing runs is proved.

## 12. Disagreements between code and comments

`pool_checker_conflict` and `memory_in_use` are runs, with their entries under "findings" in
`PROJECT.json`. Five more have a configuration that shows them (`tlc -config X.cfg M`) but no run:

* `DbPoolStarved.cfg` of `MCDbConnectionPool` (`EveryConnectionReturns`): the checker, asleep with the mutex held over an
  empty queue, keeps the thread that returns the last connection out for ever (`DbConnectionPool.cpp:154`),
  against line 109, which says that the connection is returned in every case, and line 139, which calls the
  checker non-blocking.
* `HttpPipelineStall.cfg` of `MCHttpConnection`: `onMessage()` handles one request per call, so the second of two
  requests in one packet waits for data that may never come (`HttpServer.cpp:74`), against
  `HttpContext.hpp:14-17`, which names this case (粘包) and says the state machine solves it.
* `HttpStaleBody.cfg`: a request without a body, here a POST with `Content-Length: 0`, is shown the body of an earlier one, because `swap()` leaves
  `content_` out (`HttpRequest.hpp:126`), against `HttpRequest.hpp:125`, which says the request is emptied.
* `HttpAbort.cfg`: more data after a request line with an unknown version fail the assertion in
  `setMethod()` (`HttpRequest.hpp:29`).
* `PageCacheNullSpan.cfg` of `MCPageCache`: a null list head is taken for a span (`PageCache.cpp:17`, against the
  comment on line 94).

Met while modelling, without a configuration:

* Pool. Before `init()` is done again, a pool whose `init()` failed midway serves the connections it
  pushed (`DbConnectionPool.cpp:91`, against `DbConnectionPool.hpp:42`). `reconnect()` may fail between
  `connect()` and `setSchema()`; `ping()` calls such a connection healthy and statements run on it
  (`DbConnection.cpp:83-86`; the model's link "bare"). If the control block of the handle cannot be
  allocated, `shared_ptr` runs the deleter and the catch block pushes the connection a second time
  (`DbConnectionPool.cpp:109-110`).
* HTTP. Requests that arrive after the connection was shut down are still handled and their answers
  dropped (`HttpServer.cpp:120`). A POST rejected for want of a length keeps its request line and is
  handled when a later request supplies the header (`HttpContext.cpp:97`).
* Memory pool. A count past `blockCount` keeps a span for ever (`CentralCache.cpp:240`). A list that
  mixes spans and does not start with the returned one is dropped whole (`CentralCache.cpp:246-274`).
  A failed fetch leaves the counter one low and a later return loses a block
  (`ThreadCache.cpp:24`, `140`); `deallocate(ptr, 0)` returns a chain of which all but one block are
  lost (`ThreadCache.cpp:103`). All four lose memory and are steps of the models. After 1024 spans
  `getSpanTracker()` reads past its array (`CentralCache.cpp:300`), which the models bound away.
* Sessions. `ChatServer.h:127` says one user is logged in once at a time. A login that is refused
  because the user is online has already marked its session as logged in (`ChatLoginHandler.cpp:37-40`);
  two logins may both pass the check; `LoggedInOnce` in `SessionLogin.tla` states the comment, and adding it to
  `SessionLogin.cfg` shows a violation. The FIXME at `ChatLoginHandler.cpp:63-64` says that a second login is allowed for
  now; the code refuses it.
* Chat. `AIHelper` asks for a strategy named "aliyun" (`AIHelper.cpp:12`); `AIStrategy.cpp:175-178`
  registers "1" to "4". When the `publish()` of an answer throws, the client is told of an error (`AIHelper.cpp:75`, `154`)
  and the conversation shows the answer, which a restart may not find. `AIHelper.h:66` gives even and odd indexes their roles, which section 8 shows to hold only
  while nothing fails or overlaps.
* SSL. `SslConnection.cpp:213` says pending data are looked for in every case; the success path returns before (line 181), so
  that a client of a full TLS 1.2 handshake waits for ever. Plaintext is in a buffer of one call (`SslConnection.cpp:85`),
  so that a split or a pipelined request is lost, against `HttpContext.hpp:14-17`. One `SSL_write` with
  partial writes sends 16 KB of a response at most (`SslConnection.cpp:120`). A 400 goes out as plaintext
  over TLS (`HttpServer.cpp:69-84`).

## 13. Not modelled

`PROJECT.json` has an entry for every part.

* Outside `src/`: muduo, OpenSSL, MySQL, RabbitMQ and the AI services, beyond what they may do at their
  interface.
* Data: the text of responses, prompts, tool descriptions and SQL, CORS header values, the values of
  headers and query parameters. No property is about them.
* `SslConfig` and `SslContext`, which pass settings on, and `sslConns_`.
* `KLruKCache` and `KHashLruCaches`, which nothing in the repository instantiates.
* Speech synthesis: one thread creates a task and polls it up to sixty times, with no state that
  outlives the call; a model would only count.
* The base64 code, which is third-party; the image model; pages and files.
* The destructor of the database pool, which runs after an event loop that never ends;
  `isValid()` and `cleanup()` of a connection, which have no caller; `shutdown()` of the workers, likewise; what a
  result set reads after its connection went back, which happens inside the MySQL library.
* Undefined behaviour that the sections above name: containers that several threads change without a
  lock, more than 1024 spans.

Hazards the code has and `PROJECT.json` does not list, since its list holds those that matter most:
spans without a tracker (`CentralCache.cpp:107`), a handle that cannot be allocated (`DbConnectionPool.cpp:110`), `reconnect()` failing halfway
(`DbConnection.cpp:86`), requests after a shutdown (`HttpServer.cpp:121`), a negative Content-Length
(`HttpContext.cpp:102`), the lists of a thread that ends (`ThreadCache.h:13`), data after a failed
handshake (`SslConnection.cpp:208`), conversations in no list (`ChatSendHandler.cpp:51`), session lists under two
mutexes (`ChatCreateAndSendHandler.cpp:58`), ids from the clock (`AISessionIdGenerator.cpp:8`), and calls that block an
IO thread (`AIHelper.cpp:197`, `AISpeechProcessor.cpp:194`).
