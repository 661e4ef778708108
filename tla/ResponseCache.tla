--------------------------- MODULE ResponseCache ---------------------------
(***************************************************************************)
(* Router::route with its response cache, on several threads: the look-up, *)
(* the handler and the store of a request are separate steps, between      *)
(* which other threads take theirs, time passes and what the handlers      *)
(* answer changes.                                                         *)
(*                                                                         *)
(* A target is a method and a path, which is also the default cache key.   *)
(* Each target has the version its handler would answer with.  Of a        *)
(* response only the target and version it was made for and the instant    *)
(* when it was made are kept; how its body is stored is in CachedResponse. *)
(***************************************************************************)
EXTENDS LruCache, CachedResponse

CONSTANTS Threads,
          Callbacks, Handlers, \* callbacks_ and handlers_: sets of targets
          CacheConfigs,        \* routeCacheConfigs_: ttlSeconds of some of them
          RegexCallbacks, RegexHandlers, \* regexCallbacks_ and regexHandlers_: sequences of
                               \* [matches |-> a set of targets, ttl |-> ttlSeconds or NoCache]
          NoCache, Targets,
          Params, Temp,        \* the parameters of put() and of LruNode(), and a temporary
          BodySize(_, _),      \* the size of the body of a target's version
          MaxVersion, MaxTime  \* bounds the changes and the clock

ASSUME RouteAssumption ==
  /\ Objects = Nodes \union Threads \union {Params[1], Params[2], Temp}
  /\ Threads \intersect Nodes = {} /\ IsFiniteSet(Threads)
  /\ {Params[1], Params[2], Temp} \intersect (Nodes \union Threads) = {}
  /\ Params[1] # Params[2] /\ Temp \notin {Params[1], Params[2]}
  /\ DOMAIN CacheConfigs \subseteq Callbacks \union Handlers
  /\ MaxVersion \in Nat /\ MaxTime \in Nat

VARIABLES now,      \* steady_clock
          version,  \* what the handlers would answer with
          pc,       \* of each thread: "idle", "handle", "pack", "store", or "hit"
          target,   \* of each thread: its request
          response, \* of each thread: its response, until it is stored or applied
          bodies    \* of each CachedResponse: its body

vars == <<lruVars, now, version, pc, target, response, bodies>>

None == [made |-> 0, target |-> Null, version |-> 0, expires |-> 0]

-----------------------------------------------------------------------------
\* The route of a target: its ttl, NoCache, or Null when nothing matches.
First(routes, x) == LET matching == {i \in DOMAIN routes : x \in routes[i].matches}
                    IN  routes[CHOOSE i \in matching : \A j \in matching : i <= j].ttl
Matched(routes, x) == \E i \in DOMAIN routes : x \in routes[i].matches

Ttl(x) == CASE x \in DOMAIN CacheConfigs -> CacheConfigs[x]
            [] x \in (Callbacks \union Handlers) \ DOMAIN CacheConfigs -> NoCache
            [] x \notin Callbacks \union Handlers /\ Matched(RegexCallbacks, x) ->
                 First(RegexCallbacks, x)
            [] x \notin Callbacks \union Handlers /\ ~Matched(RegexCallbacks, x)
                 /\ Matched(RegexHandlers, x) -> First(RegexHandlers, x)
            [] OTHER -> Null

Cached(x) == Ttl(x) \notin {NoCache, Null}
ASSUME KeysAssumption ==
  /\ Keys = {x \in Targets : Cached(x)}
  /\ \A x \in Keys : Ttl(x) \in Int
  /\ \A x \in Keys, v \in 0..MaxVersion : BodySize(x, v) \in Nat

\* The responses of x that are made by a time and from versions up to one.
Made(x, time, newest) ==
  {[made |-> m, target |-> x, version |-> v, expires |-> m + Ttl(x)] : m \in 0..time, v \in 0..newest}
ASSUME ValuesAssumption == \A x \in Keys : Made(x, MaxTime, MaxVersion) \subseteq Values

Init == /\ LruInit
        /\ now = 0
        /\ version = 0
        /\ pc = [t \in Threads |-> "idle"]
        /\ target = [t \in Threads |-> Null]
        /\ response = [t \in Threads |-> None]
        /\ bodies = NoBodies

Tick == /\ now < MaxTime
        /\ now' = now + 1
        /\ UNCHANGED <<lruVars, version, pc, target, response, bodies>>

Change == /\ version < MaxVersion
          /\ version' = version + 1
          /\ UNCHANGED <<lruVars, now, pc, target, response, bodies>>

-----------------------------------------------------------------------------
Goto(t, step) == pc' = [pc EXCEPT ![t] = step]

\* Mutant: the time to live is not looked at.
NeverExpired(r) == FALSE

isExpired(r) == now > r.expires

(* The value is copied out of the node: a temporary that getValue returns  *)
(* is moved into the local one.                                            *)
Fetched(t, n) == Destroy(MoveAssign(CopyConstruct(bodies, Temp, n), t, Temp), Temp)

Hit(t, x) ==
  /\ Cached(x)
  /\ get(x)
  /\ target' = [target EXCEPT ![t] = x]
  /\ LET found == valueOf[nodeMap[x]]
     IN  \/ /\ ~isExpired(found)
            /\ response' = [response EXCEPT ![t] = found]
            /\ Goto(t, "hit")
         \/ /\ isExpired(found)
            /\ Goto(t, "handle")
            /\ UNCHANGED response
  /\ bodies' = Destroy(Fetched(t, nodeMap[x]), t)

\* A target without route is answered by nobody here.
Miss(t, x) ==
  /\ Ttl(x) # Null
  /\ Cached(x) => nodeMap[x] = Null
  /\ target' = [target EXCEPT ![t] = x]
  /\ Goto(t, "handle")
  /\ UNCHANGED <<lruVars, response, bodies>>

Route(t, x) == /\ pc[t] = "idle"
               /\ Hit(t, x) \/ Miss(t, x)
               /\ UNCHANGED <<now, version>>

Return(t) == /\ Goto(t, "idle")
             /\ target' = [target EXCEPT ![t] = Null]
             /\ response' = [response EXCEPT ![t] = None]

\* CachedResponse::applyTo
ApplyTo(t) == /\ pc[t] = "hit"
              /\ Return(t)
              /\ UNCHANGED <<lruVars, now, version, bodies>>

\* The callback or handler of the route.
Handle(t) ==
  /\ pc[t] = "handle"
  /\ \/ /\ Cached(target[t])
        /\ response' = [response EXCEPT ![t] = [None EXCEPT !.target = target[t],
                                                             !.version = version]]
        /\ Goto(t, "pack")
        /\ UNCHANGED target
     \/ ~Cached(target[t]) /\ Return(t)
  /\ UNCHANGED <<lruVars, now, version, bodies>>

\* CachedResponse cachedResp(*resp, ttlSeconds)
Pack(t) ==
  /\ pc[t] = "pack"
  /\ response' = [response EXCEPT ![t].made = now, ![t].expires = now + Ttl(target[t])]
  /\ bodies' = Construct(bodies, t, BodySize(response[t].target, response[t].version))
  /\ Goto(t, "store")
  /\ UNCHANGED <<lruVars, now, version, target>>

(* put() has its own copy of the response; an existing node is assigned    *)
(* from it, a new one is made through another copy.                        *)
StoredBodies(t, x) ==
  LET param == CopyConstruct(bodies, Params[1], t)
      node == IF nodeMap[x] # Null THEN nodeMap[x] ELSE NewNode
      evicted == IF nodeMap[x] = Null /\ Full THEN Destroy(param, leastRecent) ELSE param
      made == CopyConstruct(CopyConstruct(evicted, Params[2], Params[1]), node, Params[2])
      put1 == CASE Capacity = 0 -> param
                [] Capacity > 0 /\ nodeMap[x] # Null -> CopyAssign(param, node, Params[1])
                [] OTHER -> Destroy(made, Params[2])
  IN  Destroy(Destroy(put1, Params[1]), t)

Store(t) ==
  /\ pc[t] = "store"
  /\ put(target[t], response[t])
  /\ bodies' = StoredBodies(t, target[t])
  /\ Return(t)
  /\ UNCHANGED <<now, version>>

Next == \/ Tick \/ Change
        \/ \E t \in Threads : \/ \E x \in Targets : Route(t, x)
                              \/ ApplyTo(t) \/ Handle(t) \/ Pack(t) \/ Store(t)

Spec == Init /\ [][Next]_vars

-----------------------------------------------------------------------------
\* The variables have their types, and a thread answers only for its own target.
TypeOK ==
  /\ now \in 0..MaxTime /\ version \in 0..MaxVersion
  /\ pc \in [Threads -> {"idle", "handle", "pack", "store", "hit"}]
  /\ target \in [Threads -> Targets \union {Null}]
  /\ \A t \in Threads : /\ response[t].target \in {target[t], Null}
                        /\ response[t].version <= version
  /\ \A k \in Keys : nodeMap[k] # Null => valueOf[nodeMap[k]].target = k

(* A response from the cache answers a route that caches, was made by a    *)
(* handler for this target, and at most the time to live before, whatever  *)
(* other threads put, evicted or refreshed between.                        *)
ServedFresh ==
  [][\A t \in Threads : pc[t] # "hit" /\ pc'[t] = "hit" =>
        /\ Cached(target'[t])
        /\ response'[t].target = target'[t]
        /\ now - response'[t].made <= Ttl(target'[t])]_vars

(* Every buffer is owned by one CachedResponse, one of a node of the cache *)
(* or of a request between packing and storing, with the size and origin   *)
(* it was allocated with; none is freed twice, and none is left behind by  *)
(* an eviction, an update or a look-up.                                    *)
BodiesOwned ==
  LET owners == {o \in Objects : bodies.own[o].buffer # NoBuffer}
  IN  /\ bodies.faults = {}
      /\ {bodies.own[o].buffer : o \in owners} = DOMAIN bodies.heap
      /\ Cardinality(owners) = Cardinality(DOMAIN bodies.heap)
      /\ owners \subseteq Mapped \union {t \in Threads : pc[t] = "store"}
=============================================================================
