--------------------------- MODULE MCResponseCache ---------------------------
(* Static and dynamic routes, cached and not; three cached targets and two *)
(* places, so that entries are evicted.  A body is empty, small or large.  *)
EXTENDS ResponseCache, TLC

CONSTANTS t1, t2, n1, n2, putParam, nodeParam

MCThreads == {t1, t2}
MCNodes == {n1, n2}
MCParams == <<putParam, nodeParam>>
MCObjects == MCNodes \union MCThreads \union {putParam, nodeParam, Temp}
MCBuffers == MCObjects \union {"leaked", "leaked too"}
MCTargets == {"page", "news", "user", "plain", "absent"}
MCCacheConfigs == [x \in {"page"} |-> 1]
MCRegexCallbacks == <<[matches |-> {"user"}, ttl |-> 0]>>
MCRegexHandlers == <<[matches |-> {"news", "user"}, ttl |-> 1]>>
MCBodySize(x, v) == IF x = "user" THEN 0 ELSE IF v = 0 THEN 1 ELSE 2
MCKeys == {"page", "news", "user"}
MCValues == {[made |-> m, target |-> x, version |-> v, expires |-> m + ttl] :
               m \in 0..MaxTime, x \in MCKeys, v \in 0..MaxVersion, ttl \in 0..1}
Symmetry == Permutations(MCThreads)
=============================================================================
