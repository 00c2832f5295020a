------------------------ MODULE ProxyPoolRefinement ------------------------
(***************************************************************************)
(* ProxyPool implements EndpointPool.  An operation takes effect, for its  *)
(* callers, with its UPDATE, INSERT or DELETE: from then on the holder of  *)
(* failureMu is bound to bring memory into line, and the mapping counts    *)
(* the endpoint as already published, or already removed.                  *)
(***************************************************************************)
EXTENDS ProxyPool

Publishing(w, e) == pc[w] \in {"upsert_publish", "success_publish"} /\ job[w].e = e

BeingPublished(e) == \E w \in Worker : Publishing(w, e)

verdictMap ==
    [e \in Endpoint |-> IF row[e].gen = 0 THEN "unknown"
                        ELSE IF row[e].available THEN "healthy" ELSE "sick"]

servedMap ==
    {e \in Endpoint : (Live(e) \/ BeingPublished(e)) /\ ~BeingRemoved(e)}

delayedMap == {e \in Endpoint : now < retryAfter[e] /\ ~BeingPublished(e)}

lockedMap == {ip \in IP : Locked(ip)}

Contract ==
    INSTANCE EndpointPool WITH verdict <- verdictMap, served <- servedMap,
                               delayed <- delayedMap, locked <- lockedMap

\* The statement-by-statement cache, with failing writes, racing readers and
\* crashes, does nothing its callers could not see the one-step cache do.
ImplementsContract == Contract!PoolSpec
=============================================================================
