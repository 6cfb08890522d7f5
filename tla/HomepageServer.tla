--------------------------- MODULE HomepageServer ---------------------------
(***************************************************************************)
(* server.py as one process: HTTPServer serves one request at a time, so a *)
(* request for the page of apps and one for the Garage page exclude each   *)
(* other, while the clock, the cluster and both caches go on under either. *)
(* HomepageDiscovery is the first kind of request, GaragePage the second.  *)
(***************************************************************************)
EXTENDS HomepageDiscovery, FiniteSets

CONSTANTS Queries, Workers, Timeout, Ttl

ASSUME GarageAssumption ==
    /\ Queries # {} /\ IsFiniteSet(Queries)
    /\ {Workers, Timeout, Ttl} \subseteq Nat \ {0}

VARIABLES g_pc, since_now, waiting, running, metrics, g_cache, g_left, g_served

garage == <<g_pc, since_now, waiting, running, metrics, g_cache, g_left, g_served>>

Garage == INSTANCE GaragePage
    WITH pc <- g_pc, cache <- g_cache, left <- g_left, served <- g_served

ServerInit == Init /\ Garage!Init

\* Both modules' clocks are one.
Clock == Tick /\ Garage!Tick

Cluster ==
    /\ \E r \in Routes : PolicyChange(r) \/ RouteChange(r)
    /\ UNCHANGED garage

\* do_GET: the one thread takes a request only when it has finished the last.
handle_home ==
    /\ g_pc = "idle"
    /\ (\E u \in Users : CacheHit(u) \/ CacheMiss(u)) \/ ListPolicies \/ ListRoutes \/ ListFails
    /\ UNCHANGED garage
handle_garage ==
    /\ pc = "idle"
    /\ Garage!Hit \/ Garage!Miss \/ Garage!Collect
       \/ \E q \in Queries : Garage!Submit(q) \/ Garage!Answered(q)
    /\ UNCHANGED vars

\* The caches are in memory: both are lost.
Replaced == Restart /\ Garage!Restart

ServerNext == Clock \/ Cluster \/ handle_home \/ handle_garage \/ Replaced

ServerSpec == ServerInit /\ [][ServerNext]_<<vars, garage>>

(* ------------------------------------------------------------ properties *)

\* Types of both halves, and the one thread: no request is handled inside another.
ServerTypeOK == TypeOK /\ Garage!TypeOK /\ (pc = "idle" \/ g_pc = "idle")

\* See GaragePage: a fetch holds the thread for a bounded time, so a user of the
\* page of apps, and the kubelet's probe, wait no longer than that for it.
FetchIsBounded == Garage!FetchIsBounded

\* No answer served from the Garage cache is as old as the cache's life; here
\* the cache grows old under the lists of the other page as well.
CachedIsRecent == Garage!CachedIsRecent

\* Where a fetch is shorter than the cache's life, a request that follows one at
\* once, as a refresh does, is answered from the cache.
RefreshHitsCache == Garage!RefreshHitsCache
=============================================================================
