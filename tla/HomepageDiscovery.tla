-------------------------- MODULE HomepageDiscovery --------------------------
(***************************************************************************)
(* server.py, the page of apps.  One single-threaded server lists the      *)
(* SecurityPolicies and then the HTTPRoutes of the cluster, keeps the join *)
(* of the two for CACHE_TTL, and shows each user the public routes and the *)
(* routes a policy names the user for.  Both kinds of objects change while *)
(* the server reads them, and the API server may not answer.               *)
(*                                                                         *)
(* There is no clock: ages run up to a cap, the cache's life runs down.    *)
(***************************************************************************)
EXTENDS Naturals

CONSTANTS
    Routes, Users,
    CACHE_TTL,
    Work,       \* the longest the two lists take
    CanFail,    \* environment: a list request may fail
    NoData      \* an empty cache, and a page not served

ASSUME ConstantsAssumption ==
    CACHE_TTL \in Nat /\ Work \in Nat /\ Work < CACHE_TTL /\ CanFail \in BOOLEAN

\* What the SecurityPolicies that target a route come to, and where it attaches.
Policy == [deny : BOOLEAN, allowed : SUBSET Users]
Attachment == {"absent", "hidden", "private", "public"}
Data == [policy : [Routes -> Policy], route : [Routes -> Attachment]]

ASSUME NoDataAssumption == NoData \notin Data

VARIABLES
    policy, route,       \* environment: route -> Policy, route -> Attachment
    pc,                  \* "idle", "policies", "routes"
    user,                \* whose request is handled
    took,                \* time since the handler read the clock
    read_policy,         \* the answer to the first list
    cache,               \* DISCOVERY_CACHE["data"]
    left,                \* time until DISCOVERY_CACHE["expires_at"]
    served,              \* the page a step has just sent
    \* History, read by the properties only.
    since,               \* time since the objects of a route changed, capped
    moved,               \* routes changed since the handler listed the policies
    cache_moved          \* routes changed since the policies of the cache were listed

environment == <<policy, route>>
handler == <<pc, user, took, read_policy>>
store == <<cache, left, cache_moved>>
vars == <<environment, handler, store, served, since, moved>>

IsPublic(r, policies, routes) == routes[r] = "public" /\ ~policies[r].deny
Listed(r, routes) == routes[r] \in {"private", "public"}

Init ==
    /\ policy \in [Routes -> Policy] /\ route \in [Routes -> Attachment]
    /\ pc = "idle" /\ user \in Users /\ took = 0
    /\ read_policy = NoData /\ cache = NoData /\ left = 0 /\ served = NoData
    /\ since = [r \in Routes |-> 0] /\ moved = {} /\ cache_moved = {}

-------------------------------------------------------------------------------
(* Time and the objects of the cluster.                                    *)

Tick ==
    /\ pc # "idle" => took < Work
    /\ took' = IF pc = "idle" THEN 0 ELSE took + 1
    /\ left' = IF left = 0 THEN 0 ELSE left - 1
    /\ since' = [r \in Routes |-> IF since[r] < CACHE_TTL THEN since[r] + 1 ELSE since[r]]
    /\ served' = NoData
    /\ UNCHANGED <<environment, pc, user, read_policy, cache, moved, cache_moved>>

Touch(r) ==
    /\ since' = [since EXCEPT ![r] = 0] /\ served' = NoData
    /\ moved' = IF pc = "routes" THEN moved \cup {r} ELSE {}
    /\ cache_moved' = IF cache # NoData THEN cache_moved \cup {r} ELSE {}
    /\ UNCHANGED <<handler, cache, left>>

PolicyChange(r) ==
    /\ \E p \in Policy \ {policy[r]} : policy' = [policy EXCEPT ![r] = p]
    /\ UNCHANGED route /\ Touch(r)

RouteChange(r) ==
    /\ \E a \in Attachment \ {route[r]} : route' = [route EXCEPT ![r] = a]
    /\ UNCHANGED policy /\ Touch(r)

-------------------------------------------------------------------------------
(* handle_home, discover_user_apps, discover_routes.                       *)

\* Public routes for everyone, and the routes whose policies name the user.
VisibleTo(u, data) ==
    {r \in Routes : Listed(r, data.route) /\
        (IsPublic(r, data.policy, data.route) \/ u \in data.policy[r].allowed)}

Serve(u, data, failed) ==
    /\ served' = [user |-> u, failed |-> failed,
                  apps |-> IF data = NoData THEN {} ELSE VisibleTo(u, data)]
    /\ pc' = "idle" /\ took' = 0 /\ read_policy' = NoData /\ moved' = {}
    /\ UNCHANGED <<environment, user, since>>

\* The cache answers while it is fresh.
CacheHit(u) ==
    /\ pc = "idle" /\ cache # NoData /\ left > 0
    /\ Serve(u, cache, FALSE)
    /\ UNCHANGED store

CacheMiss(u) ==
    /\ pc = "idle" /\ (cache = NoData \/ left = 0)
    /\ pc' = "policies" /\ user' = u /\ took' = 0
    /\ served' = NoData
    /\ UNCHANGED <<environment, read_policy, store, since, moved>>

ListPolicies ==
    /\ pc = "policies" /\ pc' = "routes" /\ read_policy' = policy
    /\ served' = NoData /\ moved' = {}
    /\ UNCHANGED <<environment, user, took, store, since>>

\* The clock was read before the lists: the cache lives from then on.
ExpiresAfterFetch == CACHE_TTL                                    \* mutant
Expires == CACHE_TTL - took

ListRoutes ==
    /\ pc = "routes"
    /\ LET data == [policy |-> read_policy, route |-> route]
       IN  Serve(user, data, FALSE) /\ cache' = data
    /\ left' = Expires /\ cache_moved' = moved

\* "stale cache better than nothing": whatever its age; else an error page.
FallbackNothing == NoData                                         \* mutant
Fallback == cache
ListFails ==
    /\ CanFail /\ pc \in {"policies", "routes"}
    /\ Serve(user, Fallback, TRUE)
    /\ UNCHANGED store

\* The process is replaced: rollout, eviction, or a liveness probe that went
\* unanswered while the one thread was waiting.
Restart ==
    /\ pc' = "idle" /\ took' = 0 /\ read_policy' = NoData
    /\ cache' = NoData /\ left' = 0 /\ served' = NoData
    /\ moved' = {} /\ cache_moved' = {}
    /\ UNCHANGED <<environment, user, since>>

Next ==
    \/ Tick \/ Restart
    \/ \E r \in Routes : PolicyChange(r) \/ RouteChange(r)
    \/ \E u \in Users : CacheHit(u) \/ CacheMiss(u)
    \/ ListPolicies \/ ListRoutes \/ ListFails

Spec == Init /\ [][Next]_vars

-------------------------------------------------------------------------------
(* Properties.                                                             *)

\* Every variable has the type the program gives it.
TypeOK ==
    /\ policy \in [Routes -> Policy] /\ route \in [Routes -> Attachment]
    /\ pc \in {"idle", "policies", "routes"} /\ user \in Users /\ took \in 0 .. Work
    /\ pc = "routes" => read_policy \in [Routes -> Policy]
    /\ left \in 0 .. CACHE_TTL
    /\ cache # NoData => cache \in Data
    /\ served # NoData => served \in [user : Users, failed : BOOLEAN, apps : SUBSET Routes]
    /\ since \in [Routes -> 0 .. CACHE_TTL]
    /\ moved \subseteq Routes /\ cache_moved \subseteq Routes

\* A page is at most CACHE_TTL out of date, unless a list has just failed: a
\* route whose policies and attachment have not changed for that long is on it
\* exactly when the user may see it.  The lists are read at two moments and the
\* page is served from a third, all of them within the life of the cache.
PagesAreFresh ==
    served # NoData /\ ~served.failed =>
        \A r \in Routes : since[r] >= CACHE_TTL =>
            (r \in served.apps
                <=> r \in VisibleTo(served.user, [policy |-> policy, route |-> route]))

\* server.py: "stale cache better than nothing".  There is no bound on the age of
\* what a page shows while lists fail, but an outage of any length neither hides
\* a route nor shows one to a user who may not see it, if the route has stood
\* still since the first of the two lists that the page rests on.
OutageHidesNothing ==
    served # NoData /\ cache # NoData =>
        \A r \in Routes \ cache_moved :
            (r \in served.apps
                <=> r \in VisibleTo(served.user, [policy |-> policy, route |-> route]))
==============================================================================
