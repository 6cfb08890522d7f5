------------------------ MODULE HomepageServerProofs ------------------------
(***************************************************************************)
(* Proofs about the homepage server: for any routes, users and cache life, a *)
(* page of apps that is not an answer to a failed list is at most CACHE_TTL  *)
(* old, and an outage of any length hides no route that stood still; for any *)
(* queries, workers and timeout a fetch of the Garage metrics holds the one  *)
(* thread for no more rounds of queries than there must be, and leaves a     *)
(* cache whose answers are younger than its life.  Both halves are proved    *)
(* alone and then for the process that interleaves them.                     *)
(***************************************************************************)
EXTENDS HomepageServer, Integers, FiniteSetTheorems, TLAPS

-------------------------------------------------------------------------------
(* Types.                                                                   *)

LEMMA VisibleToType ==
    ASSUME NEW u \in Users, NEW data PROVE VisibleTo(u, data) \subseteq Routes
BY DEF VisibleTo

\* Every reachable state has the types the program gives its variables.
THEOREM TypeCorrect == Spec => []TypeOK
<1>1. Init => TypeOK
  BY ConstantsAssumption DEF Init, TypeOK
<1>2. TypeOK /\ [Next]_vars => TypeOK'
  <2> SUFFICES ASSUME TypeOK, [Next]_vars PROVE TypeOK'
    OBVIOUS
  <2> USE ConstantsAssumption DEF TypeOK
  <2>1. CASE Tick
    BY <2>1 DEF Tick, environment
  <2>2. CASE Restart
    BY <2>2 DEF Restart, environment
  <2>3. ASSUME NEW r \in Routes, PolicyChange(r) PROVE TypeOK'
    <3>1. policy' \in [Routes -> Policy] /\ route' \in [Routes -> Attachment]
      BY <2>3 DEF PolicyChange
    <3> QED BY <2>3, <3>1 DEF PolicyChange, Touch, handler, store
  <2>4. ASSUME NEW r \in Routes, RouteChange(r) PROVE TypeOK'
    <3>1. policy' \in [Routes -> Policy] /\ route' \in [Routes -> Attachment]
      BY <2>4 DEF RouteChange
    <3> QED BY <2>4, <3>1 DEF RouteChange, Touch, handler, store
  <2>5. ASSUME NEW u \in Users, CacheHit(u) PROVE TypeOK'
    BY <2>5, VisibleToType DEF CacheHit, Serve, environment, store
  <2>6. ASSUME NEW u \in Users, CacheMiss(u) PROVE TypeOK'
    BY <2>6 DEF CacheMiss, environment, store
  <2>7. CASE ListPolicies
    BY <2>7 DEF ListPolicies, environment, store
  <2>8. CASE ListRoutes
    BY <2>8, VisibleToType DEF ListRoutes, Serve, Expires, environment, Data
  <2>9. CASE ListFails
    BY <2>9, VisibleToType DEF ListFails, Serve, environment, store
  <2>10. CASE UNCHANGED vars
    BY <2>10 DEF vars, environment, handler, store
  <2> QED BY <2>1, <2>2, <2>3, <2>4, <2>5, <2>6, <2>7, <2>8, <2>9, <2>10 DEF Next
<1> QED BY <1>1, <1>2, PTL DEF Spec

-------------------------------------------------------------------------------
(* Freshness.                                                               *)

\* What was read of a route is still so unless the route changed since: while
\* a request is handled that is no longer ago than the request is old, and
\* while the cache lives no longer ago than the part of its life it has used.
ReadIsRecent ==
    pc = "routes" =>
        \A r \in Routes : read_policy[r] # policy[r] => since[r] <= took

CacheIsRecent ==
    cache # NoData /\ left > 0 =>
        \A r \in Routes :
            cache.policy[r] # policy[r] \/ cache.route[r] # route[r]
                => since[r] + left <= CACHE_TTL

AgeInv == TypeOK /\ ReadIsRecent /\ CacheIsRecent /\ PagesAreFresh

\* A page depends on a route's own policies and attachment only.
LEMMA VisibleIsPointwise ==
    ASSUME NEW u \in Users, NEW r \in Routes, NEW d, NEW e,
           d.policy[r] = e.policy[r], d.route[r] = e.route[r]
    PROVE  r \in VisibleTo(u, d) <=> r \in VisibleTo(u, e)
BY DEF VisibleTo, IsPublic, Listed

\* So a page built from data that is right about the old routes is fresh.
LEMMA ServeIsFresh ==
    ASSUME NEW u \in Users, NEW data \in Data, NEW failed \in BOOLEAN,
           Serve(u, data, failed),
           \A r \in Routes : since[r] >= CACHE_TTL =>
               data.policy[r] = policy[r] /\ data.route[r] = route[r]
    PROVE  PagesAreFresh'
<1> DEFINE now == [policy |-> policy, route |-> route]
<1>1. served'.apps = VisibleTo(u, data) /\ served'.user = u
  BY NoDataAssumption DEF Serve
<1>2. UNCHANGED <<policy, route, since>>
  BY DEF Serve, environment
<1>3. ASSUME NEW r \in Routes, since[r] >= CACHE_TTL
      PROVE  r \in VisibleTo(u, data) <=> r \in VisibleTo(u, now)
  BY <1>3, VisibleIsPointwise
<1>4. now' = now
  BY <1>2
<1>5. \A r \in Routes : since'[r] >= CACHE_TTL =>
        (r \in served'.apps <=> r \in VisibleTo(served'.user, now'))
  BY <1>1, <1>2, <1>3, <1>4
<1>6. VisibleTo(u, now)' = VisibleTo(u, now')
  BY <1>4 DEF VisibleTo, IsPublic, Listed
<1> QED BY <1>5 DEF PagesAreFresh, VisibleTo, IsPublic, Listed

\* A page is at most CACHE_TTL out of date, unless a list has just failed.
THEOREM PagesAreFreshCorrect == Spec => []PagesAreFresh
<1>1. Init /\ TypeOK => AgeInv
  BY DEF Init, AgeInv, ReadIsRecent, CacheIsRecent, PagesAreFresh
<1>2. AgeInv /\ TypeOK' /\ [Next]_vars => AgeInv'
  <2> SUFFICES ASSUME AgeInv, TypeOK', [Next]_vars
               PROVE  ReadIsRecent' /\ CacheIsRecent' /\ PagesAreFresh'
    BY DEF AgeInv
  <2> USE ConstantsAssumption DEF AgeInv, ReadIsRecent, CacheIsRecent
  <2>1. CASE Tick
    <3>1. \A r \in Routes : since[r] \in Nat /\ since'[r] <= since[r] + 1
      BY <2>1 DEF Tick, TypeOK
    <3>2. served' = NoData
      BY <2>1 DEF Tick
    <3>3. ReadIsRecent'
      BY <2>1, <3>1 DEF Tick, TypeOK, environment
    <3>4. CacheIsRecent'
      BY <2>1, <3>1 DEF Tick, TypeOK, environment
    <3> QED BY <3>2, <3>3, <3>4 DEF PagesAreFresh
  <2>2. CASE Restart
    BY <2>2 DEF Restart, PagesAreFresh
  <2>3. ASSUME NEW r \in Routes,
               PolicyChange(r) \/ RouteChange(r)
        PROVE  ReadIsRecent' /\ CacheIsRecent' /\ PagesAreFresh'
    <3>1. /\ UNCHANGED <<pc, took, read_policy, cache, left>>
          /\ served' = NoData /\ since' = [since EXCEPT ![r] = 0]
          /\ \A s \in Routes \ {r} : policy'[s] = policy[s] /\ route'[s] = route[s]
      BY <2>3 DEF PolicyChange, RouteChange, Touch, handler, store, TypeOK
    <3>2. since'[r] = 0 /\ \A s \in Routes \ {r} : since'[s] = since[s]
      BY <3>1 DEF TypeOK
    <3>3. took \in Nat /\ left \in Nat /\ left <= CACHE_TTL
      BY DEF TypeOK
    <3>4. ReadIsRecent'
      BY <3>1, <3>2, <3>3
    <3>5. CacheIsRecent'
      BY <3>1, <3>2, <3>3
    <3> QED BY <3>1, <3>4, <3>5 DEF PagesAreFresh
  <2>4. ASSUME NEW u \in Users, CacheHit(u)
        PROVE  ReadIsRecent' /\ CacheIsRecent' /\ PagesAreFresh'
    <3>1. cache \in Data /\ Serve(u, cache, FALSE)
      BY <2>4 DEF CacheHit, TypeOK
    <3>2. \A r \in Routes : since[r] >= CACHE_TTL =>
              cache.policy[r] = policy[r] /\ cache.route[r] = route[r]
      BY <2>4 DEF CacheHit, TypeOK
    <3>3. PagesAreFresh'
      BY <3>1, <3>2, ServeIsFresh
    <3> QED BY <2>4, <3>3 DEF CacheHit, Serve, store, environment
  <2>5. ASSUME NEW u \in Users, CacheMiss(u)
        PROVE  ReadIsRecent' /\ CacheIsRecent' /\ PagesAreFresh'
    BY <2>5 DEF CacheMiss, PagesAreFresh, environment, store
  <2>6. CASE ListPolicies
    BY <2>6 DEF ListPolicies, PagesAreFresh, environment, store
  <2>7. CASE ListRoutes
    <3> DEFINE data == [policy |-> read_policy, route |-> route]
    <3>1. data \in Data /\ user \in Users
      BY <2>7 DEF ListRoutes, TypeOK, Data
    <3>2. /\ Serve(user, data, FALSE) /\ cache' = data /\ left' = CACHE_TTL - took
          /\ UNCHANGED <<policy, route, since>> /\ pc' = "idle"
      BY <2>7 DEF ListRoutes, Expires, Serve, environment
    <3>3. took \in Nat /\ took < CACHE_TTL /\ since \in [Routes -> 0 .. CACHE_TTL]
      BY DEF TypeOK
    <3>4. \A r \in Routes : read_policy[r] # policy[r] => since[r] <= took
      BY <2>7 DEF ListRoutes
    <3>5. PagesAreFresh'
      <4>1. \A r \in Routes : since[r] >= CACHE_TTL =>
                data.policy[r] = policy[r] /\ data.route[r] = route[r]
        BY <3>3, <3>4
      <4>2. Serve(user, data, FALSE)
        BY <3>2
      <4> HIDE DEF data
      <4> QED BY <3>1, <4>1, <4>2, ServeIsFresh
    <3>6. CacheIsRecent'
      BY <3>2, <3>3, <3>4
    <3> QED BY <3>2, <3>5, <3>6
  <2>8. CASE ListFails
    BY <2>8 DEF ListFails, Serve, PagesAreFresh, store, environment
  <2>9. CASE UNCHANGED vars
    BY <2>9 DEF vars, environment, handler, store, PagesAreFresh, VisibleTo, IsPublic, Listed
  <2> QED BY <2>1, <2>2, <2>3, <2>4, <2>5, <2>6, <2>7, <2>8, <2>9 DEF Next
<1>3. AgeInv => PagesAreFresh
  BY DEF AgeInv
<1> QED BY <1>1, <1>2, <1>3, TypeCorrect, PTL DEF Spec

-------------------------------------------------------------------------------
(* Outages.                                                                 *)

\* What the handler has read of a route that stood still since is what the
\* cluster has now, and so is what the cache holds, however old it is.
ReadStands ==
    pc = "routes" => \A r \in Routes \ moved : read_policy[r] = policy[r]

CacheStands ==
    cache # NoData =>
        \A r \in Routes \ cache_moved :
            cache.policy[r] = policy[r] /\ cache.route[r] = route[r]

StandInv == ReadStands /\ CacheStands /\ OutageHidesNothing

\* A page built from the data that the cache holds after the step.
LEMMA ServeStands ==
    ASSUME NEW u, NEW failed, Serve(u, cache', failed), CacheStands'
    PROVE  OutageHidesNothing'
<1> SUFFICES ASSUME cache' # NoData, NEW r \in Routes, r \notin cache_moved'
             PROVE  r \in served'.apps
                      <=> r \in VisibleTo(served'.user, [policy |-> policy', route |-> route'])
  BY DEF OutageHidesNothing, VisibleTo, IsPublic, Listed
<1>1. served'.apps = VisibleTo(u, cache') /\ served'.user = u
  BY DEF Serve
<1>2. cache'.policy[r] = policy'[r] /\ cache'.route[r] = route'[r]
  BY DEF CacheStands
<1> QED BY <1>1, <1>2 DEF VisibleTo, IsPublic, Listed

\* An outage neither hides nor reveals a route that stood still.
THEOREM OutageHidesNothingCorrect == Spec => []OutageHidesNothing
<1>1. Init => StandInv
  BY DEF Init, StandInv, ReadStands, CacheStands, OutageHidesNothing
<1>2. TypeOK /\ StandInv /\ [Next]_vars => StandInv'
  <2> SUFFICES ASSUME TypeOK, StandInv, [Next]_vars PROVE StandInv'
    OBVIOUS
  <2> USE DEF StandInv, ReadStands, CacheStands
  <2>1. CASE Tick
    BY <2>1 DEF Tick, environment, OutageHidesNothing
  <2>2. CASE Restart
    BY <2>2 DEF Restart, OutageHidesNothing
  <2>3. ASSUME NEW r \in Routes, PolicyChange(r) \/ RouteChange(r) PROVE StandInv'
    <3>1. /\ UNCHANGED <<pc, read_policy, cache>> /\ served' = NoData
          /\ pc = "routes" => moved' = moved \cup {r}
          /\ cache # NoData => cache_moved' = cache_moved \cup {r}
          /\ \A s \in Routes \ {r} : policy'[s] = policy[s] /\ route'[s] = route[s]
      BY <2>3 DEF PolicyChange, RouteChange, Touch, handler, TypeOK
    <3> QED BY <3>1 DEF OutageHidesNothing
  <2>4. ASSUME NEW u \in Users, CacheHit(u) PROVE StandInv'
    <3>1. CacheStands' /\ ReadStands'
      BY <2>4 DEF CacheHit, Serve, environment, store
    <3>2. Serve(u, cache', FALSE)
      BY <2>4 DEF CacheHit, store
    <3> QED BY <3>1, <3>2, ServeStands
  <2>5. ASSUME NEW u \in Users, CacheMiss(u) PROVE StandInv'
    BY <2>5 DEF CacheMiss, environment, store, OutageHidesNothing
  <2>6. CASE ListPolicies
    BY <2>6 DEF ListPolicies, environment, store, OutageHidesNothing
  <2>7. CASE ListRoutes
    <3>1. CacheStands' /\ ReadStands'
      BY <2>7 DEF ListRoutes, Serve, environment
    <3>2. Serve(user, cache', FALSE)
      BY <2>7 DEF ListRoutes
    <3> QED BY <3>1, <3>2, ServeStands
  <2>8. CASE ListFails
    <3>1. CacheStands' /\ ReadStands'
      BY <2>8 DEF ListFails, Serve, environment, store
    <3>2. Serve(user, cache', TRUE)
      BY <2>8 DEF ListFails, Fallback, store
    <3> QED BY <3>1, <3>2, ServeStands
  <2>9. CASE UNCHANGED vars
    BY <2>9 DEF vars, environment, handler, store, OutageHidesNothing, VisibleTo, IsPublic, Listed
  <2> QED BY <2>1, <2>2, <2>3, <2>4, <2>5, <2>6, <2>7, <2>8, <2>9 DEF Next
<1>3. StandInv => OutageHidesNothing
  BY DEF StandInv
<1> QED BY <1>1, <1>2, <1>3, TypeCorrect, PTL DEF Spec

-------------------------------------------------------------------------------
(* The Garage page: types.                                                  *)

IsFun(f) == f = [q \in DOMAIN f |-> f[q]]

\* What a fetch has asked of the pool: each query waits, runs or is answered.
Pool ==
    /\ IsFun(running)
    /\ g_pc = "idle" => since_now = 0
    /\ g_pc = "fetch" =>
        /\ waiting \cup DOMAIN running \cup DOMAIN metrics = Queries
        /\ DOMAIN running \cap DOMAIN metrics = {}
        /\ waiting \cap (DOMAIN running \cup DOMAIN metrics) = {}

PoolInv == Garage!TypeOK /\ Pool

\* The module of the page counts as this one does.
LEMMA SameCardinality == \A S : Garage!Cardinality(S) = Cardinality(S)
BY Zenon DEF Garage!Cardinality, Cardinality

LEMMA RoundsIs == Garage!Rounds = (Cardinality(Queries) + Workers - 1) \div Workers
BY SameCardinality DEF Garage!Rounds

LEMMA FunWith ==
    ASSUME NEW f, NEW q, NEW v
    PROVE  LET g == [p \in DOMAIN f \cup {q} |-> IF p = q THEN v ELSE f[p]]
           IN  /\ DOMAIN g = DOMAIN f \cup {q} /\ IsFun(g)
               /\ g[q] = v /\ \A p \in DOMAIN f \ {q} : g[p] = f[p]
BY DEF IsFun

LEMMA FunWithout ==
    ASSUME NEW f, NEW q
    PROVE  LET g == [p \in DOMAIN f \ {q} |-> f[p]]
           IN  /\ DOMAIN g = DOMAIN f \ {q} /\ IsFun(g)
               /\ \A p \in DOMAIN f \ {q} : g[p] = f[p]
BY DEF IsFun

LEMMA AgedType ==
    ASSUME NEW f, \A q \in DOMAIN f : f[q] \in 0 .. Ttl
    PROVE  /\ DOMAIN Garage!Aged(f) = DOMAIN f
           /\ \A q \in DOMAIN f : /\ Garage!Aged(f)[q] \in 0 .. Ttl
                                 /\ Garage!Aged(f)[q] <= f[q] + 1
BY GarageAssumption DEF Garage!Aged, Garage!Older

\* Nothing is asked of the pool.
LEMMA PoolEmpty ==
    ASSUME g_pc' = "idle", since_now' = 0, waiting' = {},
           running' = Garage!Empty, metrics' = Garage!Empty, g_left' \in 0 .. Ttl
    PROVE  PoolInv'
BY DEF PoolInv, Pool, IsFun, Garage!TypeOK, Garage!Empty

LEMMA PoolInit == Garage!Init => PoolInv
BY GarageAssumption DEF Garage!Init, PoolInv, Pool, IsFun, Garage!TypeOK, Garage!Empty

LEMMA LifeType == ASSUME since_now \in Nat PROVE Garage!Life \in 0 .. Ttl
BY GarageAssumption DEF Garage!Life

LEMMA PoolStep == PoolInv /\ [Garage!Next]_Garage!vars => PoolInv'
<1> SUFFICES ASSUME PoolInv, [Garage!Next]_Garage!vars PROVE PoolInv'
  OBVIOUS
<1> USE GarageAssumption DEF PoolInv, Pool
<1>1. CASE Garage!Tick
  <2>1. /\ g_pc' = g_pc /\ waiting' = waiting
        /\ since_now' \in Nat /\ (g_pc = "idle" => since_now' = 0)
    BY <1>1 DEF Garage!Tick, Garage!TypeOK
  <2>2. g_left' \in 0 .. Ttl
    BY <1>1 DEF Garage!Tick, Garage!TypeOK
  <2>3. /\ DOMAIN metrics' = DOMAIN metrics
        /\ \A q \in DOMAIN metrics' : metrics'[q] \in 0 .. Ttl
        /\ g_pc = "idle" => metrics' = Garage!Empty
    <3>1. \A q \in DOMAIN metrics : metrics[q] \in 0 .. Ttl
      BY DEF Garage!TypeOK, Garage!Ages
    <3>2. metrics' = Garage!Aged(metrics)
      BY <1>1 DEF Garage!Tick
    <3>3. g_pc = "idle" => metrics' = Garage!Empty
      BY <3>2 DEF Garage!TypeOK, Garage!Empty, Garage!Aged
    <3> QED BY <3>1, <3>2, <3>3, AgedType
  <2>4. /\ running' = [q \in DOMAIN running |-> running[q] + 1]
        /\ DOMAIN running' = DOMAIN running /\ IsFun(running')
    BY <1>1 DEF Garage!Tick, IsFun
  <2>5. \A q \in DOMAIN running' : running'[q] \in 0 .. Timeout
    <3>1. CASE g_pc = "idle"
      BY <2>4, <3>1 DEF Garage!TypeOK, Garage!Empty
    <3>2. CASE g_pc = "fetch"
      BY <1>1, <2>4, <3>2 DEF Garage!Tick, Garage!TypeOK
    <3> QED BY <3>1, <3>2 DEF Garage!TypeOK
  <2>6. g_pc = "idle" => running' = Garage!Empty
    BY <2>4 DEF Garage!TypeOK, Garage!Empty
  <2> QED BY <2>1, <2>2, <2>3, <2>4, <2>5, <2>6 DEF Garage!TypeOK, Garage!Ages
<1>2. CASE Garage!Restart
  BY <1>2, PoolEmpty DEF Garage!Restart
<1>3. CASE Garage!Hit
  BY <1>3 DEF Garage!Hit, Garage!TypeOK
<1>4. CASE Garage!Miss
  BY <1>4 DEF Garage!Miss, Garage!TypeOK, Garage!Empty
<1>5. CASE Garage!Collect
  <2>1. g_pc = "fetch" /\ DOMAIN metrics = Queries /\ UNCHANGED <<waiting, running>>
    BY <1>5 DEF Garage!Collect, Garage!AllAnswered
  <2>2. waiting = {} /\ running = Garage!Empty
    <3>1. waiting = {} /\ DOMAIN running = {}
      BY <2>1 DEF Garage!TypeOK
    <3>2. \A f : IsFun(f) /\ DOMAIN f = {} => f = Garage!Empty
      BY DEF IsFun, Garage!Empty
    <3> QED BY <3>1, <3>2
  <2>3. g_left' \in 0 .. Ttl
    BY <1>5, LifeType DEF Garage!Collect, Garage!Store, Garage!TypeOK
  <2> QED BY <1>5, <2>1, <2>2, <2>3, PoolEmpty DEF Garage!Collect
<1>6. ASSUME NEW q \in Queries, Garage!Submit(q) PROVE PoolInv'
  <2>1. /\ UNCHANGED <<g_pc, since_now, metrics, g_cache, g_left>>
        /\ q \in waiting /\ waiting' = waiting \ {q}
        /\ running' = Garage!With(running, q, 0)
    BY <1>6 DEF Garage!Submit
  <2>2. g_pc = "fetch"
    BY <2>1 DEF Garage!TypeOK
  <2>3. /\ DOMAIN running' = DOMAIN running \cup {q} /\ IsFun(running')
        /\ running'[q] = 0 /\ \A p \in DOMAIN running \ {q} : running'[p] = running[p]
    <3>1. running' = [p \in DOMAIN running \cup {q} |-> IF p = q THEN 0 ELSE running[p]]
      BY <2>1 DEF Garage!With
    <3>2. IsFun(running')
      BY <3>1, Zenon DEF IsFun
    <3> QED BY <3>1, <3>2
  <2>4. \A p \in DOMAIN running' : running'[p] \in 0 .. Timeout
    BY <2>3 DEF Garage!TypeOK
  <2> QED BY <2>1, <2>2, <2>3, <2>4 DEF Garage!TypeOK
<1>7. ASSUME NEW q \in Queries, Garage!Answered(q) PROVE PoolInv'
  <2>1. /\ UNCHANGED <<g_pc, since_now, waiting, g_cache, g_left>>
        /\ q \in DOMAIN running /\ running' = Garage!Without(running, q)
        /\ metrics' = Garage!With(metrics, q, 0)
    BY <1>7 DEF Garage!Answered
  <2>2. g_pc = "fetch"
    BY <2>1 DEF Garage!TypeOK, Garage!Empty
  <2>3. /\ DOMAIN running' = DOMAIN running \ {q} /\ IsFun(running')
        /\ \A p \in DOMAIN running \ {q} : running'[p] = running[p]
    BY <2>1, FunWithout DEF Garage!Without
  <2>4. /\ DOMAIN metrics' = DOMAIN metrics \cup {q}
        /\ metrics'[q] = 0 /\ \A p \in DOMAIN metrics \ {q} : metrics'[p] = metrics[p]
    BY <2>1, FunWith DEF Garage!With
  <2>5. /\ \A p \in DOMAIN running' : running'[p] \in 0 .. Timeout
        /\ \A p \in DOMAIN metrics' : metrics'[p] \in 0 .. Ttl
    BY <2>3, <2>4 DEF Garage!TypeOK, Garage!Ages
  <2> QED BY <2>1, <2>2, <2>3, <2>4, <2>5 DEF Garage!TypeOK, Garage!Ages
<1>8. CASE UNCHANGED Garage!vars
  BY <1>8 DEF Garage!vars, Garage!TypeOK
<1> QED BY <1>1, <1>2, <1>3, <1>4, <1>5, <1>6, <1>7, <1>8 DEF Garage!Next

LEMMA PoolCorrect == Garage!Spec => []PoolInv
BY PoolInit, PoolStep, PTL DEF Garage!Spec

-------------------------------------------------------------------------------
(* The Garage page: how long a fetch takes.                                 *)

\* The queries that have been answered, or have run that long.
Past(x) == DOMAIN metrics \cup {q \in DOMAIN running : running[q] >= x}

\* x into round m + 1, every worker has had a query for each of the rounds
\* begun, or there are no more: the thread never waits beside a free worker.
Waves(m, x) ==
    /\ since_now = m * Timeout + x /\ m < Garage!Rounds
    /\ Past(x) = Queries \/ Cardinality(Past(x)) >= (m + 1) * Workers
InRounds ==
    g_pc = "fetch" => since_now = 0 \/ \E m \in Nat, x \in 1 .. Timeout : Waves(m, x)

LEMMA RoundsCover ==
    /\ Cardinality(Queries) \in Nat \ {0} /\ Garage!Rounds \in Nat \ {0}
    /\ Cardinality(Queries) <= Garage!Rounds * Workers
<1> DEFINE n == Cardinality(Queries)
<1>1. n \in Nat /\ n # 0
  BY GarageAssumption, FS_CardinalityType, FS_EmptySet
<1>2. \A a \in Nat, w \in Nat \ {0} :
        /\ a \div w \in Nat /\ a < (a \div w) * w + w
        /\ a >= w => a \div w # 0
  OBVIOUS
<1>3. Workers \in Nat \ {0} /\ n + Workers - 1 \in Nat
  BY <1>1, GarageAssumption
<1> DEFINE r == (n + Workers - 1) \div Workers
<1>4. r \in Nat /\ n + Workers - 1 < r * Workers + Workers /\ r # 0
  <2>1. n + Workers - 1 >= Workers
    BY <1>1, <1>3
  <2> HIDE DEF n
  <2> QED BY <1>2, <1>3, <2>1
<1>5. n <= r * Workers
  <2>1. r * Workers \in Nat
    BY <1>3, <1>4
  <2> HIDE DEF n, r
  <2> QED BY <1>1, <1>3, <1>4, <2>1
<1> QED BY <1>1, <1>4, <1>5, RoundsIs

LEMMA PastType ==
    ASSUME PoolInv, g_pc = "fetch", NEW x
    PROVE  /\ Past(x) \subseteq Queries /\ IsFiniteSet(Past(x))
           /\ Cardinality(Past(x)) \in Nat
<1>1. Past(x) \subseteq Queries
  BY DEF Past, PoolInv, Pool
<1> QED BY <1>1, GarageAssumption, FS_Subset, FS_CardinalityType

\* Nothing ever leaves the queries past a time but the end of the fetch.
LEMMA WavesKept ==
    ASSUME PoolInv, PoolInv', g_pc = "fetch", g_pc' = "fetch", since_now' = since_now,
           \A x \in 1 .. Timeout : Past(x) \subseteq Past(x)',
           InRounds
    PROVE  InRounds'
<1> SUFFICES ASSUME since_now # 0
             PROVE  \E m \in Nat, x \in 1 .. Timeout : Waves(m, x)'
  BY DEF InRounds
<1>1. PICK m \in Nat, x \in 1 .. Timeout : Waves(m, x)
  BY DEF InRounds
<1>2. /\ Past(x) \subseteq Past(x)' /\ Past(x)' \subseteq Queries /\ IsFiniteSet(Past(x)')
      /\ Cardinality(Past(x)') \in Nat /\ Cardinality(Past(x)) \in Nat
  <2>1. Past(x)' \subseteq Queries
    BY DEF Past, PoolInv, Pool
  <2> QED BY <2>1, PastType, GarageAssumption, FS_Subset, FS_CardinalityType
<1>3. Cardinality(Past(x)) <= Cardinality(Past(x)')
  BY <1>2, FS_Subset
<1>4. CASE Past(x) = Queries
  <2>1. Past(x)' = Queries
    BY <1>2, <1>4
  <2>2. Waves(m, x)'
    BY <1>1, <2>1 DEF Waves, Garage!Rounds
  <2> QED BY <2>2
<1>5. CASE Cardinality(Past(x)) >= (m + 1) * Workers
  <2>1. (m + 1) * Workers \in Nat
    BY GarageAssumption
  <2>2. Cardinality(Past(x)') >= (m + 1) * Workers
    BY <1>2, <1>3, <1>5, <2>1
  <2>3. Waves(m, x)'
    BY <1>1, <2>2 DEF Waves, Garage!Rounds
  <2> QED BY <2>3
<1> QED BY <1>1, <1>4, <1>5 DEF Waves

\* The clock moves within a round, or to the next one: those of the round before
\* have then all been answered, and every worker has taken another query.
LEMMA WavesGrow ==
    ASSUME PoolInv, PoolInv', InRounds, Garage!Tick, g_pc = "fetch"
    PROVE  InRounds'
<1>1. /\ waiting = {} \/ Cardinality(DOMAIN running) = Workers
      /\ running # Garage!Empty /\ \A q \in DOMAIN running : running[q] < Timeout
      /\ g_pc' = "fetch" /\ since_now' = since_now + 1 /\ since_now \in Nat
      /\ running' = [q \in DOMAIN running |-> running[q] + 1]
      /\ DOMAIN running' = DOMAIN running /\ DOMAIN metrics' = DOMAIN metrics
  <2>1. waiting = {} \/ Cardinality(DOMAIN running) = Workers
    BY SameCardinality DEF Garage!Tick, Garage!Slots
  <2>2. DOMAIN running' = DOMAIN running /\ DOMAIN metrics' = DOMAIN metrics
    BY DEF Garage!Tick, Garage!Aged
  <2> QED BY <2>1, <2>2 DEF Garage!Tick, PoolInv, Garage!TypeOK
<1>2. /\ waiting \cup DOMAIN running \cup DOMAIN metrics = Queries
      /\ DOMAIN running \cap DOMAIN metrics = {}
      /\ \A q \in DOMAIN running : running[q] \in 0 .. Timeout
  BY DEF PoolInv, Pool, Garage!TypeOK
<1>3. DOMAIN running # {}
  <2>1. \A f : IsFun(f) /\ DOMAIN f = {} => f = Garage!Empty
    BY DEF IsFun, Garage!Empty
  <2> QED BY <1>1, <2>1 DEF PoolInv, Pool
<1>4. {Workers, Timeout} \subseteq Nat \ {0}
  BY GarageAssumption
<1>5. ASSUME NEW m \in Nat, NEW x \in 1 .. Timeout, Waves(m, x)', InRounds
      PROVE  InRounds'
  BY <1>5 DEF InRounds
<1>6. Past(1)' = DOMAIN metrics \cup DOMAIN running
  BY <1>1, <1>2 DEF Past
<1>7. /\ IsFiniteSet(DOMAIN metrics) /\ IsFiniteSet(DOMAIN running)
      /\ Cardinality(DOMAIN metrics) \in Nat /\ Cardinality(DOMAIN running) \in Nat
      /\ Cardinality(Past(1)') = Cardinality(DOMAIN metrics) + Cardinality(DOMAIN running)
  <2>1. IsFiniteSet(DOMAIN metrics) /\ IsFiniteSet(DOMAIN running)
    BY <1>2, GarageAssumption, FS_Subset
  <2>2. DOMAIN metrics \cap DOMAIN running = {}
    BY <1>2
  <2>3. Cardinality(DOMAIN metrics) \in Nat /\ Cardinality(DOMAIN running) \in Nat
    BY <2>1, FS_CardinalityType
  <2>4. Cardinality(DOMAIN metrics \cup DOMAIN running)
            = Cardinality(DOMAIN metrics) + Cardinality(DOMAIN running)
              - Cardinality(DOMAIN metrics \cap DOMAIN running)
    BY <2>1, FS_Union
  <2>5. Cardinality(DOMAIN metrics \cap DOMAIN running) = 0
    BY <2>2, FS_EmptySet
  <2>6. Cardinality(DOMAIN metrics \cup DOMAIN running)
            = Cardinality(DOMAIN metrics) + Cardinality(DOMAIN running)
    BY <2>3, <2>4, <2>5
  <2>7. Cardinality(Past(1)') = Cardinality(DOMAIN metrics \cup DOMAIN running)
    BY <1>6
  <2> QED BY <2>1, <2>3, <2>6, <2>7
<1>8. CASE since_now = 0
  <2>1. Past(1)' = Queries \/ Cardinality(Past(1)') >= (0 + 1) * Workers
    <3>1. waiting = {} => Past(1)' = Queries
      BY <1>2, <1>6
    <3>2. Cardinality(DOMAIN running) = Workers => Cardinality(Past(1)') >= (0 + 1) * Workers
      BY <1>4, <1>7
    <3> QED BY <1>1, <3>1, <3>2
  <2>2. since_now' = 0 * Timeout + 1 /\ 0 < Garage!Rounds
    BY <1>1, <1>4, <1>8, RoundsCover
  <2>3. Waves(0, 1)'
    BY <2>1, <2>2 DEF Waves, Garage!Rounds
  <2> QED BY <1>4, <1>5, <2>3
<1>9. CASE since_now # 0
  <2>1. PICK m \in Nat, x \in 1 .. Timeout : Waves(m, x)
    BY <1>1, <1>9 DEF InRounds
  <2>2. (m + 1) * Workers \in Nat /\ m * Timeout \in Nat
    BY <1>4
  <2>3. CASE x < Timeout
    <3>1. Past(x + 1)' = Past(x)
      BY <1>1, <1>2 DEF Past
    <3>2. since_now' = m * Timeout + (x + 1) /\ x + 1 \in 1 .. Timeout
      BY <1>1, <1>4, <2>1, <2>2, <2>3 DEF Waves
    <3>3. Waves(m, x + 1)'
      BY <2>1, <3>1, <3>2 DEF Waves, Garage!Rounds
    <3> QED BY <1>5, <3>2, <3>3
  <2>4. CASE x = Timeout
    <3>1. Past(x) = DOMAIN metrics
      BY <1>1, <1>2, <1>4, <2>4 DEF Past
    <3>2. DOMAIN metrics # Queries /\ DOMAIN metrics \subseteq Queries
      BY <1>2, <1>3
    <3>3. Cardinality(DOMAIN metrics) >= (m + 1) * Workers
      BY <2>1, <3>1, <3>2 DEF Waves
    <3>4. Cardinality(DOMAIN metrics) < Cardinality(Queries)
      <4>1. Cardinality(DOMAIN metrics) <= Cardinality(Queries)
        BY <3>2, GarageAssumption, FS_Subset
      <4>2. Cardinality(DOMAIN metrics) # Cardinality(Queries)
        BY <3>2, GarageAssumption, FS_Subset
      <4> QED BY <1>7, <4>1, <4>2, RoundsCover
    <3>5. m + 1 < Garage!Rounds
      <4> DEFINE r == Garage!Rounds
      <4>1. (m + 1) * Workers < r * Workers /\ r \in Nat /\ r * Workers \in Nat
        BY <1>4, <1>7, <2>2, <3>3, <3>4, RoundsCover
      <4> HIDE DEF r
      <4>2. ASSUME r <= m + 1 PROVE r * Workers <= (m + 1) * Workers
        BY <1>4, <4>1, <4>2
      <4>3. m + 1 < r
        BY <1>4, <2>2, <4>1, <4>2
      <4> QED BY <4>3 DEF r
    <3>6. Past(1)' = Queries \/ Cardinality(Past(1)') >= (m + 1 + 1) * Workers
      <4>1. (m + 1 + 1) * Workers = (m + 1) * Workers + Workers
        BY <1>4
      <4>2. waiting = {} => Past(1)' = Queries
        BY <1>2, <1>6
      <4>3. Cardinality(DOMAIN running) = Workers
              => Cardinality(Past(1)') >= (m + 1) * Workers + Workers
        BY <1>4, <1>7, <2>2, <3>3
      <4> QED BY <1>1, <4>1, <4>2, <4>3
    <3>7. since_now' = (m + 1) * Timeout + 1
      <4>1. (m + 1) * Timeout = m * Timeout + Timeout
        BY <1>4
      <4> QED BY <1>1, <1>4, <2>1, <2>2, <2>4, <4>1 DEF Waves
    <3>8. Waves(m + 1, 1)'
      BY <3>5, <3>6, <3>7 DEF Waves, Garage!Rounds
    <3> QED BY <1>4, <1>5, <3>8
  <2> QED BY <1>4, <2>1, <2>3, <2>4
<1> QED BY <1>8, <1>9

LEMMA RoundsStep == PoolInv /\ PoolInv' /\ InRounds /\ [Garage!Next]_Garage!vars => InRounds'
<1> SUFFICES ASSUME PoolInv, PoolInv', InRounds, [Garage!Next]_Garage!vars
             PROVE  InRounds'
  OBVIOUS
<1>1. CASE Garage!Tick
  <2>1. CASE g_pc = "fetch"
    BY <1>1, <2>1, WavesGrow
  <2>2. CASE g_pc # "fetch"
    BY <1>1, <2>2 DEF Garage!Tick, InRounds
  <2> QED BY <2>1, <2>2
<1>2. CASE Garage!Restart \/ Garage!Miss \/ Garage!Collect
  BY <1>2 DEF Garage!Restart, Garage!Miss, Garage!Collect, InRounds
<1>3. CASE UNCHANGED Garage!vars \/ Garage!Hit
  BY <1>3 DEF Garage!vars, Garage!Hit, InRounds, Waves, Past, Garage!Rounds
<1>4. ASSUME NEW q \in Queries, Garage!Submit(q) PROVE InRounds'
  <2>1. /\ g_pc = "fetch" /\ g_pc' = g_pc /\ since_now' = since_now
        /\ metrics' = metrics /\ q \notin DOMAIN running
    BY <1>4 DEF Garage!Submit, PoolInv, Pool, Garage!TypeOK
  <2>2. running' = [p \in DOMAIN running \cup {q} |-> IF p = q THEN 0 ELSE running[p]]
    BY <1>4 DEF Garage!Submit, Garage!With
  <2>3. ASSUME NEW x \in 1 .. Timeout PROVE Past(x) \subseteq Past(x)'
    BY <2>1, <2>2 DEF Past
  <2> QED BY <2>1, <2>3, WavesKept
<1>5. ASSUME NEW q \in Queries, Garage!Answered(q) PROVE InRounds'
  <2>1. /\ g_pc = "fetch" /\ g_pc' = g_pc /\ since_now' = since_now
        /\ q \in DOMAIN running
    BY <1>5 DEF Garage!Answered, Garage!Empty, PoolInv, Garage!TypeOK
  <2>2. running' = [p \in DOMAIN running \ {q} |-> running[p]]
    BY <1>5 DEF Garage!Answered, Garage!Without
  <2>3. DOMAIN metrics' = DOMAIN metrics \cup {q}
    BY <1>5 DEF Garage!Answered, Garage!With
  <2>4. ASSUME NEW x \in 1 .. Timeout PROVE Past(x) \subseteq Past(x)'
    BY <2>2, <2>3 DEF Past
  <2> QED BY <2>1, <2>4, WavesKept
<1> QED BY <1>1, <1>2, <1>3, <1>4, <1>5 DEF Garage!Next

LEMMA RoundsCorrect == Garage!Spec => []InRounds
<1>1. Garage!Init => InRounds
  BY DEF Garage!Init, InRounds
<1> QED BY <1>1, RoundsStep, PoolCorrect, PTL DEF Garage!Spec

\* Past every whole round of queries fewer are left, so there is a last round.
LEMMA RoundsBound == PoolInv /\ InRounds => since_now <= Garage!Rounds * Timeout
<1> SUFFICES ASSUME PoolInv, InRounds PROVE since_now <= Garage!Rounds * Timeout
  OBVIOUS
<1> DEFINE r == Garage!Rounds
<1>1. r \in Nat /\ Timeout \in Nat /\ r * Timeout \in Nat
  BY RoundsCover, GarageAssumption
<1>2. CASE since_now = 0
  BY <1>1, <1>2
<1>3. CASE since_now # 0
  <2>1. g_pc = "fetch"
    BY <1>3 DEF PoolInv, Pool, Garage!TypeOK
  <2>2. PICK m \in Nat, x \in 1 .. Timeout : Waves(m, x)
    BY <1>3, <2>1 DEF InRounds
  <2>3. since_now = m * Timeout + x /\ m < r
    BY <2>2 DEF Waves
  <2> HIDE DEF r
  <2>4. (m + 1) * Timeout = m * Timeout + Timeout /\ m * Timeout \in Nat
    BY <1>1
  <2>5. (m + 1) * Timeout <= r * Timeout
    BY <1>1, <2>3
  <2>6. since_now <= r * Timeout
    BY <1>1, <2>3, <2>4, <2>5
  <2> QED BY <2>6 DEF r
<1> QED BY <1>2, <1>3

-------------------------------------------------------------------------------
(* The Garage page: ages.                                                   *)

\* An answer is no older than the fetch, so no older in the cache than the part
\* of the cache's life that is used.
AnswersAreNew == \A q \in DOMAIN metrics : metrics[q] <= since_now
CacheAges ==
    g_cache # NoData =>
        /\ DOMAIN g_cache = Queries
        /\ \A q \in Queries : /\ g_cache[q] \in 0 .. Ttl
                              /\ g_left > 0 => g_cache[q] + g_left <= Ttl

AgesInv == AnswersAreNew /\ CacheAges

\* An answer served from the cache, and a cache just filled.
LEMMA LifeIsLeft ==
    ASSUME PoolInv, InRounds, AgesInv, Garage!Collect
    PROVE  CacheAges' /\ Garage!CachedIsRecent' /\ Garage!RefreshHitsCache'
<1>1. /\ DOMAIN metrics = Queries /\ g_cache' = metrics /\ g_left' = Garage!Life
      /\ g_served' = [cached |-> FALSE, data |-> metrics]
  BY DEF Garage!Collect, Garage!AllAnswered, Garage!Store
<1>2. since_now \in Nat /\ Ttl \in Nat
      /\ \A q \in Queries : metrics[q] \in 0 .. Ttl /\ metrics[q] <= since_now
  BY <1>1, GarageAssumption DEF PoolInv, Garage!TypeOK, Garage!Ages, AgesInv, AnswersAreNew
<1>3. CacheAges'
  BY <1>1, <1>2 DEF CacheAges, Garage!Life
<1>4. g_served'.cached = FALSE
  BY <1>1
<1>5. Garage!CachedIsRecent'
  BY <1>4 DEF Garage!CachedIsRecent
<1>6. Garage!Rounds * Timeout < Ttl => g_left' > 0
  <2>1. since_now <= Garage!Rounds * Timeout /\ Garage!Rounds * Timeout \in Nat
    BY RoundsBound, RoundsCover, GarageAssumption
  <2> QED BY <1>1, <1>2, <2>1 DEF Garage!Life
<1>7. Garage!RefreshHitsCache'
  BY <1>6 DEF Garage!RefreshHitsCache, Garage!Rounds
<1> QED BY <1>3, <1>5, <1>7

LEMMA AgesStep ==
    /\ PoolInv /\ InRounds /\ AgesInv /\ [Garage!Next]_Garage!vars
    /\ Garage!CachedIsRecent /\ Garage!RefreshHitsCache
    => AgesInv' /\ Garage!CachedIsRecent' /\ Garage!RefreshHitsCache'
<1> SUFFICES ASSUME PoolInv, InRounds, AgesInv, [Garage!Next]_Garage!vars,
                    Garage!CachedIsRecent, Garage!RefreshHitsCache
             PROVE  AgesInv' /\ Garage!CachedIsRecent' /\ Garage!RefreshHitsCache'
  OBVIOUS
<1>1. g_served' = NoData => Garage!CachedIsRecent' /\ Garage!RefreshHitsCache'
  BY DEF Garage!CachedIsRecent, Garage!RefreshHitsCache
<1>2. CASE Garage!Tick
  <2>1. /\ since_now' \in Nat /\ since_now \in Nat /\ g_left \in 0 .. Ttl /\ Ttl \in Nat
        /\ (g_pc = "fetch" => since_now' = since_now + 1)
        /\ (g_pc # "fetch" => DOMAIN metrics = {})
        /\ g_left' = (IF g_left = 0 THEN 0 ELSE g_left - 1)
        /\ metrics' = Garage!Aged(metrics)
        /\ g_cache' = (IF g_cache = NoData THEN NoData ELSE Garage!Aged(g_cache))
        /\ g_served' = NoData
    BY <1>2, GarageAssumption DEF Garage!Tick, PoolInv, Garage!TypeOK, Garage!Empty
  <2>2. AnswersAreNew'
    <3>1. \A q \in DOMAIN metrics : metrics[q] \in 0 .. Ttl
      BY DEF PoolInv, Garage!TypeOK, Garage!Ages
    <3>2. /\ DOMAIN metrics' = DOMAIN metrics
          /\ \A q \in DOMAIN metrics : metrics'[q] \in 0 .. Ttl /\ metrics'[q] <= metrics[q] + 1
      BY <2>1, <3>1, AgedType
    <3> QED BY <2>1, <3>1, <3>2 DEF AgesInv, AnswersAreNew
  <2>3. CacheAges'
    <3> SUFFICES ASSUME g_cache # NoData PROVE CacheAges'
      BY <2>1 DEF CacheAges
    <3>1. DOMAIN g_cache = Queries /\ \A q \in Queries : g_cache[q] \in 0 .. Ttl
      BY DEF AgesInv, CacheAges
    <3>2. /\ DOMAIN g_cache' = Queries
          /\ \A q \in Queries : g_cache'[q] \in 0 .. Ttl /\ g_cache'[q] <= g_cache[q] + 1
      BY <2>1, <3>1, AgedType
    <3> QED BY <2>1, <3>1, <3>2 DEF AgesInv, CacheAges
  <2> QED BY <1>1, <2>1, <2>2, <2>3 DEF AgesInv
<1>3. CASE Garage!Restart
  BY <1>1, <1>3 DEF Garage!Restart, Garage!Empty, AgesInv, AnswersAreNew, CacheAges
<1>4. CASE Garage!Hit
  <2>1. /\ g_cache # NoData /\ g_left > 0 /\ UNCHANGED <<since_now, metrics, g_cache, g_left>>
        /\ g_served' = [cached |-> TRUE, data |-> g_cache]
    BY <1>4 DEF Garage!Hit
  <2>2. AgesInv'
    BY <2>1 DEF AgesInv, AnswersAreNew, CacheAges
  <2>3. g_served'.data = g_cache /\ g_served'.cached = TRUE
    BY <2>1
  <2>4. \A q \in Queries : g_cache[q] < Ttl
    BY <2>1, GarageAssumption DEF AgesInv, CacheAges, PoolInv, Garage!TypeOK
  <2> QED BY <2>2, <2>3, <2>4 DEF Garage!CachedIsRecent, Garage!RefreshHitsCache
<1>5. CASE Garage!Miss
  <2>1. DOMAIN metrics = {}
    BY <1>5 DEF Garage!Miss, PoolInv, Garage!TypeOK, Garage!Empty
  <2> QED BY <1>1, <1>5, <2>1 DEF Garage!Miss, AgesInv, AnswersAreNew, CacheAges
<1>6. CASE Garage!Collect
  <2>1. AnswersAreNew'
    BY <1>6 DEF Garage!Collect, Garage!Empty, AnswersAreNew
  <2> QED BY <1>6, <2>1, LifeIsLeft DEF AgesInv
<1>7. ASSUME NEW q \in Queries, Garage!Submit(q)
      PROVE  AgesInv' /\ Garage!CachedIsRecent' /\ Garage!RefreshHitsCache'
  BY <1>1, <1>7 DEF Garage!Submit, AgesInv, AnswersAreNew, CacheAges
<1>8. ASSUME NEW q \in Queries, Garage!Answered(q)
      PROVE  AgesInv' /\ Garage!CachedIsRecent' /\ Garage!RefreshHitsCache'
  <2>1. UNCHANGED <<since_now, g_cache, g_left>> /\ g_served' = NoData
    BY <1>8 DEF Garage!Answered
  <2>2. metrics' = [p \in DOMAIN metrics \cup {q} |-> IF p = q THEN 0 ELSE metrics[p]]
    BY <1>8 DEF Garage!Answered, Garage!With
  <2>3. since_now \in Nat
    BY DEF PoolInv, Garage!TypeOK
  <2>4. AnswersAreNew'
    BY <2>1, <2>2, <2>3 DEF AgesInv, AnswersAreNew
  <2> QED BY <1>1, <2>1, <2>4 DEF AgesInv, CacheAges
<1>9. CASE UNCHANGED Garage!vars
  BY <1>9 DEF Garage!vars, AgesInv, AnswersAreNew, CacheAges, Garage!CachedIsRecent,
     Garage!RefreshHitsCache, Garage!Rounds
<1> QED BY <1>2, <1>3, <1>4, <1>5, <1>6, <1>7, <1>8, <1>9 DEF Garage!Next

-------------------------------------------------------------------------------
(* The process: each step of the server is one of the page of apps, one of   *)
(* the Garage page, or one of both, and no step of a page is missing it.     *)

\* What the server does to the page of apps HomepageDiscovery allows.
THEOREM DiscoveryImplemented == ServerSpec => Spec
<1>1. ServerInit => Init
  BY DEF ServerInit
<1>2. [ServerNext]_<<vars, garage>> => [Next]_vars
  BY DEF ServerNext, Clock, Cluster, handle_home, handle_garage, Replaced, Next
<1> QED BY <1>1, <1>2, PTL DEF ServerSpec, Spec

\* What it does to the Garage page GaragePage allows.
THEOREM GarageImplemented == ServerSpec => Garage!Spec
<1>1. ServerInit => Garage!Init
  BY DEF ServerInit
<1>2. [ServerNext]_<<vars, garage>> => [Garage!Next]_Garage!vars
  <2>1. UNCHANGED garage => UNCHANGED Garage!vars
    BY DEF garage, Garage!vars
  <2> QED BY <2>1
    DEF ServerNext, Clock, Cluster, handle_home, handle_garage, Replaced, Garage!Next
<1> QED BY <1>1, <1>2, PTL DEF ServerSpec, Garage!Spec

\* Both halves keep their types, and no request is handled inside another.
THEOREM ServerTypeCorrect == ServerSpec => []ServerTypeOK
<1> DEFINE OneThread == pc = "idle" \/ g_pc = "idle"
<1>1. ServerInit => OneThread
  BY DEF ServerInit, Init
<1>2. OneThread /\ [ServerNext]_<<vars, garage>> => OneThread'
  <2> SUFFICES ASSUME OneThread, [ServerNext]_<<vars, garage>> PROVE OneThread'
    OBVIOUS
  <2>1. CASE Clock
    BY <2>1 DEF Clock, Tick, Garage!Tick
  <2>2. CASE Cluster
    BY <2>2 DEF Cluster, PolicyChange, RouteChange, Touch, handler, garage
  <2>3. CASE handle_home
    BY <2>3 DEF handle_home, garage
  <2>4. CASE handle_garage
    BY <2>4 DEF handle_garage, vars, handler
  <2>5. CASE Replaced
    BY <2>5 DEF Replaced, Restart
  <2>6. CASE UNCHANGED <<vars, garage>>
    BY <2>6 DEF vars, handler, garage
  <2> QED BY <2>1, <2>2, <2>3, <2>4, <2>5, <2>6 DEF ServerNext
<1>3. TypeOK /\ PoolInv /\ OneThread => ServerTypeOK
  BY DEF ServerTypeOK, PoolInv
<1> QED
  BY <1>1, <1>2, <1>3, DiscoveryImplemented, TypeCorrect, GarageImplemented, PoolCorrect, PTL
  DEF ServerSpec

\* A page of apps is at most CACHE_TTL out of date while Garage pages are served too.
THEOREM ServerPagesAreFresh == ServerSpec => []PagesAreFresh
BY DiscoveryImplemented, PagesAreFreshCorrect, PTL

\* Nor does an outage hide or reveal a route that stood still.
THEOREM ServerOutageHidesNothing == ServerSpec => []OutageHidesNothing
BY DiscoveryImplemented, OutageHidesNothingCorrect, PTL

\* A fetch holds the one thread for at most one timeout for each round of queries
\* that the workers need, for any numbers of queries and workers.
THEOREM FetchIsBoundedCorrect == ServerSpec => []FetchIsBounded
<1>1. PoolInv /\ InRounds => FetchIsBounded
  BY RoundsBound DEF FetchIsBounded, Garage!FetchIsBounded
<1> QED BY <1>1, GarageImplemented, PoolCorrect, RoundsCorrect, PTL

LEMMA AgesCorrect ==
    ServerSpec => [](AgesInv /\ Garage!CachedIsRecent /\ Garage!RefreshHitsCache)
<1>1. Garage!Init => AgesInv /\ Garage!CachedIsRecent /\ Garage!RefreshHitsCache
  BY DEF Garage!Init, Garage!Empty, AgesInv, AnswersAreNew, CacheAges,
     Garage!CachedIsRecent, Garage!RefreshHitsCache
<1>2. Garage!Spec => [](AgesInv /\ Garage!CachedIsRecent /\ Garage!RefreshHitsCache)
  BY <1>1, AgesStep, PoolCorrect, RoundsCorrect, PTL DEF Garage!Spec
<1> QED BY <1>2, GarageImplemented, PTL

\* No answer served from the cache is as old as the life of the cache.
THEOREM CachedIsRecentCorrect == ServerSpec => []CachedIsRecent
BY AgesCorrect, PTL DEF CachedIsRecent

\* A fetch whose rounds fit into the life of the cache leaves a live cache behind.
THEOREM RefreshHitsCacheCorrect == ServerSpec => []RefreshHitsCache
BY AgesCorrect, PTL DEF RefreshHitsCache
===============================================================================
