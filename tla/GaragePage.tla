----------------------------- MODULE GaragePage -----------------------------
(***************************************************************************)
(* server.py, the metrics behind the Garage page: fetch_garage_metrics and *)
(* fetch_garage_ts_metrics.  Both read the clock, answer from a cache while *)
(* it is fresh, and otherwise run one Mimir query per metric on a pool of   *)
(* threads, wait for all of them, and cache the answers.                    *)
(*                                                                          *)
(* An answer is known by its age: that of a query that failed is the age of *)
(* the zero put in its place.  Ages are capped at the life of the cache.    *)
(***************************************************************************)
EXTENDS Integers, FiniteSets

CONSTANTS
    Queries,
    Workers,    \* max_workers
    Timeout,    \* of one query, the longest Mimir keeps a worker
    Ttl,        \* GARAGE_METRICS_CACHE_TTL, GARAGE_TS_CACHE_TTL
    NoData

Ages == 0 .. Ttl
Older(a) == IF a < Ttl THEN a + 1 ELSE a

VARIABLES
    pc,         \* "idle" or "fetch": the server has one thread
    since_now,  \* time since `now` was read
    waiting,    \* queries the pool has not started
    running,    \* running query -> time it has taken
    metrics,    \* answered query -> age of its answer
    cache,      \* CACHE["data"]
    left,       \* time until CACHE["expires_at"]
    served      \* the answer a step has just sent

vars == <<pc, since_now, waiting, running, metrics, cache, left, served>>

Empty == [q \in {} |-> 0]
Without(f, q) == [p \in DOMAIN f \ {q} |-> f[p]]
With(f, q, v) == [p \in DOMAIN f \cup {q} |-> IF p = q THEN v ELSE f[p]]

Init ==
    /\ pc = "idle" /\ since_now = 0
    /\ waiting = {} /\ running = Empty /\ metrics = Empty
    /\ cache = NoData /\ left = 0 /\ served = NoData

-------------------------------------------------------------------------------
(* Time passes while no thread can run: every worker waits for Mimir.       *)

SlotsOfOne == 1                                                   \* mutant
Slots == Workers

Aged(f) == [q \in DOMAIN f |-> Older(f[q])]

Tick ==
    /\ pc = "fetch" =>
        /\ waiting = {} \/ Cardinality(DOMAIN running) = Slots
        /\ running # Empty /\ \A q \in DOMAIN running : running[q] < Timeout
    /\ since_now' = IF pc = "fetch" THEN since_now + 1 ELSE 0
    /\ running' = [q \in DOMAIN running |-> running[q] + 1]
    /\ metrics' = Aged(metrics)
    /\ cache' = IF cache = NoData THEN NoData ELSE Aged(cache)
    /\ left' = IF left = 0 THEN 0 ELSE left - 1
    /\ served' = NoData
    /\ UNCHANGED <<pc, waiting>>

-------------------------------------------------------------------------------
(* A request.                                                               *)

Hit ==
    /\ pc = "idle" /\ cache # NoData /\ left > 0
    /\ served' = [cached |-> TRUE, data |-> cache]
    /\ UNCHANGED <<pc, since_now, waiting, running, metrics, cache, left>>

Miss ==
    /\ pc = "idle" /\ (cache = NoData \/ left = 0)
    /\ pc' = "fetch" /\ since_now' = 0 /\ waiting' = Queries
    /\ served' = NoData
    /\ UNCHANGED <<running, metrics, cache, left>>

Submit(q) ==
    /\ q \in waiting /\ Cardinality(DOMAIN running) < Slots
    /\ waiting' = waiting \ {q} /\ running' = With(running, q, 0)
    /\ served' = NoData
    /\ UNCHANGED <<pc, since_now, metrics, cache, left>>

\* Mimir answers, refuses, or has let the query time out.
Answered(q) ==
    /\ q \in DOMAIN running
    /\ running' = Without(running, q) /\ metrics' = With(metrics, q, 0)
    /\ served' = NoData
    /\ UNCHANGED <<pc, since_now, waiting, cache, left>>

\* expires_at = now + Ttl, with the `now` from before the queries.
LifeFromAnswer == Ttl                                             \* mutant
LifeIfFast == IF since_now < Timeout THEN Ttl - since_now ELSE 0  \* mutant
Life == IF since_now < Ttl THEN Ttl - since_now ELSE 0

Store(data) == cache' = data /\ left' = Life

\* as_completed, and the pool's own end: the answers to all the queries.
AllStarted == waiting = {}                                        \* mutant
AllAnswered == DOMAIN metrics = Queries

Collect ==
    /\ pc = "fetch" /\ AllAnswered
    /\ Store(metrics)
    /\ served' = [cached |-> FALSE, data |-> metrics]
    /\ pc' = "idle" /\ since_now' = 0 /\ metrics' = Empty
    /\ UNCHANGED <<waiting, running>>

\* The process is replaced, whatever it was doing.
Restart ==
    /\ pc' = "idle" /\ since_now' = 0
    /\ waiting' = {} /\ running' = Empty /\ metrics' = Empty
    /\ cache' = NoData /\ left' = 0 /\ served' = NoData

Next ==
    \/ Tick \/ Restart \/ Hit \/ Miss \/ Collect
    \/ \E q \in Queries : Submit(q) \/ Answered(q)

Spec == Init /\ [][Next]_vars

-------------------------------------------------------------------------------
(* Properties.                                                              *)

Rounds == (Cardinality(Queries) + Workers - 1) \div Workers

\* Every variable has the type the program gives it, and no query outlives the
\* fetch that asked it: the next fetch has all the workers.
TypeOK ==
    /\ pc \in {"idle", "fetch"} /\ since_now \in Nat
    /\ waiting \subseteq Queries
    /\ DOMAIN running \subseteq Queries /\ \A q \in DOMAIN running : running[q] \in 0 .. Timeout
    /\ DOMAIN metrics \subseteq Queries /\ \A q \in DOMAIN metrics : metrics[q] \in Ages
    /\ pc = "idle" => waiting = {} /\ running = Empty /\ metrics = Empty
    /\ left \in 0 .. Ttl

\* The one thread is not held longer than the queries take in rounds of one
\* query for each worker: no query waits while a worker is free, whatever
\* the order in which the others answer.
FetchIsBounded == since_now <= Rounds * Timeout

\* A page served from the cache shows no answer as old as the life of the
\* cache, however long the answers took to collect.
CachedIsRecent ==
    served # NoData /\ served.cached =>
        \A q \in Queries : served.data[q] < Ttl

\* server.py: 'Cache the result (even if partial) so rapid page refreshes hit
\* the cache'.  A fetch whose queries time out one round after the other leaves
\* a live cache behind, if the rounds fit into the life of the cache.
RefreshHitsCache ==
    Rounds * Timeout < Ttl /\ served # NoData /\ ~served.cached => left > 0
===============================================================================
