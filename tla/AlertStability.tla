--------------------------- MODULE AlertStability ---------------------------
(* The live diagnostic of tools/check-mimir-alert-stability.py: one sweep that *)
(* asks Mimir for the samples of every alert expression over a window that    *)
(* ends when the sweep begins, then for the evaluator's alerts, and reports   *)
(* the alert instances that flap without surviving their "for".               *)
(*                                                                            *)
(* Time is counted in evaluations of the ruler, which is external and healthy *)
(* here; the tool samples every Step of them. An alert is a tenant, a rule    *)
(* and a set of output labels; the series that carries it may change its      *)
(* source labels without the alert changing its identity.                     *)
EXTENDS Integers, FiniteSets, FiniteSetsExt

CONSTANTS Tenants, Rules,
          Alerts,       \* the alerts whose expression may become active: subset of Tenants \X Rules \X labels
          For,          \* [Rules -> Nat], 0 when the rule has none
          Step, Lookback, MinActive,
          MaxTicks      \* bound of the evaluations modelled

ASSUME WindowAssumption ==
    /\ Step \in Nat \ {0}
    /\ Lookback \in Nat \ {0}
    /\ Lookback % Step = 0
    /\ MinActive \in Nat
    /\ MaxTicks \in Nat /\ MaxTicks >= Lookback
ASSUME AlertsAssumption ==
    /\ For \in [Rules -> Nat]
    /\ \A a \in Alerts : a[1] \in Tenants /\ a[2] \in Rules

VARIABLES now, active, before, churning,          \* Mimir and its ruler
          phase, end, queries, states, candidates, mismatches, exit

mimir == <<now, active, before, churning>>
tool == <<phase, end, queries, states, candidates, mismatches, exit>>
vars == <<mimir, tool>>

Tasks == Tenants \X Rules
TaskOf(a) == <<a[1], a[2]>>

(* ------------------------------------------------------------ the ruler *)

\* The maximal runs of adjacent members of a set of numbers, as first and last.
RunsIn(S) == {r \in S \X S : r[1] <= r[2] /\ r[1]..r[2] \subseteq S /\ r[1] - 1 \notin S /\ r[2] + 1 \notin S}

IsActive(a, t) == t \in active[a]

\* How long the ruler has seen a's expression present when it evaluates at t.
Span(a, t) ==
    LET run == CHOOSE r \in RunsIn(active[a]) : t \in r[1]..r[2]
    IN  t - run[1] + (IF run[1] = 0 THEN before[a] ELSE 0)

AlertState(a) ==
    IF ~IsActive(a, now) THEN "inactive"
    ELSE IF Span(a, now) >= For[a[2]] THEN "firing" ELSE "pending"

\* The series that carries the alert at an instant: a source label, such as
\* the revision of a Kustomization, changes from sample to sample or never.
Source(a, t) == IF churning THEN (t \div Step) % 2 ELSE 0

(* --------------------------------------------------------- the analysis *)

start == end - Lookback
sample_count == Lookback \div Step + 1

\* query_range: for each series of a rule's result the sampled instants at
\* which it is present.
query_range(task) ==
    {[alert |-> a, source |-> s,
      values |-> {t \in active[a] : t \in start..end /\ (t - start) % Step = 0 /\ Source(a, t) = s}] :
        a \in {b \in Alerts : TaskOf(b) = task}, s \in {0, 1}}

\* Two results whose output labels are the same are one alert.
result_labels(result) == result.alert
IndicesOfOneItem(results, a) ==
    LET r == CHOOSE q \in results : result_labels(q) = a
    IN  {(t - start) \div Step : t \in r.values}
active_indices(results, a) ==
    UNION {{(t - start) \div Step : t \in r.values} : r \in {q \in results : result_labels(q) = a}}

Longest(runs) == Max({r[2] - r[1] + 1 : r \in runs} \union {0})

CensoredRightOnly(runs) == \E r \in runs : r[2] = sample_count - 1
Censored(runs) == \E r \in runs : r[1] = 0 \/ r[2] = sample_count - 1

measure_runs(indices) ==
    LET runs == RunsIn(indices)
    IN  [active_runs |-> Cardinality(runs), longest |-> Longest(runs), duration_censored |-> Censored(runs)]

max_active(m) == Max({0, (m.longest - 1) * Step})

classification(rule, m) ==
    IF For[rule] <= 0 \/ m.active_runs < 2 \/ max_active(m) >= For[rule] THEN "none"
    ELSE IF m.duration_censored THEN "range-censored" ELSE "never-sustained"

is_candidate(rule, m) ==
    classification(rule, m) = "never-sustained" /\ max_active(m) >= MinActive

analyze_query_result(task) ==
    LET results == query_range(task)
        mine    == {a \in Alerts : TaskOf(a) = task}
    IN  [candidates |-> {a \in mine : is_candidate(task[2], measure_runs(active_indices(results, a)))},
         mismatches |-> {a \in mine : /\ a \in states[task[1]]
                                      /\ sample_count - 1 \notin active_indices(results, a)}]

(* ------------------------------------------------------------- the steps *)

Init ==
    /\ now = 0
    /\ \E A \in SUBSET Alerts :
        /\ active = [a \in Alerts |-> IF a \in A THEN {0} ELSE {}]
        /\ before \in {b \in [Alerts -> {0} \union {For[r] : r \in Rules}] : \A a \in Alerts \ A : b[a] = 0}
    /\ churning \in BOOLEAN
    /\ phase = "waiting" /\ end = 0 /\ exit = -1
    /\ queries = [task \in Tasks |-> "pending"]
    /\ states = [t \in Tenants |-> {}]
    /\ candidates = {} /\ mismatches = {}

\* The ruler evaluates every rule once more.
Evaluate ==
    /\ phase # "done" /\ now < MaxTicks
    /\ now' = now + 1
    /\ \E A \in SUBSET Alerts :
        active' = [a \in Alerts |-> IF a \in A THEN active[a] \union {now + 1} ELSE active[a]]
    /\ UNCHANGED <<before, churning, tool>>

\* run() up to the pool: the end of the window is the moment the sweep begins.
Begin ==
    /\ phase = "waiting" /\ now >= Lookback
    /\ end' = now /\ phase' = "queries"
    /\ UNCHANGED <<mimir, queries, states, candidates, mismatches, exit>>

\* load_rules finds no rule, or a file it cannot read.
NoRules ==
    /\ phase = "waiting" /\ now >= Lookback
    /\ phase' = "done" /\ exit' = 2
    /\ UNCHANGED <<mimir, end, queries, states, candidates, mismatches>>

\* A worker of the pool has its answer, in any order: "failed" is what
\* get_json turns into DiagnosticError, "broken" an exception it does not
\* catch, such as a response cut short.
Outcomes == {"ok", "failed", "broken"}
query_one(task) ==
    /\ phase = "queries" /\ queries[task] = "pending"
    /\ \E outcome \in Outcomes : queries' = [queries EXCEPT ![task] = outcome]
    /\ UNCHANGED <<mimir, phase, end, states, candidates, mismatches, exit>>

Answered == \A task \in Tasks : queries[task] # "pending"
Broken == \E task \in Tasks : queries[task] = "broken"
Errors == \E task \in Tasks : queries[task] = "failed"

\* The second pool: every tenant's alerts; one broken response ends the tool.
alert_states ==
    /\ phase = "queries" /\ Answered /\ ~Broken
    /\ \E outcome \in [Tenants -> Outcomes] :
        LET Failed == {t \in Tenants : outcome[t] # "ok"}
        IN  /\ states' = [t \in Tenants |->
                   IF t \in Failed THEN {} ELSE {a \in Alerts : a[1] = t /\ AlertState(a) # "inactive"}]
            /\ IF \E t \in Tenants : outcome[t] = "broken"
               THEN phase' = "done" /\ exit' = 1
               ELSE phase' = "states" /\ exit' = IF Errors \/ Failed # {} THEN 2 ELSE 0
    /\ UNCHANGED <<mimir, end, queries, candidates, mismatches>>

\* future.result() raises what query_one did not expect: exit with a traceback.
Abort ==
    /\ phase = "queries" /\ Answered /\ Broken
    /\ phase' = "done" /\ exit' = 1
    /\ UNCHANGED <<mimir, end, queries, states, candidates, mismatches>>

\* The findings of the queries that were answered.
Report ==
    /\ phase = "states" /\ phase' = "done"
    /\ LET done == {analyze_query_result(task) : task \in {u \in Tasks : queries[u] = "ok"}}
       IN  /\ candidates' = UNION {d.candidates : d \in done}
           /\ mismatches' = UNION {d.mismatches : d \in done}
    /\ UNCHANGED <<mimir, end, queries, states, exit>>

Next ==
    \/ Evaluate \/ Begin \/ NoRules \/ alert_states \/ Abort \/ Report
    \/ \E task \in Tasks : query_one(task)

Spec == Init /\ [][Next]_vars

(* ------------------------------------------------------------ properties *)

\* The stretches of a's expression at the ruler's resolution, those that touch
\* the window of the sweep.
Stretches(a) == {r \in RunsIn(active[a]) : r[2] >= start /\ r[1] <= end}
Evaluations(r) == r[2] - r[1] + 1
\* MinActive in whole samples: the tool measures a stretch in multiples of Step.
MinShown == ((MinActive + Step - 1) \div Step) * Step
SpanOf(a, r) == r[2] - r[1] + (IF r[1] = 0 THEN before[a] ELSE 0)

\* A candidate fell short of its "for": nowhere in the window, nor in a stretch
\* that began before it, was its expression present for as long as the rule
\* holds it, up to what sampling cannot see. Sampled at every evaluation
\* (Step = 1) this is: a candidate was never firing (lines 121-145, 287-312).
CandidatesFellShort ==
    \A a \in candidates : \A r \in Stretches(a) : SpanOf(a, r) < For[a[2]] + 2 * (Step - 1)

\* A sweep that exits 0 looked at everything: an alert that was quiet at both
\* ends of the window, with no gap that a sample can miss, present in two
\* stretches that a sample cannot miss, one of them long enough for its samples
\* to show MinActive, and that never fired, is a candidate, whatever its source labels
\* did (lines 327-395, 528-548, 628).
CompleteSweepReports ==
    phase = "done" /\ exit = 0 =>
        \A a \in Alerts :
            LET runs == Stretches(a)
            IN  (/\ ~IsActive(a, start) /\ ~IsActive(a, end)
                 /\ \A r, s \in runs : r[2] < s[1] => r[2] + Step < s[1]
                 /\ \A r \in runs : SpanOf(a, r) < For[a[2]]
                 /\ \E r, s \in runs :
                     r # s /\ Evaluations(r) >= MinShown + Step /\ Evaluations(s) >= Step)
                => a \in candidates
=============================================================================
