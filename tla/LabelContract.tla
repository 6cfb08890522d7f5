--------------------------- MODULE LabelContract ----------------------------
(* The live check of tools/check-mimir-label-contract.py: one pass over the   *)
(* selectors of the rules that asks Mimir whether the metric family has       *)
(* series in this tenant and whether the complete selector matches one.       *)
(* Mimir is external: it ingests series while the check runs and none leaves  *)
(* the lookback. A series is a metric with the tenant's cluster label and     *)
(* one label more, "ready".                                                   *)
EXTENDS PromqlSelectors

CONSTANTS Tenant, Values,
          RuleSets,       \* the sets of expressions a run may be given
          MaxIngested     \* bound of the series that arrive during a run

VARIABLES db, atStart, rules, todo, current, cache, failed, errors, status

vars == <<db, atStart, rules, todo, current, cache, failed, errors, status>>

Series == [metric : Metrics, ready : Values]

(* ------------------------------------------------------ Mimir, external *)

Satisfies(series, m) ==
    LET value == IF m.label = "cluster" THEN Tenant ELSE series.ready
    IN  \/ m = NoMatcher
        \/ m.op \in {"=", "=~"} /\ value \in m.values
        \/ m.op \in {"!=", "!~"} /\ value \notin m.values
Matching(data, s) == {x \in data : x.metric = s.metric /\ Satisfies(x, s.matcher)}

(* ------------------------------------------------------------- the check *)

\* PROMQL_MATCHER finds these; the rest of the braces must be empty.
Supported(s) == s.matcher.op \in {"=", "=~", "!=", "!~"}

OnlyEquals(s) == s.matcher.label = "cluster" /\ s.matcher.op \in {"=", "=~"} /\ Tenant \notin s.matcher.values

targets_another_tenant(s) ==
    /\ s.matcher.label = "cluster"
    /\ \/ s.matcher.op \in {"=", "=~"} /\ Tenant \notin s.matcher.values
       \/ s.matcher.op \in {"!=", "!~"} /\ Tenant \in s.matcher.values

family(s) == Selector(s.metric, NoMatcher)

Init ==
    /\ db \in SUBSET Series /\ atStart = db
    /\ rules \in RuleSets
    /\ todo = UNION {{<<x, s>> : s \in extract_selectors(x.tokens)} : x \in rules}
    /\ current = <<>> /\ cache = <<>> /\ failed = {} /\ errors = 0
    /\ status = "running"

Ingest ==
    /\ status = "running" /\ Cardinality(db \ atStart) < MaxIngested
    /\ \E x \in Series \ db : db' = db \union {x}
    /\ UNCHANGED <<atStart, rules, todo, current, cache, failed, errors, status>>

\* The next occurrence; one whose cluster matcher names other tenants is
\* skipped, one whose matchers the tool cannot read ends it (main, exit 2).
Take ==
    /\ status = "running" /\ current = <<>>
    /\ \E o \in todo :
        /\ todo' = todo \ {o}
        /\ status' = IF Supported(o[2]) THEN "running" ELSE "exit 2"
        /\ current' = IF ~Supported(o[2]) \/ targets_another_tenant(o[2]) THEN <<>> ELSE <<o, "family">>
    /\ UNCHANGED <<db, atStart, rules, cache, failed, errors>>

Cached(s) == s \in DOMAIN cache
Remember(s, data) == cache' = [t \in DOMAIN cache \union {s} |-> IF t = s THEN data ELSE cache[t]]

\* series(): the cached answer, or a request whose answer is kept.
Answer(s, data) ==
    \/ Cached(s) /\ data = cache[s] /\ UNCHANGED cache
    \/ ~Cached(s) /\ data = Matching(db, s) /\ Remember(s, data)

AskFamily ==
    /\ status = "running" /\ current # <<>> /\ current[2] = "family"
    /\ \E data \in SUBSET Series :
        /\ Answer(family(current[1][2]), data)
        /\ current' = IF data = {} THEN <<>> ELSE <<current[1], "selected">>
    /\ UNCHANGED <<db, atStart, rules, todo, failed, errors, status>>

AskSelected ==
    /\ status = "running" /\ current # <<>> /\ current[2] = "selected"
    /\ \E data \in SUBSET Series :
        /\ Answer(current[1][2], data)
        /\ failed' = IF data = {} THEN failed \union {current[1]} ELSE failed
    /\ current' = <<>>
    /\ UNCHANGED <<db, atStart, rules, todo, errors, status>>

Asking == current # <<>> /\ ~Cached(IF current[2] = "family" THEN family(current[1][2]) ELSE current[1][2])

\* A request that fails, is refused or answers nonsense: CheckError, counted.
RequestFails ==
    /\ status = "running" /\ Asking
    /\ errors' = 1 /\ current' = <<>>
    /\ UNCHANGED <<db, atStart, rules, todo, cache, failed, status>>

\* A response cut short raises http.client.IncompleteRead, which is neither
\* OSError nor CheckError: the interpreter prints a traceback and exits 1.
ResponseCutShort ==
    /\ status = "running" /\ Asking
    /\ status' = "exit 1"
    /\ UNCHANGED <<db, atStart, rules, todo, current, cache, failed, errors>>

Finish ==
    /\ status = "running" /\ current = <<>> /\ todo = {}
    /\ status' = IF errors > 0 THEN "exit 2" ELSE IF failed # {} THEN "exit 1" ELSE "exit 0"
    /\ UNCHANGED <<db, atStart, rules, todo, current, cache, failed, errors>>

Next == Ingest \/ Take \/ AskFamily \/ AskSelected \/ RequestFails \/ ResponseCutShort \/ Finish

Spec == Init /\ [][Next]_vars

(* ------------------------------------------------------------ properties *)

Selectors == UNION {x.selectors : x \in rules}

\* A selector is reported only for a rule that has it, when it could match a
\* series of this tenant, its family has series, and none matched when the
\* check began (run, lines 409-446): no function, label name or duration of the
\* expression is taken for a metric that fails, no quiet component and no
\* other tenant's rule is reported.
FailuresAreReal ==
    \A o \in failed :
        /\ o[2] \in o[1].selectors
        /\ o[2].matcher.label = "cluster" => Satisfies([ready |-> "any"], o[2].matcher)
        /\ Matching(db, family(o[2])) # {}
        /\ Matching(atStart, o[2]) = {}

\* "Exit status 0 means every present family had at least one matching series"
\* (docs/reference/mimir-label-contract-check.md:84): wherever in the rules'
\* expressions a selector stands, if it could match a series of this tenant
\* and its family was present when the check began, something matches it.
CleanExitMeansMatched ==
    status = "exit 0" =>
        \A s \in Selectors :
            Matching(atStart, family(s)) = {} \/ Matching(db, s) # {}
            \/ (s.matcher.label = "cluster" /\ ~Satisfies([ready |-> "any"], s.matcher))

\* The same page, line 85: "Exit status 1 means at least one present family had
\* zero full-selector matches."
ExitOneIsAMismatch == status = "exit 1" => failed # {}
=============================================================================
