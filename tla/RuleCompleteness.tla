--------------------------- MODULE RuleCompleteness ---------------------------
(***************************************************************************)
(* The watchdog rule_completeness.py: once per poll it compares, for every *)
(* tenant, the rule groups Git declares with the groups the live Mimir     *)
(* ruler serves, and posts its own alerts to Alertmanager, each with an    *)
(* explicit end time that a later cycle has to renew.                      *)
(*                                                                         *)
(* Time is a natural number.  A cycle reads the clock once (current) and   *)
(* compares that reading with the five dictionaries the process keeps      *)
(* between cycles.  The requests of the cycle, one query per tenant and    *)
(* one POST, take at most Work altogether.                                 *)
(***************************************************************************)
EXTENDS Naturals

CONSTANTS
    Tenants,   \* tenants whose rulers are compared
    Groups,    \* rule groups that Git declares, the same for every tenant
    Poll,      \* --poll-seconds: the sleep between two cycles
    Grace,     \* --grace-seconds: how long a fault lasts before it alerts
    Ttl,       \* --alert-ttl-seconds: the life of a posted alert
    Work,      \* the longest the requests of one cycle take (HTTP timeouts)
    MaxTime,   \* bound of the model: the clock stops there
    CanCrash,  \* bound of the model: whether the process may die
    Absent,    \* the value of a dictionary at a key it does not hold
    NoAnswer   \* the outcome of a query that ends in CheckError, not a set of groups

ASSUME ConstantsAssumption ==
    /\ Tenants # {} /\ Groups # {}
    /\ Poll \in Nat /\ Grace \in Nat /\ Ttl \in Nat /\ Work \in Nat
    /\ MaxTime \in Nat /\ CanCrash \in BOOLEAN
    /\ Absent \notin Nat /\ NoAnswer \notin SUBSET Groups
\* The deployment leaves room for one slow cycle after a fast one: 180s
\* against 60s of sleep and twice 40s of requests (3 queries and a POST).
ASSUME RenewalAssumption == Work + Poll + Work < Ttl

Incomplete == "MimirRuleGroupIncomplete"
CheckerFailed == "MimirRuleCompletenessCheckerFailed"
Faults == {Incomplete, CheckerFailed}
Keys == Faults \X Tenants       \* what Alertmanager tells two alerts apart by
Stamp == Nat \cup {Absent}
Answer == (SUBSET Groups) \cup {NoAnswer}
Alert == [key : Keys, starts : Nat, ends : Nat]

VARIABLES
    clock,                \* wall-clock time
    pc,                   \* "check", "send", "sleep", or "dead" between two processes
    todo,                 \* tenants the current cycle has still to query
    current,              \* the clock as the current cycle read it
    wake,                 \* when time.sleep returns
    alerts,               \* the alerts the current cycle has collected
    missing_since, firing_since, last_missing,
    error_since, error_firing_since,
    answer,               \* environment: what the ruler of a tenant answers
    am,                   \* environment: the endsAt Alertmanager holds for a key
    \* History, read by the properties only.
    since,                \* when the ruler of a tenant last changed its answer
    started,              \* when the running process started
    last_whole,           \* the last cycle that found every group of a tenant
    last_answer,          \* the last cycle that got an answer for a tenant
    posted                \* keys whose firing alert the last POST delivered

dicts == <<missing_since, firing_since, last_missing, error_since,
           error_firing_since>>
environment == <<answer, since>>
history == <<started, last_whole, last_answer, posted>>
vars == <<clock, pc, todo, current, wake, alerts, dicts, environment, am, history>>

Empty == [t \in Tenants |-> Absent]

Init ==
    /\ clock = 0 /\ current = 0 /\ wake = 0 /\ started = 0
    /\ pc = "check" /\ todo = Tenants /\ alerts = {}
    /\ missing_since = Empty /\ firing_since = Empty
    /\ last_missing = [t \in Tenants |-> {}]
    /\ error_since = Empty /\ error_firing_since = Empty
    /\ answer \in [Tenants -> Answer]
    /\ am = [k \in Keys |-> 0]
    /\ since = [t \in Tenants |-> 0]
    /\ last_whole = Empty /\ last_answer = Empty
    /\ posted = {}

-------------------------------------------------------------------------------
(* The environment: time, rulers.                                          *)

\* Time passes while the process sleeps, waits for a response, or is down.
Tick ==
    /\ clock < MaxTime
    /\ pc = "sleep" => clock < wake
    /\ pc \in {"check", "send"} => clock < current + Work
    /\ clock' = clock + 1
    /\ UNCHANGED <<pc, todo, current, wake, alerts, dicts, environment, am, history>>

\* The rules loader, or an outage, changes what the ruler of a tenant answers.
RulerChange(t) ==
    /\ \E a \in Answer \ {answer[t]} : answer' = [answer EXCEPT ![t] = a]
    /\ since' = [since EXCEPT ![t] = clock]
    /\ UNCHANGED <<clock, pc, todo, current, wake, alerts, dicts, am, history>>

-------------------------------------------------------------------------------
(* One cycle of run_loop.                                                  *)

\* dict.setdefault(key, value): the stamp the dictionary then holds.
SetDefaultAlwaysSets(stamp, value) == value                       \* mutant
SetDefault(stamp, value) == IF stamp = Absent THEN value ELSE stamp

\* dict[t] = value and dict.pop(t, None).
Store(dict, t, value) == [dict EXCEPT ![t] = value]
PopForgotten(dict, t) == dict                                     \* mutant
Pop(dict, t) == [dict EXCEPT ![t] = Absent]

Overdue(stamp) == current - stamp >= Grace

FiringAlert(fault, t, starts) ==
    [key |-> <<fault, t>>, starts |-> starts, ends |-> current + Ttl]
ResolvedAlertAfterTtl(fault, t, starts) == FiringAlert(fault, t, starts) \* mutant
ResolvedAlert(fault, t, starts) ==
    [key |-> <<fault, t>>, starts |-> starts, ends |-> current]

\* alerts.append: the list is started once per cycle, not once per tenant.
Collect(new) == alerts \cup new

\* An alert that fires for missing groups is renewed from the last comparison.
RenewNothing(t) == {}                                             \* mutant
RenewIncomplete(t) ==
    IF firing_since[t] # Absent /\ last_missing[t] # {}
    THEN {FiringAlert(Incomplete, t, firing_since[t])} ELSE {}

\* The query failed: CheckError.
CheckError(t) ==
    LET es == SetDefault(error_since[t], current)
        efs == SetDefault(error_firing_since[t], es)
    IN  /\ error_since' = Store(error_since, t, es)
        /\ error_firing_since' =
              IF Overdue(es) THEN Store(error_firing_since, t, efs)
                             ELSE error_firing_since
        /\ alerts' = Collect(RenewIncomplete(t) \cup
              IF Overdue(es) THEN {FiringAlert(CheckerFailed, t, efs)} ELSE {})
        /\ UNCHANGED <<missing_since, firing_since, last_missing,
                       last_whole, last_answer>>

\* The ruler answered: a CheckerFailed alert that fires is resolved.
CheckerRecoversAfterPop(t) ==                                     \* mutant
    IF error_firing_since[t] # Absent
    THEN {ResolvedAlert(CheckerFailed, t, error_firing_since'[t])} ELSE {}
CheckerRecovers(t) ==
    IF error_firing_since[t] # Absent
    THEN {ResolvedAlert(CheckerFailed, t, error_firing_since[t])} ELSE {}

\* The ruler answered and lacks declared groups.
FoundMissing(t, missing) ==
    LET ms == SetDefault(missing_since[t], current)
        fs == SetDefault(firing_since[t], ms)
    IN  /\ missing_since' = Store(missing_since, t, ms)
        /\ last_missing' = [last_missing EXCEPT ![t] = missing]
        /\ firing_since' =
              IF Overdue(ms) THEN Store(firing_since, t, fs) ELSE firing_since
        /\ alerts' = Collect(CheckerRecovers(t) \cup
              IF Overdue(ms) THEN {FiringAlert(Incomplete, t, fs)} ELSE {})
        /\ UNCHANGED last_whole

\* The ruler answered with every declared group.
FoundWhole(t) ==
    /\ missing_since' = Pop(missing_since, t)
    /\ last_missing' = [last_missing EXCEPT ![t] = {}]
    /\ firing_since' = Pop(firing_since, t)
    /\ alerts' = Collect(CheckerRecovers(t) \cup
          IF firing_since[t] # Absent
          THEN {ResolvedAlert(Incomplete, t, firing_since[t])} ELSE {})
    /\ last_whole' = [last_whole EXCEPT ![t] = current]

\* The query of one tenant and what run_loop does with its outcome.  The loop
\* visits the tenants in the order of the list; no visit reads what another
\* wrote, so the order here is free.
Check(t) ==
    /\ pc = "check" /\ t \in todo
    /\ todo' = todo \ {t}
    /\ pc' = IF todo' = {} THEN "send" ELSE "check"
    /\ \/ answer[t] = NoAnswer /\ CheckError(t)
       \/ /\ answer[t] # NoAnswer
          /\ error_since' = Pop(error_since, t)
          /\ error_firing_since' = Pop(error_firing_since, t)
          /\ last_answer' = [last_answer EXCEPT ![t] = current]
          /\ LET missing == Groups \ answer[t]
             IN  IF missing # {} THEN FoundMissing(t, missing) ELSE FoundWhole(t)
    /\ UNCHANGED <<clock, current, wake, environment, am, started, posted>>

AlertKeys(batch) == {a.key : a \in batch}
Renewals == {a \in alerts : a.ends > current}

\* send_alerts, then time.sleep.  A POST that fails is only printed: the state
\* of the loop is the same whether or not Alertmanager got the batch, and it
\* may have got it although the response was lost.
Send(delivered) ==
    /\ pc = "send"
    /\ am' = IF delivered
             THEN [k \in Keys |-> IF k \in AlertKeys(alerts)
                                  THEN (CHOOSE a \in alerts : a.key = k).ends
                                  ELSE am[k]]
             ELSE am
    /\ posted' = (posted \ AlertKeys(alerts))
                 \cup (IF delivered THEN AlertKeys(Renewals) ELSE {})
    /\ alerts' = {}
    /\ pc' = "sleep" /\ wake' = clock + Poll
    /\ UNCHANGED <<clock, todo, current, dicts, environment, started,
                   last_whole, last_answer>>

BeginCycle ==
    /\ pc' = "check" /\ todo' = Tenants /\ current' = clock /\ alerts' = {}

Wake ==
    /\ pc = "sleep" /\ clock = wake
    /\ BeginCycle
    /\ UNCHANGED <<clock, wake, dicts, environment, am, history>>

\* The process dies (an exception run_loop does not catch, an eviction, a
\* rollout) and Kubernetes starts a new one: every dictionary is empty again.
Crash ==
    /\ CanCrash /\ pc # "dead" /\ pc' = "dead"
    /\ todo' = {} /\ alerts' = {} /\ posted' = {}
    /\ missing_since' = Empty /\ firing_since' = Empty
    /\ last_missing' = [t \in Tenants |-> {}]
    /\ error_since' = Empty /\ error_firing_since' = Empty
    /\ UNCHANGED <<clock, current, wake, environment, am, started,
                   last_whole, last_answer>>

Restart ==
    /\ pc = "dead"
    /\ BeginCycle
    /\ started' = clock
    /\ UNCHANGED <<clock, wake, dicts, environment, am, last_whole, last_answer, posted>>

Next ==
    \/ Tick
    \/ \E t \in Tenants : RulerChange(t) \/ Check(t)
    \/ \E delivered \in BOOLEAN : Send(delivered)
    \/ Wake
    \/ Crash
    \/ Restart

Spec == Init /\ [][Next]_vars

-------------------------------------------------------------------------------
(* Properties.                                                             *)

\* Every variable has the type the program gives it.
TypeOK ==
    /\ clock \in Nat /\ current \in Nat /\ wake \in Nat /\ started \in Nat
    /\ pc \in {"check", "send", "sleep", "dead"}
    /\ todo \in SUBSET Tenants
    /\ alerts \in SUBSET Alert
    /\ missing_since \in [Tenants -> Stamp] /\ firing_since \in [Tenants -> Stamp]
    /\ last_missing \in [Tenants -> SUBSET Groups]
    /\ error_since \in [Tenants -> Stamp]
    /\ error_firing_since \in [Tenants -> Stamp]
    /\ answer \in [Tenants -> Answer]
    /\ am \in [Keys -> Nat]
    /\ since \in [Tenants -> Nat]
    /\ last_whole \in [Tenants -> Stamp] /\ last_answer \in [Tenants -> Stamp]
    /\ posted \in SUBSET Keys

\* The stamp from which the process considers a key to fire, if it does.
FiringSince(k) ==
    IF k[1] = Incomplete THEN firing_since[k[2]] ELSE error_firing_since[k[2]]
\* The last cycle whose outcome contradicts the fault of a key.
LastRefuted(k) ==
    IF k[1] = Incomplete THEN last_whole[k[2]] ELSE last_answer[k[2]]
Active(k) == clock < am[k]
Whole(t) == answer[t] = Groups
Lacking(t) == answer[t] \notin {Groups, NoAnswer}

\* No false alarm: a key fires only after a full grace period in which no
\* cycle, of this process or an earlier one, contradicted the fault, however
\* outages and comparisons of the same tenant interleaved (run_loop keeps the
\* dictionaries of the two faults apart and drops them in different branches).
NoFalseAlarm ==
    \A k \in Keys : FiringSince(k) # Absent =>
        /\ FiringSince(k) + Grace <= current
        /\ LastRefuted(k) # Absent => LastRefuted(k) <= FiringSince(k)

\* No gap: from the POST that first delivers a firing alert, and for as long
\* as its POSTs arrive and the process lives, the alert never expires in
\* Alertmanager between two cycles, outages of the ruler included.
NoGap == \A k \in posted : FiringSince(k) # Absent => Active(k)

\* No zombie: whatever POSTs were lost and whenever the process died, a ruler
\* that has served every group for a TTL has no active alert.
NoZombie ==
    \A k \in Keys : Whole(k[2]) /\ clock >= since[k[2]] + Ttl => ~Active(k)

\* Escalation: a tenant that has lacked a group for the grace period, two
\* cycles and the requests of a third has its alert firing in the process, if
\* that process has been up as long.
Later(a, b) == IF a < b THEN b ELSE a
Escalates ==
    \A t \in Tenants :
        /\ pc # "dead" /\ Lacking(t)
        /\ clock > Later(since[t], started) + Grace + 2 * (Work + Poll) + Work
        => firing_since[t] # Absent
===============================================================================
