------------------------------ MODULE ImageProbe ------------------------------
(***************************************************************************)
(* probe.py, the running-workload image probe, with the alert rules that   *)
(* read it.  A background thread scans: it lists the pods, asks the registry *)
(* for the manifest of every internal image they run, lists the objects of *)
(* the Velero selection, and replaces the whole metrics page in one step.  *)
(* HTTP threads serve that page; Mimir evaluates three rules on it, each of *)
(* which fires after its condition held for a quarter of an hour.          *)
(*                                                                         *)
(* Time is counted in the evaluation interval of the rules.  There is no   *)
(* clock: timers run up or down and are capped.                            *)
(***************************************************************************)
EXTENDS Naturals

CONSTANTS
    Internal,     \* images of TARGET_REGISTRY
    Malformed,    \* references to it that normalize_image refuses
    External,     \* images of other registries
    Interval,     \* SCAN_INTERVAL_SECONDS: the sleep between two scans
    For,          \* the "for" of the three rules
    Work,         \* the longest one scan takes (timeouts of its requests)
    RefusesHead,  \* the registry answers HEAD with 405 or 501
    CanFail       \* environment: a request to the API server may fail

Images == Internal \cup Malformed \cup External

ASSUME ConstantsAssumption ==
    /\ Internal \cap Malformed = {} /\ (Internal \cup Malformed) \cap External = {}
    /\ Interval \in Nat \ {0} /\ For \in Nat \ {0} /\ Work \in Nat
    /\ {RefusesHead, CanFail} \subseteq BOOLEAN

VARIABLES
    running,     \* environment: images a running pod refers to
    manifest,    \* environment: what the registry answers for an image
    pc,          \* "pods", "images", "pvcs", "pvs", "schedules", "sleep"
    spent,       \* time since the scan, or the sleep, began
    unasked,     \* images the pool has not asked the registry about
    refused,     \* images whose HEAD was refused: the GET is outstanding
    results,     \* outcome per image of the scan
    \* MetricsState.value, the page the HTTP threads serve.
    scan_success, statuses,
    \* Mimir: evaluations for which the condition of a rule has held.
    missing_for, unknown_for, unavailable_for,
    \* History, read by the properties only.
    gone_seen,   \* images the registry lacked at some time of the scan
    streak       \* scans in a row that found an image missing, capped

environment == <<running, manifest>>
scan == <<pc, spent, unasked, refused, results>>
page == <<scan_success, statuses>>
rules == <<missing_for, unknown_for, unavailable_for>>
history == <<gone_seen, streak>>
vars == <<environment, scan, page, rules, history>>

Answers == {"present", "gone", "error"}
Statuses == {"none", "present", "missing", "unknown"}
Nothing == [i \in Images |-> "none"]
Gone(i) == i \in Internal /\ manifest[i] = "gone"
StreakCap == For \div Interval + 1

\* The first page: render_metrics([], {}, False, 0.0, 0.0, 0.0).
Init ==
    /\ running \in SUBSET Images /\ manifest \in [Internal -> Answers]
    /\ pc = "pods" /\ spent = 0 /\ unasked = {} /\ refused = {} /\ results = Nothing
    /\ scan_success = FALSE /\ statuses = Nothing
    /\ missing_for = [i \in Images |-> 0] /\ unknown_for = [i \in Images |-> 0]
    /\ unavailable_for = 0
    /\ gone_seen = {i \in Images : Gone(i)}
    /\ streak = [i \in Images |-> 0]

-------------------------------------------------------------------------------
(* Pods come and go; the registry deletes, regains or fails to serve.      *)

PodChange(i) ==
    /\ running' = (running \cup {i}) \ (running \cap {i})
    /\ UNCHANGED <<manifest, scan, page, rules, history>>

RegistryChange(i) ==
    /\ \E a \in Answers \ {manifest[i]} : manifest' = [manifest EXCEPT ![i] = a]
    /\ gone_seen' = IF manifest'[i] = "gone" THEN gone_seen \cup {i} ELSE gone_seen
    /\ UNCHANGED <<running, scan, page, rules, streak>>

-------------------------------------------------------------------------------
(* Time, and with it the evaluation of the rules.                          *)

\* A condition that holds ages; one that does not starts again from nothing.
Aged(age, holds) == IF ~holds THEN 0 ELSE IF age > For THEN age ELSE age + 1

Evaluate ==
    /\ missing_for' = [i \in Images |-> Aged(missing_for[i], statuses[i] = "missing")]
    /\ unknown_for' = [i \in Images |-> Aged(unknown_for[i], statuses[i] = "unknown")]
    /\ unavailable_for' = Aged(unavailable_for, ~scan_success)

Tick ==
    /\ spent < (IF pc = "sleep" THEN Interval ELSE Work) /\ spent' = spent + 1
    /\ Evaluate
    /\ UNCHANGED <<environment, pc, unasked, refused, results, page, history>>

-------------------------------------------------------------------------------
(* scan_once and scan_loop.                                                *)

\* The end of a scan, either way: the page is replaced and the thread sleeps.
Rest ==
    /\ pc' = "sleep" /\ spent' = 0
    /\ unasked' = {} /\ refused' = {} /\ results' = Nothing
    /\ UNCHANGED <<environment, rules, gone_seen>>

\* An exception anywhere in the scan: every series of the last page is gone.
KeepPage == UNCHANGED page                                        \* mutant
BlankPage ==
    scan_success' = FALSE /\ statuses' = Nothing
ScanFails ==
    /\ CanFail /\ pc \in {"pods", "pvcs", "pvs", "schedules"}
    /\ Rest /\ BlankPage
    /\ streak' = [i \in Images |-> 0]

Proceed(from, to) == pc = from /\ pc' = to /\ UNCHANGED <<environment, spent, rules, page>>

\* The pods in phase Running; external references are dropped, and malformed
\* ones are unknown without a request.
ListPods ==
    /\ Proceed("pods", "images")
    /\ unasked' = running \cap Internal
    /\ results' = [i \in Images |-> IF i \in running \cap Malformed
                                    THEN "unknown" ELSE "none"]
    /\ UNCHANGED <<refused, history>>

\* probe_manifest: what a response to HEAD or GET says about the manifest.
RawAnswer(i) == manifest[i]                                       \* mutant
ErrorIsMissing(i) == IF manifest[i] = "present" THEN "present" ELSE "missing" \* mutant
Classify(i) ==
    CASE manifest[i] = "present" -> "present"
      [] manifest[i] = "gone" -> "missing"
      [] manifest[i] = "error" -> "unknown"

\* The workers of the pool take the images in any order.
HeadRequest(i) ==
    /\ pc = "images" /\ i \in unasked /\ unasked' = unasked \ {i}
    /\ IF RefusesHead /\ manifest[i] # "error"
       THEN refused' = refused \cup {i} /\ UNCHANGED results
       ELSE results' = [results EXCEPT ![i] = Classify(i)] /\ UNCHANGED refused
    /\ UNCHANGED <<environment, pc, spent, page, rules, history>>

GetRequest(i) ==
    /\ pc = "images" /\ i \in refused /\ refused' = refused \ {i}
    /\ results' = [results EXCEPT ![i] = Classify(i)]
    /\ UNCHANGED <<environment, pc, spent, unasked, page, rules, history>>

PoolDone ==
    /\ unasked \cup refused = {} /\ Proceed("images", "pvcs")
    /\ UNCHANGED <<unasked, refused, results, history>>

ListPvcs == Proceed("pvcs", "pvs") /\ UNCHANGED <<unasked, refused, results, history>>
ListPvs == Proceed("pvs", "schedules") /\ UNCHANGED <<unasked, refused, results, history>>

Counted(i) ==
    IF results[i] # "missing" THEN 0
    ELSE IF streak[i] < StreakCap THEN streak[i] + 1 ELSE streak[i]

\* The last list, the evaluation of the selection, and the new page.
ListSchedules ==
    /\ pc = "schedules" /\ Rest
    /\ scan_success' = TRUE /\ statuses' = results
    /\ streak' = [i \in Images |-> Counted(i)]

WakeOnce == FALSE /\ UNCHANGED vars                                \* mutant
Wake ==
    /\ spent = Interval /\ pc = "sleep" /\ pc' = "pods" /\ spent' = 0
    /\ gone_seen' = {i \in Images : Gone(i)}
    /\ UNCHANGED <<environment, unasked, refused, results, page, rules, streak>>

Scan ==
    \/ ScanFails \/ ListPods \/ PoolDone \/ ListPvcs \/ ListPvs \/ ListSchedules \/ Wake
    \/ \E i \in Internal : HeadRequest(i) \/ GetRequest(i)

Next ==
    \/ \E i \in Images : PodChange(i)
    \/ \E i \in Internal : RegistryChange(i)
    \/ Tick \/ Scan

Spec == Init /\ [][Next]_vars

\* The scan thread is not starved and time goes on.
FairSpec == Spec /\ WF_vars(Scan) /\ WF_vars(Tick)

-------------------------------------------------------------------------------
(* Properties.                                                             *)

\* Every variable has the type the program gives it.
TypeOK ==
    /\ running \subseteq Images /\ manifest \in [Internal -> Answers]
    /\ pc \in {"pods", "images", "pvcs", "pvs", "schedules", "sleep"}
    /\ spent \in Nat /\ unasked \subseteq Internal /\ refused \subseteq Internal
    /\ results \in [Images -> Statuses] /\ statuses \in [Images -> Statuses]
    /\ scan_success \in BOOLEAN
    /\ missing_for \in [Images -> 0 .. For + 1] /\ unknown_for \in [Images -> 0 .. For + 1]
    /\ unavailable_for \in 0 .. For + 1
    /\ gone_seen \subseteq Images /\ streak \in [Images -> 0 .. StreakCap]

MissingFires(i) == missing_for[i] > For
UnknownFires(i) == unknown_for[i] > For
UnavailableFires == unavailable_for > For

\* The module's docstring: "a connectivity problem can never masquerade as image
\* deletion".  However outages and deletions fall between the requests of a
\* scan, an image is called missing only if the registry truly lacked it at
\* some moment of that scan.
MissingIsDefinitive ==
    \A i \in Images : results[i] = "missing" => i \in gone_seen

\* The registry was found to lack the image by as many scans as fit into the
\* quarter of an hour: no alert grows old on a single 404.  (When the page has
\* just changed, the rule has not been evaluated on it yet.)
FiresOnRepeatedEvidence ==
    \A i \in Images : MissingFires(i) /\ statuses[i] = "missing"
                      => streak[i] * (Interval + Work) >= For

\* A running pod's image that stays deleted is not passed over in silence: once
\* scans have stopped failing, one of the three alerts fires.  (While they come
\* and go it is not so: a failed scan wipes every image's status, a good one
\* ends the unavailability, and either restarts the quarter of an hour.)
ScansSucceed == <>[][~ScanFails]_vars
DeletionIsNoticed ==
    ScansSucceed =>
        \A i \in Internal :
            <>[](i \in running /\ Gone(i))
                => <>(MissingFires(i) \/ UnknownFires(i) \/ UnavailableFires)
================================================================================
