------------------------------ MODULE VeleroScan ------------------------------
(***************************************************************************)
(* The scan of probe.py around VeleroSelection.  Four lists are read one   *)
(* after the other, pods first and Schedules last, with the registry       *)
(* requests of the image probe in between, while all of them change.  The  *)
(* verdicts computed from the four are published in one step.  ImageProbe  *)
(* models the same loop from the side of the images; no name is in both,  *)
(* so that ProbeProofs can extend both modules.                            *)
(***************************************************************************)
EXTENDS VeleroSelection, Naturals, FiniteSets

CONSTANTS
    Pvcs,           \* names of the claims
    ClaimPool,      \* what a claim may be: its record, or Absent
    MountPool,      \* the pods that may mount a claim
    SchedulePool,   \* the Schedules that may exist
    MaxSchedules,   \* bound of the model: Schedules that exist at a time
    Absent,         \* no such claim: not a record
    ListsMayFail    \* environment: a request to the API server may fail

ASSUME PoolsAssumption ==
    /\ Pvcs # {} /\ Absent \notin ClaimPool
    /\ ListsMayFail \in BOOLEAN /\ MaxSchedules \in Nat

VARIABLES
    claims, hostpath, mounts, schedules,   \* environment: the API server's objects
    step,           \* "pods", "pvcs", "pvs", "schedules", "sleep"
    pods_list, pvcs_list, pvs_list,        \* what the scan has read
    verdicts,       \* the series of the page: claim -> verdict, or "none"
    velero_success,
    touched         \* history: claims changed since the scan began

world == <<claims, hostpath, mounts, schedules>>
lists == <<pods_list, pvcs_list, pvs_list>>
selection_page == <<verdicts, velero_success>>
velero_vars == <<world, step, lists, selection_page, touched>>

NoVerdicts == [p \in Pvcs |-> "none"]
NoMounts == [p \in Pvcs |-> {}]
NoClaims == [p \in Pvcs |-> Absent]

VeleroInit ==
    /\ claims \in [Pvcs -> ClaimPool \cup {Absent}] /\ hostpath \in SUBSET Pvcs
    /\ mounts = NoMounts /\ schedules = {}
    /\ step = "pods"
    /\ pods_list = NoMounts /\ pvcs_list = NoClaims /\ pvs_list = {}
    /\ verdicts = NoVerdicts /\ velero_success = FALSE /\ touched = {}

-------------------------------------------------------------------------------
(* Users, controllers and Flux change the objects.                         *)

Touch(ps) == touched' = touched \cup ps /\ UNCHANGED <<step, lists, selection_page>>

ClaimChange(p) ==
    /\ \E c \in ClaimPool \cup {Absent} : claims' = [claims EXCEPT ![p] = c]
    /\ hostpath' \in {hostpath, hostpath \cup {p}, hostpath \ {p}}
    /\ Touch({p}) /\ UNCHANGED <<mounts, schedules>>

\* A pod is created (or completes, or is annotated), or deleted.
MountChange(p, m) ==
    /\ mounts' = [mounts EXCEPT ![p] = (@ \cup {m}) \ (@ \cap {m})]
    /\ Touch({p}) /\ UNCHANGED <<claims, hostpath, schedules>>

ScheduleChange(s) ==
    /\ schedules' = (schedules \cup {s}) \ (schedules \cap {s})
    /\ Cardinality(schedules') <= MaxSchedules
    /\ Touch(Pvcs) /\ UNCHANGED <<claims, hostpath, mounts>>

-------------------------------------------------------------------------------
(* scan_once, the part that evaluates the selection.                       *)

\* Every pod is listed, completed ones too: a finished Job's pod may be the
\* only object that describes a volume and its annotations.
RunningOnly == [p \in Pvcs |-> {m \in mounts[p] : ~m.completed}]   \* mutant
PodsListed == mounts
ReadPods ==
    /\ step = "pods" /\ step' = "pvcs" /\ pods_list' = PodsListed
    /\ UNCHANGED <<world, pvcs_list, pvs_list, selection_page, touched>>

ReadPvcs ==
    /\ step = "pvcs" /\ step' = "pvs" /\ pvcs_list' = claims
    /\ UNCHANGED <<world, pods_list, pvs_list, selection_page, touched>>

ReadPvs ==
    /\ step = "pvs" /\ step' = "schedules" /\ pvs_list' = hostpath
    /\ UNCHANGED <<world, pods_list, pvcs_list, selection_page, touched>>

\* The page after a scan: the claims listed, judged against the Schedules.
Judged(p, claim, hostpaths, mounted, live) ==
    IF claim[p] = Absent THEN "none"
    ELSE Verdict(claim[p], p \in hostpaths, mounted[p], live)
ClearLists == pods_list' = NoMounts /\ pvcs_list' = NoClaims /\ pvs_list' = {}

ReadSchedules ==
    /\ step = "schedules" /\ step' = "sleep"
    /\ verdicts' = [p \in Pvcs |-> Judged(p, pvcs_list, pvs_list, pods_list, schedules)]
    /\ velero_success' = TRUE
    /\ ClearLists /\ UNCHANGED <<world, touched>>

\* An exception: the page says so and carries no series.
LastVerdicts == UNCHANGED verdicts                                \* mutant
DropVerdicts == verdicts' = NoVerdicts
SelectionFails ==
    /\ ListsMayFail /\ step # "sleep" /\ step' = "sleep"
    /\ DropVerdicts /\ velero_success' = FALSE
    /\ ClearLists /\ UNCHANGED <<world, touched>>

NextScan ==
    /\ step = "sleep" /\ step' = "pods" /\ touched' = {}
    /\ UNCHANGED <<world, lists, selection_page>>

SelectionScan ==
    SelectionFails \/ ReadPods \/ ReadPvcs \/ ReadPvs \/ ReadSchedules \/ NextScan

VeleroNext ==
    \/ \E p \in Pvcs : ClaimChange(p) \/ \E m \in MountPool : MountChange(p, m)
    \/ \E s \in SchedulePool : ScheduleChange(s)
    \/ SelectionScan

VeleroSpec == VeleroInit /\ [][VeleroNext]_velero_vars

\* The scan thread goes on, and not every scan fails.
FairVeleroSpec ==
    /\ VeleroSpec /\ WF_velero_vars(SelectionScan)
    /\ SF_velero_vars(ReadPods) /\ SF_velero_vars(ReadPvcs)
    /\ SF_velero_vars(ReadPvs) /\ SF_velero_vars(ReadSchedules)

-------------------------------------------------------------------------------
(* Properties.                                                             *)

\* Every variable has the type the program gives it.
VeleroTypeOK ==
    /\ claims \in [Pvcs -> ClaimPool \cup {Absent}] /\ hostpath \subseteq Pvcs
    /\ mounts \in [Pvcs -> SUBSET MountPool] /\ schedules \subseteq SchedulePool
    /\ step \in {"pods", "pvcs", "pvs", "schedules", "sleep"}
    /\ pods_list \in [Pvcs -> SUBSET MountPool]
    /\ pvcs_list \in [Pvcs -> ClaimPool \cup {Absent}] /\ pvs_list \subseteq Pvcs
    /\ verdicts \in [Pvcs -> Verdicts \cup {"none"}]
    /\ velero_success \in BOOLEAN /\ touched \subseteq Pvcs

\* What Velero's own rules say of a claim, without the probe's loops: some
\* Schedule that is live for the namespace takes a mounting pod and its volume.
Captured(p) ==
    \E s \in schedules, m \in mounts[p] :
        /\ ~s.paused /\ ~m.opted_out /\ (s.fs_backup \/ m.opted_in)
        /\ s.included = {} \/ s.included \cap {Wildcard, claims[p].namespace} # {}
        /\ ~(s.excluded \cap {Wildcard, claims[p].namespace} # {})
        /\ s.resources = {} \/ s.resources \cap {Wildcard, "pods"} # {}
        /\ s.dropped \cap {Wildcard, "pods"} = {}
        /\ \A e \in s.selector :
              LET has == m.labels[e.key] # Unset
                  among == has /\ m.labels[e.key] \in e.values
              IN  CASE e.op = "In" -> among [] e.op = "NotIn" -> ~among
                    [] e.op = "Exists" -> has [] e.op = "DoesNotExist" -> ~has
                    [] OTHER -> FALSE

Eligible(p) == claims[p] # Absent /\ claims[p].bound /\ ~claims[p].exempt
               /\ ~claims[p].local /\ p \notin hostpath

\* A claim nobody touched while the four lists were read, one after the other,
\* is reported as a gap exactly when no live Schedule captures its data.  A scan
\* that failed reports none: "its gap series are not current while this condition
\* holds" (velero-pvc-selection.yaml).
SettledVerdictIsTrue ==
    step = "sleep" =>
        \A p \in Pvcs \ touched :
            verdicts[p] \in Gaps <=> velero_success /\ Eligible(p) /\ ~Captured(p)

\* A gap that has been closed, and that nobody opens again, leaves the page,
\* although scans fail.
ClosedGapClears ==
    \A p \in Pvcs :
        <>[](claims[p] # Absent /\ Captured(p) /\ p \notin touched)
            => <>[](verdicts[p] \notin Gaps)
===============================================================================
