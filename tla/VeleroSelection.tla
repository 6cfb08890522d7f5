---------------------------- MODULE VeleroSelection ----------------------------
(***************************************************************************)
(* The pure half of probe.py: which PVCs a set of Velero Schedules captures.*)
(* A Schedule selects objects by namespace, resource and labels, and the   *)
(* data of a volume by a default of its own or an annotation of the pod.   *)
(*                                                                         *)
(* Objects are records.  A label map gives every key a value or Unset; a   *)
(* selector is a set of expressions, where matchLabels {k: v} is the       *)
(* expression k In {v}; the annotations of a mounting pod are reduced to   *)
(* whether they name the volume.                                           *)
(***************************************************************************)

CONSTANT Unset      \* a label key without a value

Wildcard == "*"          \* the wildcard of namespace and resource lists

\* One matchExpressions entry.  An operator Kubernetes does not know matches
\* nothing.
Satisfies(labels, e) ==
    LET value == labels[e.key]
    IN  \/ e.op = "In" /\ value # Unset /\ value \in e.values
        \/ e.op = "NotIn" /\ ~(value # Unset /\ value \in e.values)
        \/ e.op = "Exists" /\ value # Unset
        \/ e.op = "DoesNotExist" /\ value = Unset

selector_matches(labels, selector) == \A e \in selector : Satisfies(labels, e)

\* An empty list names no resource; its callers tell "none" from "all".
resource_selector_matches(resources, resource) ==
    resources \cap {Wildcard, resource} # {}

schedule_selects(s, namespace, labels, resource) ==
    /\ ~s.paused
    /\ s.included # {} => s.included \cap {Wildcard, namespace} # {}
    /\ s.excluded \cap {Wildcard, namespace} = {}
    /\ s.resources # {} => resource_selector_matches(s.resources, resource)
    /\ ~resource_selector_matches(s.dropped, resource)
    /\ selector_matches(labels, s.selector)

\* An annotation that excludes the volume wins over every way to include it.
OptOutIgnored(s, m) == s.fs_backup \/ m.opted_in                  \* mutant
schedule_selects_volume(s, m) == ~m.opted_out /\ (s.fs_backup \/ m.opted_in)

\* Velero's file-system backup refuses these volumes whatever is selected.
ReasonNotTold(pvc, hostpath) ==                                   \* mutant
    IF hostpath \/ pvc.local THEN "structural" ELSE "none"
structural_exclusion_reason(pvc, hostpath) ==
    IF hostpath THEN "hostpath" ELSE IF pvc.local THEN "local_path" ELSE "none"

\* A pod that mounts the claim is selected by a Schedule.
PodSelected(s, pvc, m) == schedule_selects(s, pvc.namespace, m.labels, "pods")
PvcSelected(s, pvc) ==
    schedule_selects(s, pvc.namespace, pvc.labels, "persistentvolumeclaims")

matching_schedules(pvc, mounts, schedules) ==
    {s \in schedules : PvcSelected(s, pvc) \/ \E m \in mounts : PodSelected(s, pvc, m)}
data_schedules(pvc, mounts, schedules) ==
    {s \in schedules :
        \E m \in mounts : PodSelected(s, pvc, m) /\ schedule_selects_volume(s, m)}

\* What evaluate_pvc_selection says of one claim: a gap with its reason, a
\* structural exclusion with its reason, or nothing.
Verdict(pvc, hostpath, mounts, schedules) ==
    CASE ~pvc.bound -> "skipped"
      [] pvc.bound /\ structural_exclusion_reason(pvc, hostpath) # "none" ->
            structural_exclusion_reason(pvc, hostpath)
      [] OTHER ->
            IF pvc.exempt THEN "skipped"
            ELSE IF matching_schedules(pvc, mounts, schedules) = {} THEN "no_schedule"
            ELSE IF data_schedules(pvc, mounts, schedules) = {} THEN "no_volume_selection"
            ELSE "covered"

Gaps == {"no_schedule", "no_volume_selection"}
Verdicts == Gaps \cup {"skipped", "hostpath", "local_path", "covered"}
===============================================================================
