----------------------------- MODULE MCVeleroScan -----------------------------
(* VeleroScan for TLC: the pools that objects are drawn from.               *)
EXTENDS VeleroScan, TLC

Labels(v) == [app |-> v]
Claim(bound, local, exempt, v) ==
    [namespace |-> "media", bound |-> bound, local |-> local, exempt |-> exempt,
     labels |-> Labels(v)]
MCClaims == {Claim(TRUE, FALSE, FALSE, "db"), Claim(TRUE, FALSE, TRUE, Unset),
             Claim(FALSE, FALSE, FALSE, "db"), Claim(TRUE, TRUE, FALSE, Unset)}

Pod(v, completed, in, out) ==
    [labels |-> Labels(v), completed |-> completed, opted_in |-> in, opted_out |-> out]
MCPods == {Pod("db", TRUE, TRUE, FALSE), Pod("web", FALSE, TRUE, TRUE)}

Schedule(paused, included, excluded, resources, dropped, selector, fs) ==
    [paused |-> paused, included |-> included, excluded |-> excluded,
     resources |-> resources, dropped |-> dropped, selector |-> selector,
     fs_backup |-> fs]
AppIs(op, values) == {[key |-> "app", op |-> op, values |-> values]}
\* One Schedule for each guard of schedule_selects and each operator.
MCSchedules == {
    Schedule(FALSE, {"media"}, {}, {}, {}, {}, FALSE),
    Schedule(FALSE, {Wildcard}, {"media"}, {}, {}, {}, TRUE),
    Schedule(FALSE, {"home"}, {}, {}, {}, {}, TRUE),
    Schedule(TRUE, {}, {}, {}, {}, {}, TRUE),
    Schedule(FALSE, {}, {}, {"persistentvolumeclaims"}, {}, {}, TRUE),
    Schedule(FALSE, {}, {}, {Wildcard}, {"pods"}, {}, TRUE),
    Schedule(FALSE, {Wildcard}, {}, {"pods"}, {}, AppIs("In", {"db"}), TRUE),
    Schedule(FALSE, {}, {}, {}, {}, AppIs("NotIn", {"db"}), TRUE),
    Schedule(FALSE, {}, {}, {}, {}, AppIs("Exists", {}), FALSE),
    Schedule(FALSE, {}, {}, {}, {}, AppIs("DoesNotExist", {}), TRUE),
    Schedule(FALSE, {}, {}, {}, {}, AppIs("Gt", {"db"}), TRUE)}
===============================================================================
