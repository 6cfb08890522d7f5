------------------------- MODULE MCPortForwardProbe -------------------------
(* PortForwardProbe for TLC: Ottawa in the worst weather, Robbinsdale with   *)
(* lost requests, and both sites in the calm in which liveness is promised.  *)
EXTENDS PortForwardProbe

Ottawa == [CondemnNoPort |-> TRUE, Flaky |-> TRUE, CanKill |-> TRUE, MaxChanges |-> 3]
Robbinsdale == [CondemnNoPort |-> FALSE, Flaky |-> FALSE, CanKill |-> FALSE, MaxChanges |-> 1]
BothSites == {Ottawa, Robbinsdale, [Robbinsdale EXCEPT !.Flaky = TRUE],
              [Robbinsdale EXCEPT !.CondemnNoPort = TRUE]}

LostPut == {[Ottawa EXCEPT !.CanKill = FALSE, !.MaxChanges = 1]}
=============================================================================
