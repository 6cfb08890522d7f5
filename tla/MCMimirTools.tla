---------------------------- MODULE MCMimirTools ----------------------------
(* Constants of MimirTools: two tenants and one rule, whose alert flaps in    *)
(* the first tenant; two metrics, four matchers and every expression of       *)
(* PromqlSelectors beside a second rule.                                      *)
EXTENDS MimirTools

MCTenants == {"ottawa", "robbinsdale"}
MCRules == {"KubeletDown"}
MCAlerts == {<<"ottawa", "KubeletDown", "tank">>}
MCFor == [r \in MCRules |-> 4]

Matcher(l, o, v) == [label |-> l, op |-> o, values |-> v]
NotReady == Matcher("ready", "!=", {"true"})
MCMetrics == {"up", "ready"}
MCMatchers == {Matcher("cluster", "=~", {"ottawa", "robbinsdale"}), Matcher("cluster", "!=", {"ottawa"}),
               NotReady, Matcher("ready", "single-quoted", {"true"})}
MCValues == {"true", "false"}
MCRuleSets == {{x, Braced("up", NotReady)} : x \in Expressions}
=============================================================================
