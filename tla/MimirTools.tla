----------------------------- MODULE MimirTools -----------------------------
(* The two live checks of tools/ that an operator starts by hand against      *)
(* Mimir: a behaviour is one sweep of check-mimir-alert-stability.py or one   *)
(* pass of check-mimir-label-contract.py; the variables of the other stand    *)
(* still.                                                                     *)
EXTENDS AlertStability, PromqlSelectors

CONSTANTS Tenant, Values, RuleSets, MaxIngested      \* of LabelContract

\* The expressions a pass is given are PromQL.
ASSUME RulesAssumption == RuleSets \subseteq SUBSET Expressions

VARIABLES db, atStart, rules, todo, current, cache, failed, errors, status

Contract == INSTANCE LabelContract

pass == <<db, atStart, rules, todo, current, cache, failed, errors, status>>

SweepNotRun ==
    /\ now = MaxTicks /\ active = [a \in Alerts |-> {}] /\ before = [a \in Alerts |-> 0] /\ churning = FALSE
    /\ phase = "done" /\ end = 0 /\ exit = -1 /\ candidates = {} /\ mismatches = {}
    /\ queries = [task \in Tasks |-> "pending"] /\ states = [t \in Tenants |-> {}]
ContractNotRun ==
    /\ db = {} /\ atStart = {} /\ rules = {} /\ todo = {} /\ current = <<>> /\ cache = <<>>
    /\ failed = {} /\ errors = 0 /\ status = "not run"

ToolInit == (Init /\ ContractNotRun) \/ (Contract!Init /\ SweepNotRun)
ToolNext == (Next /\ UNCHANGED pass) \/ (Contract!Next /\ UNCHANGED vars)
ToolSpec == ToolInit /\ [][ToolNext]_<<vars, pass>>

\* The selectors reported as failing stand in their rule, could match a series
\* of this tenant, have a family with series, and matched none when the check
\* began (LabelContract; tools/check-mimir-label-contract.py).
FailuresAreReal == Contract!FailuresAreReal

\* A check that exits 0 leaves no selector of any rule, whose family was present
\* when it began, that could match in this tenant and matches nothing.
CleanExitMeansMatched == Contract!CleanExitMeansMatched

\* Exit status 1 means that a present family had no match of the full selector
\* (docs/reference/mimir-label-contract-check.md).
ExitOneIsAMismatch == Contract!ExitOneIsAMismatch
=============================================================================
