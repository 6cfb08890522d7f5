-------------------------- MODULE PromqlSelectors ---------------------------
(* The lexer of tools/check-mimir-label-contract.py, which takes the vector   *)
(* selectors out of a PromQL expression, and beside it PromQL expressions     *)
(* with the selectors they really have. An expression is a sequence of        *)
(* tokens: a quoted string is one token whatever it contains, white space is  *)
(* none, and a duration is a digit followed by its unit. The metric names,    *)
(* label matchers and strings are members of small sets.                      *)
EXTENDS Integers, Sequences, FiniteSets, FiniteSetsExt

CONSTANTS Metrics,
          Matchers      \* what a selector may have between its braces: label, op and the values it names

NoMatcher == [label |-> "none", op |-> "=", values |-> {}]

Name(n) == [kind |-> "name", text |-> n]
Unit(n) == [kind |-> "unit", text |-> n]        \* identifier right behind a digit
Mark(m) == [kind |-> "mark", text |-> m]
String == [kind |-> "string", text |-> "any"]
Match(m) == [kind |-> "matcher", text |-> m]

LabelLists == {"by", "ignoring", "on", "without", "group_left", "group_right"}
PROMQL_WORDS == LabelLists \union {"and", "or", "unless", "bool", "offset", "sum", "max", "count"}
DURATION_UNITS == {"m", "h", "d"}

\* The lexer reads a metric with a keyword's name as that keyword.
ASSUME MetricsAssumption == Metrics \intersect PROMQL_WORDS = {}

Selector(metric, matcher) == [metric |-> metric, matcher |-> matcher]

(* ------------------------------------------------------------ the lexer *)

IsMark(e, i, m) == i \in DOMAIN e /\ e[i] = Mark(m)
\* CheckError: the brace or the parenthesis is never closed.
Unterminated == 0

\* The index after the closing brace; a brace in a string is not one.
balanced_braces(e, i) ==
    LET closing == {j \in i..Len(e) : IsMark(e, j, "}")}
    IN  IF closing = {} THEN Unterminated ELSE Min(closing) + 1

Depth(e, i, j) == Quantify(i..j, LAMBDA k : IsMark(e, k, "(")) - Quantify(i..j, LAMBDA k : IsMark(e, k, ")"))
skip_parentheses(e, i) ==
    LET closing == {j \in i..Len(e) : Depth(e, i, j) = 0}
    IN  IF closing = {} THEN Unterminated ELSE Min(closing) + 1

\* What stands between the braces, none or one matcher here.
Contents(e, i) == IF e[i + 1].kind = "matcher" THEN e[i + 1].text ELSE NoMatcher

IsIdentifier(e, i) == e[i].kind \in {"name", "unit"}
IsAnyList(e, i) == IsMark(e, i + 1, "(")

IsLabelList(e, i) == e[i].text \in LabelLists /\ IsMark(e, i + 1, "(")

\* Where the lexer goes on after the identifier at i, and what it found there.
Past(e, i) ==
    IF e[i].kind = "unit" /\ e[i].text \in DURATION_UNITS THEN i + 1
    ELSE IF IsMark(e, i + 1, "{") THEN balanced_braces(e, i + 1)
    ELSE IF IsLabelList(e, i) THEN skip_parentheses(e, i + 1)
    ELSE i + 1
Found(e, i) ==
    IF e[i].kind = "unit" /\ e[i].text \in DURATION_UNITS THEN {}
    ELSE IF IsMark(e, i + 1, "{") THEN {Selector(e[i].text, Contents(e, i + 1))}
    ELSE IF IsMark(e, i + 1, "(") \/ e[i].text \in PROMQL_WORDS THEN {}
    ELSE {Selector(e[i].text, NoMatcher)}

\* The selectors from each position on. Nothing is found after a brace or a
\* parenthesis that is never closed: run would count the CheckError and exit 2,
\* and no expression below has one.
extract_selectors(e) ==
    LET from[i \in 0..Len(e) + 1] ==
            IF i \in {Unterminated, Len(e) + 1} THEN {}
            ELSE IF IsIdentifier(e, i) THEN Found(e, i) \union from[Past(e, i)]
            ELSE from[i + 1]
    IN  from[1]

(* -------------------------------------------- PromQL, by construction *)

\* An expression with the selectors PromQL sees in it.
Expr(tokens, selectors) == [tokens |-> tokens, selectors |-> selectors]

Bare(m) == Expr(<<Name(m)>>, {Selector(m, NoMatcher)})
Braced(m, match) ==
    Expr(<<Name(m), Mark("{")>> \o (IF match = NoMatcher THEN <<>> ELSE <<Match(match)>>) \o <<Mark("}")>>,
         {Selector(m, match)})
Vectors == {Bare(m) : m \in Metrics} \union {Braced(m, k) : m \in Metrics, k \in Matchers \union {NoMatcher}}

Ranged(x) == Expr(x.tokens \o <<Mark("["), Mark("5"), Unit("m"), Mark("]")>>, x.selectors)
\* A range of one hour in steps of five minutes: the colon belongs to the
\* identifier that the lexer reads.
Subquery(x) == Expr(x.tokens \o <<Mark("["), Mark("1"), Unit("h:5m"), Mark("]")>>, x.selectors)
Call(x) == Expr(<<Name("rate"), Mark("(")>> \o x.tokens \o <<Mark(")")>>, x.selectors)
Labelled(x) ==
    Expr(<<Name("label_replace"), Mark("(")>> \o x.tokens \o <<Mark(","), String, Mark(")")>>, x.selectors)
SumBy(x) ==
    Expr(<<Name("sum"), Name("by"), Mark("("), Name("job"), Mark(")"), Mark("(")>>
         \o x.tokens \o <<Mark(")")>>, x.selectors)
SumOf(x) == Expr(<<Name("sum"), Mark("(")>> \o x.tokens \o
                 <<Mark(")"), Name("without"), Mark("("), Name("job"), Mark(")")>>, x.selectors)
Joined(x, y) ==
    Expr(x.tokens \o <<Mark("*"), Name("on"), Mark("("), Name("job"), Mark(")"),
                       Name("group_left"), Mark("("), Mark(")")>> \o y.tokens,
         x.selectors \union y.selectors)
Both(x, y) == Expr(x.tokens \o <<Name("and")>> \o y.tokens, x.selectors \union y.selectors)

Functions1 == {Call(Ranged(v)) : v \in Vectors} \union {Call(Subquery(v)) : v \in Vectors}
              \union {Labelled(v) : v \in Vectors}
Terms == Vectors \union Functions1 \union {SumBy(x) : x \in Vectors \union Functions1}
         \union {SumOf(x) : x \in Functions1}
Bares == {Bare(m) : m \in Metrics}
Expressions == Terms \union {Joined(x, y) : x \in Bares, y \in Terms}
                     \union {Both(x, y) : x \in Functions1, y \in Bares}
=============================================================================
