-------------------------- MODULE MimirToolsProofs --------------------------
(* What the two tools of MimirTools report is true, for every set of tenants, *)
(* rules, metrics and matchers, every window and every set of expressions     *)
(* that PromqlSelectors builds.                                               *)
EXTENDS MimirTools, FiniteSetTheorems, SequenceTheorems, WellFoundedInduction, TLAPS

(* ----------------------------------------------------- sets of numbers *)

LEMMA LeastNatural ==
    ASSUME NEW T \in SUBSET Nat, T # {}
    PROVE  \E m \in T : \A k \in T : m <= k
<1> DEFINE R == OpToRel(<, Nat)
<1>1. PICK m \in T : \A k \in T : <<k, m>> \notin R
  <2> HIDE DEF R
  <2>1. IsWellFoundedOn(R, Nat)
    BY NatLessThanWellFounded DEF R
  <2> QED BY <2>1, WFMin, Zenon
<1>2. \A k \in T : <<k, m>> \notin R => m <= k
  BY DEF OpToRel
<1> QED BY <1>1, <1>2

\* Min is what its name says on the naturals.
LEMMA MinProperties ==
    ASSUME NEW T \in SUBSET Nat, T # {}
    PROVE  Min(T) \in T /\ \A t \in T : Min(T) <= t
<1>1. \E m \in T : \A k \in T : m <= k
  BY LeastNatural
<1> QED BY <1>1 DEF Min

(* ------------------------------------------------------- the expressions *)

Words == PROMQL_WORDS \union {"rate", "label_replace", "job"}
Marks == {"{", "}", "[", "]", "(", ")", ",", "*", "1", "5"}
Texts == Metrics \union Words \union Marks \union {"m", "h:5m", "any"} \union Matchers \union {NoMatcher}
Tokens == [kind : {"name", "unit", "mark", "string", "matcher"}, text : Texts]

LEMMA TokenKinds ==
    /\ \A n \in Metrics \union Words : Name(n) \in Tokens
    /\ \A m \in Marks : Mark(m) \in Tokens
    /\ Unit("m") \in Tokens /\ Unit("h:5m") \in Tokens /\ String \in Tokens
    /\ \A k \in Matchers \union {NoMatcher} : Match(k) \in Tokens
<1>1. /\ Metrics \union Words \subseteq Texts /\ Marks \subseteq Texts
      /\ "m" \in Texts /\ "h:5m" \in Texts /\ "any" \in Texts /\ Matchers \union {NoMatcher} \subseteq Texts
  BY Zenon DEF Texts
<1> QED BY <1>1 DEF Tokens, Name, Unit, Mark, String, Match

(* ------------------------------------------------------------ the lexer *)

\* f is the function extract_selectors defines over the positions of e.
Lexing(e, f) ==
    /\ e \in Seq(Tokens)
    /\ f = [i \in 0..Len(e) + 1 |->
               IF i \in {Unterminated, Len(e) + 1} THEN {}
               ELSE IF IsIdentifier(e, i) THEN Found(e, i) \union f[Past(e, i)]
               ELSE f[i + 1]]

LEMMA FirstBehind ==
    ASSUME NEW n \in Nat, NEW i \in 1..n, NEW C, C \subseteq i + 1..n
    PROVE  (IF C = {} THEN Unterminated ELSE Min(C) + 1) \in {Unterminated} \union (i + 1..n + 1)
<1>1. CASE C = {}
  BY <1>1
<1>2. CASE C # {}
  <2>1. C \in SUBSET Nat
    OBVIOUS
  <2>2. Min(C) \in C
    BY <1>2, <2>1, MinProperties
  <2>3. Min(C) + 1 \in i + 1..n + 1
    <3>1. Min(C) \in i + 1..n
      BY <2>2
    <3> QED BY <3>1
  <2> QED BY <1>2, <2>3, Zenon
<1> QED BY <1>1, <1>2

\* The lexer goes on behind the token it is at, or ends.
LEMMA PastAdvances ==
    ASSUME NEW e \in Seq(Tokens), NEW i \in 1..Len(e)
    PROVE  Past(e, i) \in {Unterminated} \union (i + 1..Len(e) + 1)
<1>1. Len(e) \in Nat
  OBVIOUS
<1>2. balanced_braces(e, i + 1) \in {Unterminated} \union (i + 1..Len(e) + 1)
  <2> DEFINE closing == {j \in i + 1..Len(e) : IsMark(e, j, "}")}
  <2>1. closing \subseteq i + 1..Len(e)
    BY Zenon
  <2> HIDE DEF closing
  <2>2. (IF closing = {} THEN Unterminated ELSE Min(closing) + 1) \in {Unterminated} \union (i + 1..Len(e) + 1)
    BY <1>1, <2>1, FirstBehind
  <2> QED BY <2>2, Zenon DEF balanced_braces, closing
<1>3. skip_parentheses(e, i + 1) \in {Unterminated} \union (i + 1..Len(e) + 1)
  <2> DEFINE closing == {j \in i + 1..Len(e) : Depth(e, i + 1, j) = 0}
  <2>1. closing \subseteq i + 1..Len(e)
    BY Zenon
  <2> HIDE DEF closing
  <2>2. (IF closing = {} THEN Unterminated ELSE Min(closing) + 1) \in {Unterminated} \union (i + 1..Len(e) + 1)
    BY <1>1, <2>1, FirstBehind
  <2> QED BY <2>2, Zenon DEF skip_parentheses, closing
<1>4. i + 1 \in i + 1..Len(e) + 1
  BY <1>1
<1> HIDE DEF Unterminated
<1> QED BY <1>2, <1>3, <1>4, Zenon DEF Past

\* The recursion of the lexer has a value on every sequence of tokens: from the
\* last position back to the first, each needs only positions behind it.
LEMMA LexingExists ==
    ASSUME NEW e \in Seq(Tokens)
    PROVE  \E f : Lexing(e, f)
<1> DEFINE n == Len(e)
           Body(f, i) == IF i \in {Unterminated, n + 1} THEN {}
                         ELSE IF IsIdentifier(e, i) THEN Found(e, i) \union f[Past(e, i)]
                         ELSE f[i + 1]
           From(k) == {Unterminated} \union (k..n + 1)
           Works(k, f) == f = [i \in From(k) |-> f[i]] /\ \A i \in From(k) : f[i] = Body(f, i)
           K == {k \in 1..n + 1 : \E f : Works(k, f)}
<1>1. n \in Nat
  OBVIOUS
<1>2. n + 1 \in K
  <2> DEFINE f == [i \in From(n + 1) |-> {}]
  <2>1. From(n + 1) = {Unterminated, n + 1}
    BY <1>1
  <2>2. f = [i \in From(n + 1) |-> f[i]] /\ \A i \in From(n + 1) : f[i] = {}
    BY Zenon
  <2>3. Works(n + 1, f)
    <3> HIDE DEF From, f
    <3> QED BY <2>1, <2>2, Zenon
  <2>4. n + 1 \in 1..n + 1
    BY <1>1
  <2> HIDE DEF f, Works
  <2> QED BY <2>3, <2>4, Zenon
<1>3. ASSUME NEW k \in 1..n, k + 1 \in K PROVE k \in K
  <2>1. PICK g : Works(k + 1, g)
    BY <1>3
  <2> DEFINE f == [i \in From(k) |-> IF i = k THEN Body(g, k) ELSE g[i]]
  <2>2. Past(e, k) \in From(k + 1) /\ k + 1 \in From(k + 1)
    BY <1>1, PastAdvances
  <2>3. From(k) = From(k + 1) \union {k} /\ k \notin From(k + 1)
    BY <1>1 DEF Unterminated
  <2>4. ASSUME NEW i \in From(k + 1) PROVE f[i] = g[i]
    BY <2>3
  <2>5. f[k] = Body(f, k)
    <3>1. f[k] = Body(g, k)
      BY <2>3
    <3>2. f[Past(e, k)] = g[Past(e, k)] /\ f[k + 1] = g[k + 1]
      BY <2>2, <2>4
    <3> HIDE DEF f, From
    <3> QED BY <3>1, <3>2
  <2>6. ASSUME NEW i \in From(k + 1) PROVE f[i] = Body(f, i)
    <3>1. CASE i \in {Unterminated, n + 1}
      <4> HIDE DEF f
      <4> QED BY <2>1, <2>4, <3>1
    <3>2. CASE i \notin {Unterminated, n + 1}
      <4>1. i \in 1..n /\ i >= k + 1
        BY <1>1, <3>2
      <4>2. Past(e, i) \in From(k + 1) /\ i + 1 \in From(k + 1)
        BY <1>1, <4>1, PastAdvances
      <4>3. f[Past(e, i)] = g[Past(e, i)] /\ f[i + 1] = g[i + 1] /\ f[i] = g[i]
        BY <4>2, <2>4
      <4>4. g[i] = Body(g, i)
        BY <2>1
      <4> HIDE DEF f, From
      <4> QED BY <3>2, <4>3, <4>4
    <3> QED BY <3>1, <3>2
  <2>7. Works(k, f)
    <3>1. f = [i \in From(k) |-> f[i]]
      OBVIOUS
    <3>2. \A i \in From(k) : i = k \/ i \in From(k + 1)
      BY <2>3
    <3> HIDE DEF f, Body, From
    <3> QED BY <2>5, <2>6, <3>1, <3>2, Zenon
  <2>8. k \in 1..n + 1
    BY <1>1
  <2> HIDE DEF f, Works
  <2> QED BY <2>7, <2>8, Zenon
<1>4. 1 \in K
  <2>1. K \in SUBSET Nat /\ K # {} /\ \A k \in K : k \in 1..n + 1
    <3>1. \A k \in K : k \in 1..n + 1
      BY Zenon
    <3> HIDE DEF K
    <3> QED BY <1>1, <1>2, <3>1
  <2> HIDE DEF K, n
  <2>2. PICK m \in K : \A k \in K : m <= k
    BY <2>1, LeastNatural
  <2>3. CASE m = 1
    BY <2>2, <2>3
  <2>4. CASE m # 1
    <3>1. m - 1 \in 1..n /\ m = (m - 1) + 1
      BY <1>1, <2>1, <2>2, <2>4
    <3>2. m - 1 \in K
      BY <1>3, <3>1, <2>2
    <3> QED BY <3>1, <3>2, <2>1, <2>2
  <2> QED BY <2>3, <2>4
<1>5. PICK f : Works(1, f)
  BY <1>4
<1>6. From(1) = 0..n + 1
  BY <1>1 DEF Unterminated
<1>7. f = [i \in 0..n + 1 |-> Body(f, i)]
  <2> HIDE DEF Body, From
  <2>1. f = [i \in 0..n + 1 |-> f[i]] /\ \A i \in 0..n + 1 : f[i] = Body(f, i)
    BY <1>5, <1>6, Zenon
  <2> QED BY <2>1
<1> QED BY <1>7, Zenon DEF Lexing

LEMMA ExtractIsLexing ==
    ASSUME NEW e \in Seq(Tokens)
    PROVE  \E f : Lexing(e, f) /\ extract_selectors(e) = f[1]
<1> DEFINE f == CHOOSE g : g = [i \in 0..Len(e) + 1 |->
               IF i \in {Unterminated, Len(e) + 1} THEN {}
               ELSE IF IsIdentifier(e, i) THEN Found(e, i) \union g[Past(e, i)]
               ELSE g[i + 1]]
<1>1. Lexing(e, f)
  BY LexingExists, Zenon DEF Lexing
<1>2. extract_selectors(e) = f[1]
  BY DEF extract_selectors
<1> QED BY <1>1, <1>2

(* ------------------------------- what the lexer reads, token by token *)

LEMMA TokenParts ==
    /\ \A n : /\ Name(n).kind = "name" /\ Name(n).text = n
            /\ Unit(n).kind = "unit" /\ Unit(n).text = n
            /\ Match(n).kind = "matcher" /\ Match(n).text = n
            /\ Mark(n).kind = "mark"
    /\ String.kind = "string"
BY DEF Mark, Name, Unit, String, Match

LEMMA TokensDiffer ==
    /\ \A a, b : Mark(a) = Mark(b) => a = b
    /\ \A n, m : Name(n) # Mark(m) /\ Unit(n) # Mark(m) /\ String # Mark(m) /\ Match(n) # Mark(m)
<1>1. ASSUME NEW a, NEW b, Mark(a) = Mark(b) PROVE a = b
  <2>1. Mark(a).text = a /\ Mark(b).text = b
    BY DEF Mark
  <2> QED BY <1>1, <2>1
<1>2. ASSUME NEW n, NEW m
      PROVE  Name(n) # Mark(m) /\ Unit(n) # Mark(m) /\ String # Mark(m) /\ Match(n) # Mark(m)
  <2>1. /\ Mark(m).kind = "mark" /\ Name(n).kind = "name" /\ Unit(n).kind = "unit"
        /\ String.kind = "string" /\ Match(n).kind = "matcher"
    BY DEF Mark, Name, Unit, String, Match
  <2> QED BY <2>1
<1> QED BY <1>1, <1>2

\* The subquery's tail that the lexer takes for a metric.
Ghosts == {Selector("h:5m", NoMatcher)}

\* Between positions i and j of its input the lexer finds S, and no ghost but
\* that one.
Reads(f, i, j, S) == S \union f[j] \subseteq f[i] /\ f[i] \subseteq S \union Ghosts \union f[j]

LEMMA ReadsOn ==
    ASSUME NEW f, NEW i, NEW j, NEW k, NEW S, NEW T, Reads(f, i, j, S), Reads(f, j, k, T)
    PROVE  Reads(f, i, k, S \union T)
BY DEF Reads

LEMMA ReadsNothing ==
    ASSUME NEW f, NEW i, NEW j, NEW k, NEW S
    PROVE  /\ Reads(f, i, j, S) /\ Reads(f, j, k, {}) => Reads(f, i, k, S)
           /\ Reads(f, i, j, {}) /\ Reads(f, j, k, S) => Reads(f, i, k, S)
BY DEF Reads

LEMMA OneStep ==
    ASSUME NEW e, NEW f, Lexing(e, f), NEW i \in 1..Len(e)
    PROVE  f[i] = IF IsIdentifier(e, i) THEN Found(e, i) \union f[Past(e, i)] ELSE f[i + 1]
<1>1. e \in Seq(Tokens) /\ Len(e) \in Nat
  BY DEF Lexing
<1>2. i \in 0..Len(e) + 1 /\ i \notin {Unterminated, Len(e) + 1}
  BY <1>1 DEF Unterminated
<1>3. \A k \in 0..Len(e) + 1 :
        f[k] = IF k \in {Unterminated, Len(e) + 1} THEN {}
               ELSE IF IsIdentifier(e, k) THEN Found(e, k) \union f[Past(e, k)] ELSE f[k + 1]
  BY Zenon DEF Lexing
<1> QED BY <1>2, <1>3, Zenon

\* Punctuation, digits and strings.
LEMMA StepOther ==
    ASSUME NEW e, NEW f, Lexing(e, f), NEW i \in 1..Len(e),
           e[i] = String \/ \E m : e[i] = Mark(m)
    PROVE  Reads(f, i, i + 1, {})
<1>1. e[i].kind \notin {"name", "unit"}
  <2>1. e[i].kind = "string" \/ e[i].kind = "mark"
    BY TokenParts, Zenon
  <2> QED BY <2>1
<1>2. f[i] = f[i + 1]
  BY <1>1, OneStep, Zenon DEF IsIdentifier
<1> QED BY <1>2 DEF Reads

\* A function or an aggregation before its parenthesis, or another keyword.
LEMMA StepWord ==
    ASSUME NEW e, NEW f, Lexing(e, f), NEW i \in 1..Len(e), NEW w, e[i] = Name(w),
           w \notin LabelLists, ~IsMark(e, i + 1, "{"),
           IsMark(e, i + 1, "(") \/ w \in PROMQL_WORDS
    PROVE  Reads(f, i, i + 1, {})
<1>1. e[i].kind = "name" /\ e[i].text = w
  BY TokenParts, Zenon
<1>2. Past(e, i) = i + 1 /\ Found(e, i) = {} /\ IsIdentifier(e, i)
  BY <1>1 DEF Past, Found, IsIdentifier, IsLabelList
<1>3. f[i] = f[i + 1]
  BY <1>2, OneStep
<1> QED BY <1>3 DEF Reads

LEMMA StepUnit ==
    ASSUME NEW e, NEW f, Lexing(e, f), NEW i \in 1..Len(e),
           e[i] = Unit("m") \/ e[i] = Unit("h:5m"), ~IsMark(e, i + 1, "{"), ~IsMark(e, i + 1, "(")
    PROVE  Reads(f, i, i + 1, {})
<1>1. e[i].kind = "unit" /\ e[i].text \in {"m", "h:5m"}
  BY TokenParts, Zenon
<1>2. e[i].text \notin LabelLists
  BY <1>1 DEF LabelLists
<1>3. Past(e, i) = i + 1 /\ IsIdentifier(e, i)
  BY <1>1, <1>2 DEF Past, IsIdentifier, IsLabelList
<1>4. Found(e, i) \subseteq Ghosts
  BY <1>1 DEF Found, Ghosts, DURATION_UNITS
<1>5. f[i] = Found(e, i) \union f[i + 1]
  BY <1>3, OneStep
<1> QED BY <1>4, <1>5 DEF Reads

\* What may stand behind a metric's name.
Ends(e, j) == j \in 1..Len(e) + 1 /\ ~IsMark(e, j, "{") /\ ~IsMark(e, j, "(")

LEMMA StepBare ==
    ASSUME NEW e, NEW f, Lexing(e, f), NEW i \in 1..Len(e), NEW m \in Metrics, e[i] = Name(m),
           Ends(e, i + 1)
    PROVE  Reads(f, i, i + 1, {Selector(m, NoMatcher)})
<1>1. e[i].kind = "name" /\ e[i].text = m
  BY TokenParts, Zenon
<1>2. m \notin PROMQL_WORDS /\ m \notin LabelLists
  BY MetricsAssumption DEF PROMQL_WORDS
<1>3. Past(e, i) = i + 1 /\ IsIdentifier(e, i)
  BY <1>1, <1>2 DEF Past, IsIdentifier, IsLabelList, Ends
<1>4. Found(e, i) = {Selector(m, NoMatcher)}
  BY <1>1, <1>2 DEF Found, Ends
<1>5. f[i] = Found(e, i) \union f[i + 1]
  BY <1>3, OneStep
<1> QED BY <1>4, <1>5 DEF Reads

LEMMA MinIs ==
    ASSUME NEW C \in SUBSET Nat, NEW m \in C, \A c \in C : m <= c
    PROVE  C # {} /\ Min(C) = m
<1>1. Min(C) \in C /\ \A c \in C : Min(C) <= c
  BY MinProperties
<1>2. Min(C) <= m /\ m <= Min(C)
  BY <1>1
<1>3. Min(C) \in Nat /\ m \in Nat
  BY <1>1
<1> QED BY <1>2, <1>3

OpenBrace(e, i) == IsMark(e, i, "{")
CloseBrace(e, i) == IsMark(e, i, "}")

LEMMA BracesDiffer ==
    ASSUME NEW e, NEW i
    PROVE  /\ OpenBrace(e, i) => ~CloseBrace(e, i)
           /\ \A k : e[i] = Match(k) => ~CloseBrace(e, i)
<1>1. "{" # "}"
  BY Zenon
<1> QED BY <1>1, TokensDiffer, Zenon DEF OpenBrace, CloseBrace, IsMark

\* A selector with its braces, and k between them.
Filled(e, i, j, k) ==
    \/ j = i + 2 /\ k = NoMatcher /\ CloseBrace(e, i + 2)
    \/ j = i + 3 /\ e[i + 2] = Match(k)

LEMMA StepBraced ==
    ASSUME NEW e, NEW f, Lexing(e, f), NEW i \in 1..Len(e),
           NEW m, NEW k, e[i] = Name(m), OpenBrace(e, i + 1),
           NEW j \in 1..Len(e), CloseBrace(e, j), Filled(e, i, j, k)
    PROVE  Reads(f, i, j + 1, {Selector(m, k)})
<1>1. Len(e) \in Nat /\ DOMAIN e = 1..Len(e)
  BY DEF Lexing
<1>2. balanced_braces(e, i + 1) = j + 1
  <2> DEFINE closing == {n \in i + 1..Len(e) : CloseBrace(e, n)}
  <2>1. closing \in SUBSET Nat
    BY <1>1
  <2>2. j \in closing
    BY <1>1 DEF Filled
  <2>3. \A n \in closing : j <= n
    <3>1. SUFFICES ASSUME NEW n \in i + 1..Len(e), CloseBrace(e, n), n < j PROVE FALSE
      BY <1>1
    <3>2. n = i + 1 \/ (n = i + 2 /\ j = i + 3 /\ e[n] = Match(k))
      BY <1>1, <3>1 DEF Filled
    <3> QED BY <3>1, <3>2, BracesDiffer, Zenon
  <2> HIDE DEF closing
  <2>4. closing # {} /\ Min(closing) = j
    BY <2>1, <2>2, <2>3, MinIs
  <2> QED BY <2>4, Zenon DEF balanced_braces, closing, CloseBrace
<1>3. e[i].kind = "name" /\ e[i].text = m
  BY TokenParts, Zenon
<1>4. Contents(e, i + 1) = k
  <2>1. (i + 1) + 1 = i + 2
    OBVIOUS
  <2>2. CASE j = i + 2 /\ k = NoMatcher /\ CloseBrace(e, i + 2)
    <3>1. e[i + 2].kind = "mark"
      BY <2>2, TokenParts, Zenon DEF CloseBrace, IsMark
    <3> QED BY <2>1, <2>2, <3>1 DEF Contents
  <2>3. CASE j = i + 3 /\ e[i + 2] = Match(k)
    <3>1. e[i + 2].kind = "matcher" /\ e[i + 2].text = k
      BY <2>3, TokenParts, Zenon
    <3> QED BY <2>1, <3>1 DEF Contents
  <2> QED BY <2>2, <2>3 DEF Filled
<1>5. Past(e, i) = j + 1 /\ IsIdentifier(e, i) /\ Found(e, i) = {Selector(m, k)}
  <2>1. e[i].kind # "unit" /\ e[i].kind \in {"name", "unit"}
    BY <1>3
  <2> QED BY <1>2, <1>3, <1>4, <2>1, Zenon DEF Past, IsIdentifier, Found, OpenBrace
<1>6. f[i] = {Selector(m, k)} \union f[j + 1]
  BY <1>5, OneStep
<1> QED BY <1>6 DEF Reads

\* by, on, without and group_left with the labels between their parentheses.
LEMMA StepList ==
    ASSUME NEW e, NEW f, Lexing(e, f), NEW i \in 1..Len(e), NEW w \in LabelLists, e[i] = Name(w),
           NEW j \in {i + 2, i + 3}, j <= Len(e), e[i + 1] = Mark("("), e[j] = Mark(")"),
           j = i + 3 => e[i + 2] = Name("job")
    PROVE  Reads(f, i, j + 1, {})
<1>1. Len(e) \in Nat /\ DOMAIN e = 1..Len(e)
  BY DEF Lexing
<1>2. i + 1 \in DOMAIN e /\ i + 2 \in DOMAIN e /\ j \in DOMAIN e /\ i \in Nat
  BY <1>1
<1>3. IsMark(e, i + 1, "(") /\ ~IsMark(e, i + 1, "{")
  BY <1>2, TokensDiffer DEF IsMark
<1>4. \A n \in i + 1..j : /\ IsMark(e, n, "(") <=> n = i + 1
                          /\ IsMark(e, n, ")") <=> n = j
  <2>1. ASSUME NEW n \in i + 1..j PROVE n = i + 1 \/ n = j \/ (n = i + 2 /\ j = i + 3)
    BY <1>1, <1>2
  <2> QED BY <2>1, <1>1, <1>2, TokensDiffer DEF IsMark
<1>5. ASSUME NEW n \in i + 1..j PROVE Depth(e, i + 1, n) = IF n = j THEN 0 ELSE 1
  <2> DEFINE opened == {k \in i + 1..n : IsMark(e, k, "(")}
             closed == {k \in i + 1..n : IsMark(e, k, ")")}
  <2>1. opened = {i + 1}
    BY <1>2, <1>4
  <2>2. closed = IF n = j THEN {j} ELSE {}
    BY <1>2, <1>4
  <2> HIDE DEF opened, closed
  <2>3. Cardinality(opened) = 1 /\ Cardinality(closed) = IF n = j THEN 1 ELSE 0
    BY <2>1, <2>2, FS_Singleton, FS_EmptySet, Zenon
  <2>4. Depth(e, i + 1, n) = Cardinality(opened) - Cardinality(closed)
    BY Zenon DEF Depth, Quantify, opened, closed
  <2> QED BY <2>3, <2>4
<1>6. skip_parentheses(e, i + 1) = j + 1
  <2> DEFINE closing == {n \in i + 1..Len(e) : Depth(e, i + 1, n) = 0}
  <2>1. closing \in SUBSET Nat
    BY <1>1
  <2>2. j \in closing
    BY <1>1, <1>2, <1>5
  <2>3. \A n \in closing : j <= n
    BY <1>1, <1>2, <1>5
  <2> HIDE DEF closing
  <2>4. closing # {} /\ Min(closing) = j
    BY <2>1, <2>2, <2>3, MinIs
  <2> QED BY <2>4, Zenon DEF skip_parentheses, closing
<1>7. e[i].kind = "name" /\ e[i].text = w
  BY TokenParts, Zenon
<1>8. Past(e, i) = j + 1 /\ IsIdentifier(e, i) /\ Found(e, i) = {}
  BY <1>3, <1>6, <1>7 DEF Past, IsIdentifier, Found, IsLabelList
<1>9. f[i] = {} \union f[j + 1]
  BY <1>8, OneStep
<1> QED BY <1>9 DEF Reads
(* ---------------------------------------- the expressions, read as a whole *)

\* The tokens t stand in e from position i on.
Stands(e, i, t) == i \in Nat \ {0} /\ \A k \in 1..Len(t) : i - 1 + k \in 1..Len(e) /\ e[i - 1 + k] = t[k]

LEMMA StandsParts ==
    ASSUME NEW e, NEW s \in Seq(Tokens), NEW t \in Seq(Tokens), NEW i, Stands(e, i, s \o t)
    PROVE  /\ Stands(e, i, s) /\ Stands(e, i + Len(s), t)
           /\ s \o t \in Seq(Tokens) /\ Len(s \o t) = Len(s) + Len(t)
<1>1. /\ s \o t \in Seq(Tokens) /\ Len(s \o t) = Len(s) + Len(t) /\ Len(s) \in Nat /\ Len(t) \in Nat
      /\ \A k \in 1..Len(s) + Len(t) : (s \o t)[k] = IF k <= Len(s) THEN s[k] ELSE t[k - Len(s)]
  BY ConcatProperties
<1>2. i \in Nat \ {0} /\ \A k \in 1..Len(s) + Len(t) : i - 1 + k \in 1..Len(e) /\ e[i - 1 + k] = (s \o t)[k]
  BY <1>1, Zenon DEF Stands
<1>3. Stands(e, i, s)
  <2>1. \A k \in 1..Len(s) : k \in 1..Len(s) + Len(t) /\ (s \o t)[k] = s[k]
    BY <1>1
  <2> QED BY <1>2, <2>1, Zenon DEF Stands
<1>4. Stands(e, i + Len(s), t)
  <2>1. i + Len(s) \in Nat \ {0}
    BY <1>1, <1>2
  <2>2. ASSUME NEW k \in 1..Len(t)
        PROVE  i + Len(s) - 1 + k \in 1..Len(e) /\ e[i + Len(s) - 1 + k] = t[k]
    <3>1. Len(s) + k \in 1..Len(s) + Len(t) /\ ~(Len(s) + k <= Len(s)) /\ (Len(s) + k) - Len(s) = k
      BY <1>1
    <3>2. (s \o t)[Len(s) + k] = t[k]
      BY <1>1, <3>1, Zenon
    <3>3. i - 1 + (Len(s) + k) = i + Len(s) - 1 + k
      BY <1>1, <1>2
    <3> QED BY <1>2, <3>1, <3>2, <3>3, Zenon
  <2> QED BY <2>1, <2>2 DEF Stands
<1> QED BY <1>1, <1>3, <1>4

Starts(t) == Len(t) > 0 /\ t[1] # Mark("{") /\ t[1] # Mark("(")

\* Wherever the tokens of x stand in an expression, the lexer finds there the
\* selectors of x, and no others but the ghost.
Parses(x) ==
    /\ x.tokens \in Seq(Tokens) /\ Starts(x.tokens)
    /\ \A e, f, i : Lexing(e, f) /\ Stands(e, i, x.tokens) /\ Ends(e, i + Len(x.tokens))
                      => Reads(f, i, i + Len(x.tokens), x.selectors)

LEMMA StartsNonempty ==
    ASSUME NEW t \in Seq(Tokens), Starts(t)
    PROVE  Len(t) \in Nat \ {0}
<1>1. Len(t) > 0
  BY Zenon DEF Starts
<1> QED BY <1>1

LEMMA ExprParts ==
    ASSUME NEW t, NEW S
    PROVE  Expr(t, S).tokens = t /\ Expr(t, S).selectors = S
BY DEF Expr

LEMMA Juxtaposed ==
    ASSUME NEW x, NEW y, Parses(x), Parses(y)
    PROVE  Parses(Expr(x.tokens \o y.tokens, x.selectors \union y.selectors))
<1> DEFINE s == x.tokens
           t == y.tokens
<1>1. s \in Seq(Tokens) /\ t \in Seq(Tokens) /\ Len(s) \in Nat /\ Len(t) \in Nat /\ Starts(s) /\ Starts(t)
  BY DEF Parses
<1>2. s \o t \in Seq(Tokens) /\ Starts(s \o t) /\ Len(s \o t) = Len(s) + Len(t)
  <2> HIDE DEF s, t
  <2>1. /\ s \o t \in Seq(Tokens) /\ Len(s \o t) = Len(s) + Len(t)
        /\ \A k \in 1..Len(s) + Len(t) : (s \o t)[k] = IF k <= Len(s) THEN s[k] ELSE t[k - Len(s)]
    BY <1>1, ConcatProperties
  <2>2. 1 \in 1..Len(s) + Len(t) /\ 1 <= Len(s) /\ Len(s) + Len(t) > 0
    <3>1. Len(s) \in Nat \ {0}
      BY <1>1, StartsNonempty
    <3> QED BY <1>1, <3>1
  <2>3. (s \o t)[1] = s[1]
    BY <2>1, <2>2, Zenon
  <2> QED BY <1>1, <2>1, <2>2, <2>3, Zenon DEF Starts
<1>3. ASSUME NEW e, NEW f, NEW i, Lexing(e, f), Stands(e, i, s \o t), Ends(e, i + Len(s \o t))
      PROVE  Reads(f, i, i + Len(s \o t), x.selectors \union y.selectors)
  <2> HIDE DEF s, t
  <2>1. Stands(e, i, s) /\ Stands(e, i + Len(s), t) /\ i \in Nat
    <3>1. Stands(e, i, s) /\ Stands(e, i + Len(s), t)
      BY <1>1, <1>3, StandsParts
    <3>2. i \in Nat \ {0}
      BY <1>3, Zenon DEF Stands
    <3> QED BY <3>1, <3>2
  <2>2. i + Len(s \o t) = (i + Len(s)) + Len(t)
    BY <1>1, <1>2, <2>1
  <2>3. i + Len(s) \in 1..Len(e) /\ e[i + Len(s)] = t[1]
    <3> DEFINE j == i + Len(s)
    <3>1. 1 \in 1..Len(t) /\ j - 1 + 1 = j
      <4>1. Len(t) \in Nat \ {0}
        BY <1>1, StartsNonempty
      <4> QED BY <1>1, <2>1, <4>1
    <3>2. Stands(e, j, t)
      BY <2>1
    <3> HIDE DEF j
    <3>3. \A k \in 1..Len(t) : j - 1 + k \in 1..Len(e) /\ e[j - 1 + k] = t[k]
      BY <3>2, Zenon DEF Stands
    <3>4. j \in 1..Len(e) /\ e[j] = t[1]
      BY <3>1, <3>3, Zenon
    <3> QED BY <3>4 DEF j
  <2>4. Ends(e, i + Len(s))
    <3>1. i + Len(s) \in 1..Len(e) + 1
      <4>1. Len(e) \in Nat
        BY <1>3 DEF Lexing
      <4> QED BY <2>3, <4>1
    <3> QED BY <1>1, <2>3, <3>1, Zenon DEF Ends, IsMark, Starts
  <2>5. Reads(f, i, i + Len(s), x.selectors)
    BY <1>3, <2>1, <2>4, Zenon DEF Parses, s
  <2>6. Reads(f, i + Len(s), (i + Len(s)) + Len(t), y.selectors)
    BY <1>3, <2>1, <2>2, Zenon DEF Parses, t
  <2> QED BY <2>2, <2>5, <2>6, ReadsOn, Zenon
<1> DEFINE z == Expr(s \o t, x.selectors \union y.selectors)
<1>4. z.tokens = s \o t /\ z.selectors = x.selectors \union y.selectors
  BY ExprParts
<1> HIDE DEF z
<1>5. Parses(z)
  <2> HIDE DEF s, t
  <2> QED BY <1>2, <1>3, <1>4, Zenon DEF Parses
<1> QED BY <1>5, Zenon DEF z

\* Short rows of tokens, spelled out.
OneAt(e, i, a) ==
    /\ i \in Nat /\ i \in 1..Len(e)
    /\ e[i] = a
TwoAt(e, i, a, b) ==
    /\ i \in Nat /\ i \in 1..Len(e) /\ i + 1 \in 1..Len(e)
    /\ e[i] = a /\ e[i + 1] = b
ThreeAt(e, i, a, b, c) ==
    /\ i \in Nat /\ i \in 1..Len(e) /\ i + 1 \in 1..Len(e) /\ i + 2 \in 1..Len(e)
    /\ e[i] = a /\ e[i + 1] = b /\ e[i + 2] = c
FourAt(e, i, a, b, c, d) ==
    /\ i \in Nat /\ i \in 1..Len(e) /\ i + 1 \in 1..Len(e) /\ i + 2 \in 1..Len(e) /\ i + 3 \in 1..Len(e)
    /\ e[i] = a /\ e[i + 1] = b /\ e[i + 2] = c /\ e[i + 3] = d
FiveAt(e, i, a, b, c, d, h) ==
    /\ i \in Nat /\ i \in 1..Len(e) /\ i + 1 \in 1..Len(e) /\ i + 2 \in 1..Len(e)
    /\ i + 3 \in 1..Len(e) /\ i + 4 \in 1..Len(e)
    /\ e[i] = a /\ e[i + 1] = b /\ e[i + 2] = c /\ e[i + 3] = d /\ e[i + 4] = h

LEMMA OneToken ==
    ASSUME NEW a \in Tokens
    PROVE  /\ <<a>> \in Seq(Tokens) /\ Len(<<a>>) = 1 /\ <<a>>[1] = a
           /\ \A e, i : Stands(e, i, <<a>>) => OneAt(e, i, a)
<1> DEFINE t == <<a>>
<1>1. t \in Seq(Tokens) /\ Len(t) = 1 /\ t[1] = a
  OBVIOUS
<1> HIDE DEF t
<1>2. ASSUME NEW e, NEW i, Stands(e, i, t) PROVE OneAt(e, i, a)
  <2>1. i \in Nat \ {0} /\ \A k \in 1..Len(t) : i - 1 + k \in 1..Len(e) /\ e[i - 1 + k] = t[k]
    BY <1>2, Zenon DEF Stands
  <2> QED BY <1>1, <2>1 DEF OneAt
<1>3. \A e, i : Stands(e, i, t) => OneAt(e, i, a)
  BY <1>2
<1> QED BY <1>1, <1>3, Zenon DEF t

LEMMA TwoTokens ==
    ASSUME NEW a \in Tokens, NEW b \in Tokens
    PROVE  /\ <<a, b>> \in Seq(Tokens) /\ Len(<<a, b>>) = 2 /\ <<a, b>>[1] = a
           /\ \A e, i : Stands(e, i, <<a, b>>) => TwoAt(e, i, a, b)
<1> DEFINE t == <<a, b>>
<1>1. t \in Seq(Tokens) /\ Len(t) = 2 /\ t[1] = a /\ t[2] = b
  OBVIOUS
<1> HIDE DEF t
<1>2. ASSUME NEW e, NEW i, Stands(e, i, t) PROVE TwoAt(e, i, a, b)
  <2>1. i \in Nat \ {0} /\ \A k \in 1..Len(t) : i - 1 + k \in 1..Len(e) /\ e[i - 1 + k] = t[k]
    BY <1>2, Zenon DEF Stands
  <2> QED BY <1>1, <2>1 DEF TwoAt
<1>3. \A e, i : Stands(e, i, t) => TwoAt(e, i, a, b)
  BY <1>2
<1> QED BY <1>1, <1>3, Zenon DEF t

LEMMA ThreeTokens ==
    ASSUME NEW a \in Tokens, NEW b \in Tokens, NEW c \in Tokens
    PROVE  /\ <<a, b, c>> \in Seq(Tokens) /\ Len(<<a, b, c>>) = 3 /\ <<a, b, c>>[1] = a
           /\ \A e, i : Stands(e, i, <<a, b, c>>) => ThreeAt(e, i, a, b, c)
<1> DEFINE t == <<a, b, c>>
<1>1. t \in Seq(Tokens) /\ Len(t) = 3 /\ t[1] = a /\ t[2] = b /\ t[3] = c
  OBVIOUS
<1> HIDE DEF t
<1>2. ASSUME NEW e, NEW i, Stands(e, i, t) PROVE ThreeAt(e, i, a, b, c)
  <2>1. i \in Nat \ {0} /\ \A k \in 1..Len(t) : i - 1 + k \in 1..Len(e) /\ e[i - 1 + k] = t[k]
    BY <1>2, Zenon DEF Stands
  <2> QED BY <1>1, <2>1 DEF ThreeAt
<1>3. \A e, i : Stands(e, i, t) => ThreeAt(e, i, a, b, c)
  BY <1>2
<1> QED BY <1>1, <1>3, Zenon DEF t

LEMMA FourTokens ==
    ASSUME NEW a \in Tokens, NEW b \in Tokens, NEW c \in Tokens, NEW d \in Tokens
    PROVE  /\ <<a, b, c, d>> \in Seq(Tokens) /\ Len(<<a, b, c, d>>) = 4 /\ <<a, b, c, d>>[1] = a
           /\ \A e, i : Stands(e, i, <<a, b, c, d>>) => FourAt(e, i, a, b, c, d)
<1> DEFINE t == <<a, b, c, d>>
<1>1. t \in Seq(Tokens) /\ Len(t) = 4 /\ t[1] = a /\ t[2] = b /\ t[3] = c /\ t[4] = d
  OBVIOUS
<1> HIDE DEF t
<1>2. ASSUME NEW e, NEW i, Stands(e, i, t) PROVE FourAt(e, i, a, b, c, d)
  <2>1. i \in Nat \ {0} /\ \A k \in 1..Len(t) : i - 1 + k \in 1..Len(e) /\ e[i - 1 + k] = t[k]
    BY <1>2, Zenon DEF Stands
  <2> QED BY <1>1, <2>1 DEF FourAt
<1>3. \A e, i : Stands(e, i, t) => FourAt(e, i, a, b, c, d)
  BY <1>2
<1> QED BY <1>1, <1>3, Zenon DEF t

LEMMA FiveTokens ==
    ASSUME NEW a \in Tokens, NEW b \in Tokens, NEW c \in Tokens, NEW d \in Tokens, NEW h \in Tokens
    PROVE  /\ <<a, b, c, d, h>> \in Seq(Tokens) /\ Len(<<a, b, c, d, h>>) = 5 /\ <<a, b, c, d, h>>[1] = a
           /\ \A e, i : Stands(e, i, <<a, b, c, d, h>>) => FiveAt(e, i, a, b, c, d, h)
<1> DEFINE t == <<a, b, c, d, h>>
<1>1. t \in Seq(Tokens) /\ Len(t) = 5 /\ t[1] = a /\ t[2] = b /\ t[3] = c /\ t[4] = d /\ t[5] = h
  OBVIOUS
<1> HIDE DEF t
<1>2. ASSUME NEW e, NEW i, Stands(e, i, t) PROVE FiveAt(e, i, a, b, c, d, h)
  <2>1. i \in Nat \ {0} /\ \A k \in 1..Len(t) : i - 1 + k \in 1..Len(e) /\ e[i - 1 + k] = t[k]
    BY <1>2, Zenon DEF Stands
  <2>2. /\ i \in 1..Len(e) /\ e[i] = a
        /\ i + 1 \in 1..Len(e) /\ e[i + 1] = b
    <3>1. i \in 1..Len(e) /\ e[i] = a
      BY <1>1, <2>1
    <3>2. i + 1 \in 1..Len(e) /\ e[i + 1] = b
      BY <1>1, <2>1
    <3> QED BY <3>1, <3>2
  <2>3. i + 2 \in 1..Len(e) /\ e[i + 2] = c
    BY <1>1, <2>1
  <2>4. i + 3 \in 1..Len(e) /\ e[i + 3] = d
    BY <1>1, <2>1
  <2>5. i + 4 \in 1..Len(e) /\ e[i + 4] = h
    BY <1>1, <2>1
  <2> QED BY <2>1, <2>2, <2>3, <2>4, <2>5 DEF FiveAt
<1>3. \A e, i : Stands(e, i, t) => FiveAt(e, i, a, b, c, d, h)
  BY <1>2
<1> QED BY <1>1, <1>3, Zenon DEF t

LEMMA Piece ==
    ASSUME NEW t \in Seq(Tokens), NEW S, Starts(t),
           \A e, f, i : Lexing(e, f) /\ Stands(e, i, t) /\ Ends(e, i + Len(t)) => Reads(f, i, i + Len(t), S)
    PROVE  Parses(Expr(t, S))
<1> DEFINE z == Expr(t, S)
<1>1. z.tokens = t /\ z.selectors = S
  BY ExprParts
<1> HIDE DEF z
<1>2. Parses(z)
  BY <1>1, Zenon DEF Parses
<1> QED BY <1>2, Zenon DEF z

\* Marks that may stand behind a metric's name.
Closers == Marks \ {"{", "("}

\* A token that may stand first.
LEMMA FirstToken ==
    ASSUME NEW t, Len(t) > 0,
           t[1] = String \/ (\E n : t[1] = Name(n)) \/ (\E m \in Closers : t[1] = Mark(m))
    PROVE  Starts(t)
<1>1. ASSUME NEW m \in Closers PROVE Mark(m) # Mark("{") /\ Mark(m) # Mark("(")
  BY TokensDiffer, Zenon DEF Closers
<1> QED BY <1>1, TokensDiffer, Zenon DEF Starts

LEMMA SomeMarks ==
    /\ \A m \in {"]", ")", "[", ",", "*", "1", "5"} : m \in Marks /\ m \in Closers
    /\ "(" \in Marks /\ "{" \in Marks /\ "}" \in Marks
BY Zenon DEF Marks, Closers

LEMMA CloserAt ==
    ASSUME NEW e, NEW i, NEW m \in Closers, e[i] = Mark(m)
    PROVE  ~IsMark(e, i, "{") /\ ~IsMark(e, i, "(")
BY TokensDiffer, Zenon DEF IsMark, Closers

\* [5m] behind a selector, and the [1h:5m] of a subquery.
LEMMA RangeParses ==
    ASSUME NEW d \in {"1", "5"}, NEW u \in {"m", "h:5m"}
    PROVE  Parses(Expr(<<Mark("["), Mark(d), Unit(u), Mark("]")>>, {}))
<1> DEFINE t == <<Mark("["), Mark(d), Unit(u), Mark("]")>>
<1>1. Mark("[") \in Tokens /\ Mark(d) \in Tokens /\ Unit(u) \in Tokens /\ Mark("]") \in Tokens
  BY TokenKinds, SomeMarks, Zenon
<1>2. /\ t \in Seq(Tokens) /\ Len(t) = 4 /\ t[1] = Mark("[")
      /\ \A e, i : Stands(e, i, t) => FourAt(e, i, Mark("["), Mark(d), Unit(u), Mark("]"))
  BY <1>1, FourTokens, Zenon
<1> HIDE DEF t
<1>3. Starts(t)
  <2>1. Len(t) > 0
    BY <1>2
  <2> QED BY <1>2, <2>1, SomeMarks, FirstToken, Zenon
<1>4. ASSUME NEW e, NEW f, NEW i, Lexing(e, f), Stands(e, i, t) PROVE Reads(f, i, i + 4, {})
  <2>1. /\ i \in Nat /\ i \in 1..Len(e) /\ i + 1 \in 1..Len(e) /\ i + 2 \in 1..Len(e) /\ i + 3 \in 1..Len(e)
        /\ e[i] = Mark("[") /\ e[i + 1] = Mark(d) /\ e[i + 2] = Unit(u) /\ e[i + 3] = Mark("]")
    BY <1>2, <1>4, Zenon DEF FourAt
  <2>2. i \in Nat /\ (i + 2) + 1 = i + 3
    <3>1. i \in Nat
      BY <2>1, Zenon
    <3> QED BY <3>1
  <2>3. Reads(f, i, i + 1, {}) /\ Reads(f, i + 1, (i + 1) + 1, {}) /\ Reads(f, i + 3, (i + 3) + 1, {})
    BY <1>4, <2>1, StepOther, Zenon
  <2>4. Reads(f, i + 2, (i + 2) + 1, {})
    BY <1>4, <2>1, <2>2, SomeMarks, CloserAt, StepUnit, Zenon
  <2> QED BY <2>2, <2>3, <2>4, ReadsNothing
<1>5. Parses(Expr(t, {}))
  BY <1>2, <1>3, <1>4, Piece, Zenon
<1> QED BY <1>5, Zenon DEF t

LEMMA SomeWords ==
    /\ \A w \in {"rate", "label_replace", "sum"} : w \in Words /\ w \notin LabelLists
    /\ \A w \in {"sum", "and"} : w \in Words /\ w \in PROMQL_WORDS /\ w \notin LabelLists
    /\ \A w \in {"by", "on", "without", "group_left"} : w \in Words /\ w \in LabelLists
    /\ "job" \in Words
BY Zenon DEF Words, PROMQL_WORDS, LabelLists

LEMMA MarkParses ==
    ASSUME NEW m \in Closers
    PROVE  Parses(Expr(<<Mark(m)>>, {}))
<1> DEFINE t == <<Mark(m)>>
<1>1. Mark(m) \in Tokens
  BY TokenKinds, Zenon DEF Closers
<1>2. /\ t \in Seq(Tokens) /\ Len(t) = 1 /\ t[1] = Mark(m)
      /\ \A e, i : Stands(e, i, t) => OneAt(e, i, Mark(m))
  BY <1>1, OneToken, Zenon
<1> HIDE DEF t
<1>3. Starts(t)
  <2>1. Len(t) > 0
    <3>1. Len(t) = 1
      BY <1>2, Zenon
    <3> QED BY <3>1
  <2> QED BY <1>1, <1>2, <2>1, FirstToken, Zenon
<1>4. ASSUME NEW e, NEW f, NEW i, Lexing(e, f), Stands(e, i, t) PROVE Reads(f, i, i + 1, {})
  <2>1. i \in 1..Len(e) /\ e[i] = Mark(m)
    BY <1>2, <1>4, Zenon DEF OneAt
  <2> QED BY <1>4, <2>1, StepOther, Zenon
<1>5. Parses(Expr(t, {}))
  BY <1>2, <1>3, <1>4, Piece, Zenon
<1> QED BY <1>5, Zenon DEF t

\* "sum" before a list of labels, and "and".
LEMMA WordParses ==
    ASSUME NEW w \in {"sum", "and"}
    PROVE  Parses(Expr(<<Name(w)>>, {}))
<1> DEFINE t == <<Name(w)>>
<1>1. Name(w) \in Tokens /\ w \notin LabelLists /\ w \in PROMQL_WORDS
  BY TokenKinds, SomeWords, Zenon
<1>2. /\ t \in Seq(Tokens) /\ Len(t) = 1 /\ t[1] = Name(w)
      /\ \A e, i : Stands(e, i, t) => OneAt(e, i, Name(w))
  BY <1>1, OneToken, Zenon
<1> HIDE DEF t
<1>3. Starts(t)
  <2>1. Len(t) > 0
    BY <1>2
  <2> QED BY <1>2, <2>1, FirstToken, Zenon
<1>4. ASSUME NEW e, NEW f, NEW i, Lexing(e, f), Stands(e, i, t), Ends(e, i + 1) PROVE Reads(f, i, i + 1, {})
  <2>1. i \in 1..Len(e) /\ e[i] = Name(w)
    BY <1>2, <1>4, Zenon DEF OneAt
  <2>2. ~IsMark(e, i + 1, "{")
    BY <1>4, Zenon DEF Ends
  <2> QED BY <1>1, <1>4, <2>1, <2>2, StepWord, Zenon
<1>5. Parses(Expr(t, {}))
  BY <1>2, <1>3, <1>4, Piece, Zenon
<1> QED BY <1>5, Zenon DEF t

LEMMA ParenthesisAt ==
    ASSUME NEW e, NEW i, i \in 1..Len(e), e \in Seq(Tokens), e[i] = Mark("(")
    PROVE  IsMark(e, i, "(") /\ ~IsMark(e, i, "{")
<1>1. "(" # "{"
  BY Zenon
<1>2. i \in DOMAIN e
  OBVIOUS
<1> QED BY <1>1, <1>2, TokensDiffer, Zenon DEF IsMark

\* A function and its parenthesis.
LEMMA HeadParses ==
    ASSUME NEW w \in {"rate", "label_replace", "sum"}
    PROVE  Parses(Expr(<<Name(w), Mark("(")>>, {}))
<1> DEFINE t == <<Name(w), Mark("(")>>
<1>1. Name(w) \in Tokens /\ Mark("(") \in Tokens /\ w \notin LabelLists
  BY TokenKinds, SomeMarks, SomeWords, Zenon
<1>2. /\ t \in Seq(Tokens) /\ Len(t) = 2 /\ t[1] = Name(w)
      /\ \A e, i : Stands(e, i, t) => TwoAt(e, i, Name(w), Mark("("))
  BY <1>1, TwoTokens, Zenon
<1> HIDE DEF t
<1>3. Starts(t)
  <2>1. Len(t) > 0
    BY <1>2
  <2> QED BY <1>2, <2>1, FirstToken, Zenon
<1>4. ASSUME NEW e, NEW f, NEW i, Lexing(e, f), Stands(e, i, t) PROVE Reads(f, i, i + 2, {})
  <2>1. /\ i \in Nat /\ i \in 1..Len(e) /\ i + 1 \in 1..Len(e) /\ e \in Seq(Tokens)
        /\ e[i] = Name(w) /\ e[i + 1] = Mark("(")
    BY <1>2, <1>4, Zenon DEF TwoAt, Lexing
  <2>2. IsMark(e, i + 1, "(") /\ ~IsMark(e, i + 1, "{")
    BY <2>1, ParenthesisAt
  <2>3. Reads(f, i, i + 1, {})
    BY <1>1, <1>4, <2>1, <2>2, StepWord, Zenon
  <2>4. Reads(f, i + 1, (i + 1) + 1, {})
    BY <1>4, <2>1, StepOther, Zenon
  <2> QED BY <2>1, <2>3, <2>4, ReadsNothing
<1>5. Parses(Expr(t, {}))
  BY <1>2, <1>3, <1>4, Piece, Zenon
<1> QED BY <1>5, Zenon DEF t

\* The last arguments of label_replace.
LEMMA ArgumentsParse == Parses(Expr(<<Mark(","), String, Mark(")")>>, {}))
<1> DEFINE t == <<Mark(","), String, Mark(")")>>
<1>1. Mark(",") \in Tokens /\ String \in Tokens /\ Mark(")") \in Tokens
  BY TokenKinds, SomeMarks, Zenon
<1>2. /\ t \in Seq(Tokens) /\ Len(t) = 3 /\ t[1] = Mark(",")
      /\ \A e, i : Stands(e, i, t) => ThreeAt(e, i, Mark(","), String, Mark(")"))
  BY <1>1, ThreeTokens, Zenon
<1> HIDE DEF t
<1>3. Starts(t)
  <2>1. Len(t) > 0
    <3>1. Len(t) = 3
      BY <1>2, Zenon
    <3> QED BY <3>1
  <2> QED BY <1>2, <2>1, SomeMarks, FirstToken, Zenon
<1>4. ASSUME NEW e, NEW f, NEW i, Lexing(e, f), Stands(e, i, t) PROVE Reads(f, i, i + 3, {})
  <2>1. /\ i \in Nat /\ i \in 1..Len(e) /\ i + 1 \in 1..Len(e) /\ i + 2 \in 1..Len(e)
        /\ e[i] = Mark(",") /\ e[i + 1] = String /\ e[i + 2] = Mark(")")
    BY <1>2, <1>4, Zenon DEF ThreeAt
  <2>2. Reads(f, i, i + 1, {}) /\ Reads(f, i + 1, (i + 1) + 1, {}) /\ Reads(f, i + 2, (i + 2) + 1, {})
    BY <1>4, <2>1, StepOther, Zenon
  <2>3. i \in Nat
    BY <2>1, Zenon
  <2> QED BY <2>2, <2>3, ReadsNothing
<1>5. Parses(Expr(t, {}))
  BY <1>2, <1>3, <1>4, Piece, Zenon
<1> QED BY <1>5, Zenon DEF t

\* Lists of labels, of one and of none, and one before a parenthesis.
LEMMA ListParses ==
    ASSUME NEW w \in {"by", "on", "without", "group_left"}
    PROVE  /\ Parses(Expr(<<Name(w), Mark("("), Name("job"), Mark(")")>>, {}))
           /\ Parses(Expr(<<Name(w), Mark("("), Mark(")")>>, {}))
           /\ Parses(Expr(<<Name(w), Mark("("), Name("job"), Mark(")"), Mark("(")>>, {}))
<1> DEFINE t == <<Name(w), Mark("("), Name("job"), Mark(")")>>
           u == <<Name(w), Mark("("), Mark(")")>>
           v == <<Name(w), Mark("("), Name("job"), Mark(")"), Mark("(")>>
<1>1. Name(w) \in Tokens /\ Mark("(") \in Tokens /\ Name("job") \in Tokens /\ Mark(")") \in Tokens
  BY TokenKinds, SomeMarks, SomeWords, Zenon
<1>2. w \in LabelLists
  BY SomeWords, Zenon
<1>3. /\ t \in Seq(Tokens) /\ Len(t) = 4 /\ t[1] = Name(w)
      /\ \A e, i : Stands(e, i, t) => FourAt(e, i, Name(w), Mark("("), Name("job"), Mark(")"))
  BY <1>1, FourTokens, Zenon
<1>4. /\ u \in Seq(Tokens) /\ Len(u) = 3 /\ u[1] = Name(w)
      /\ \A e, i : Stands(e, i, u) => ThreeAt(e, i, Name(w), Mark("("), Mark(")"))
  BY <1>1, ThreeTokens, Zenon
<1>5. /\ v \in Seq(Tokens) /\ Len(v) = 5 /\ v[1] = Name(w)
      /\ \A e, i : Stands(e, i, v) => FiveAt(e, i, Name(w), Mark("("), Name("job"), Mark(")"), Mark("("))
  BY <1>1, FiveTokens, Zenon
<1> HIDE DEF t, u, v
<1>6. Starts(t) /\ Starts(u) /\ Starts(v)
  <2>1. Len(t) > 0 /\ Len(u) > 0 /\ Len(v) > 0
    BY <1>3, <1>4, <1>5
  <2> QED BY <1>3, <1>4, <1>5, <2>1, FirstToken, Zenon
<1>7. ASSUME NEW e, NEW f, NEW i, Lexing(e, f), FourAt(e, i, Name(w), Mark("("), Name("job"), Mark(")"))
      PROVE  Reads(f, i, i + 4, {})
  <2>1. /\ i \in Nat /\ i \in 1..Len(e) /\ i + 3 \in 1..Len(e)
        /\ e[i] = Name(w) /\ e[i + 1] = Mark("(") /\ e[i + 2] = Name("job") /\ e[i + 3] = Mark(")")
    BY <1>7, Zenon DEF FourAt
  <2>2. i + 3 \in {i + 2, i + 3} /\ i + 3 <= Len(e) /\ (i + 3) + 1 = i + 4
    <3>1. Len(e) \in Nat
      BY <1>7 DEF Lexing
    <3> QED BY <2>1, <3>1
  <2>3. Reads(f, i, (i + 3) + 1, {})
    BY <1>2, <1>7, <2>1, <2>2, StepList
  <2> QED BY <2>2, <2>3
<1>8. ASSUME NEW e, NEW f, NEW i, Lexing(e, f), Stands(e, i, u) PROVE Reads(f, i, i + 3, {})
  <2>1. /\ i \in Nat /\ i \in 1..Len(e) /\ i + 2 \in 1..Len(e)
        /\ e[i] = Name(w) /\ e[i + 1] = Mark("(") /\ e[i + 2] = Mark(")")
    BY <1>4, <1>8, Zenon DEF ThreeAt
  <2>2. i + 2 \in {i + 2, i + 3} /\ i + 2 <= Len(e) /\ (i + 2) + 1 = i + 3 /\ i + 2 # i + 3
    <3>1. Len(e) \in Nat
      BY <1>8 DEF Lexing
    <3> QED BY <2>1, <3>1
  <2>3. Reads(f, i, (i + 2) + 1, {})
    BY <1>2, <1>8, <2>1, <2>2, StepList
  <2> QED BY <2>2, <2>3
<1>9. ASSUME NEW e, NEW f, NEW i, Lexing(e, f), Stands(e, i, v) PROVE Reads(f, i, i + 5, {})
  <2>1. FiveAt(e, i, Name(w), Mark("("), Name("job"), Mark(")"), Mark("("))
    BY <1>5, <1>9
  <2>2. FourAt(e, i, Name(w), Mark("("), Name("job"), Mark(")"))
    BY <2>1, Zenon DEF FiveAt, FourAt
  <2>3. i \in Nat /\ i + 4 \in 1..Len(e) /\ e[i + 4] = Mark("(")
    BY <2>1, Zenon DEF FiveAt
  <2>4. Reads(f, i, i + 4, {}) /\ Reads(f, i + 4, (i + 4) + 1, {})
    BY <1>7, <1>9, <2>2, <2>3, StepOther, Zenon
  <2> QED BY <2>3, <2>4, ReadsNothing
<1>10. Parses(Expr(t, {})) /\ Parses(Expr(u, {})) /\ Parses(Expr(v, {}))
  BY <1>3, <1>4, <1>5, <1>6, <1>7, <1>8, <1>9, Piece, Zenon
<1> QED BY <1>10, Zenon DEF t, u, v

LEMMA Concatenates ==
    ASSUME NEW S, NEW s \in Seq(S), NEW t \in Seq(S), NEW u \in Seq(S), Len(u) = Len(s) + Len(t),
           \A i \in 1..Len(s) : u[i] = s[i], \A i \in 1..Len(t) : u[Len(s) + i] = t[i]
    PROVE  s \o t = u
<1>1. /\ s \o t \in Seq(S) /\ Len(s \o t) = Len(s) + Len(t) /\ Len(s) \in Nat /\ Len(t) \in Nat
      /\ \A i \in 1..Len(s) + Len(t) : (s \o t)[i] = IF i <= Len(s) THEN s[i] ELSE t[i - Len(s)]
  BY ConcatProperties
<1>2. ASSUME NEW i \in 1..Len(s \o t) PROVE (s \o t)[i] = u[i]
  <2>1. CASE i <= Len(s)
    BY <1>1, <2>1
  <2>2. CASE ~(i <= Len(s))
    <3>1. i - Len(s) \in 1..Len(t) /\ Len(s) + (i - Len(s)) = i
      BY <1>1, <2>2
    <3>2. u[Len(s) + (i - Len(s))] = t[i - Len(s)]
      BY <3>1, Zenon
    <3> QED BY <1>1, <2>2, <3>1, <3>2, Zenon
  <2> QED BY <2>1, <2>2
<1> QED BY <1>1, <1>2, SeqEqual

LEMMA Concat2And1 ==
    ASSUME NEW a \in Tokens, NEW b \in Tokens, NEW c \in Tokens
    PROVE  <<a, b>> \o <<c>> = <<a, b, c>>
<1> DEFINE s == <<a, b>>
           t == <<c>>
           u == <<a, b, c>>
<1>1. /\ s \in Seq(Tokens) /\ Len(s) = 2 /\ s[1] = a /\ s[2] = b
      /\ t \in Seq(Tokens) /\ Len(t) = 1 /\ t[1] = c
      /\ u \in Seq(Tokens) /\ Len(u) = 3 /\ u[1] = a /\ u[2] = b /\ u[3] = c
  OBVIOUS
<1> HIDE DEF s, t, u
<1>2. \A i \in 1..Len(s) : u[i] = s[i]
  BY <1>1
<1>3. \A i \in 1..Len(t) : u[Len(s) + i] = t[i]
  BY <1>1
<1>4. Len(u) = Len(s) + Len(t)
  BY <1>1
<1>5. s \o t = u
  BY <1>1, <1>2, <1>3, <1>4, Concatenates, Zenon
<1> QED BY <1>5, Zenon DEF s, t, u

LEMMA Concat3And1 ==
    ASSUME NEW a \in Tokens, NEW b \in Tokens, NEW c \in Tokens, NEW d \in Tokens
    PROVE  <<a, b, c>> \o <<d>> = <<a, b, c, d>>
<1> DEFINE s == <<a, b, c>>
           t == <<d>>
           u == <<a, b, c, d>>
<1>1. /\ s \in Seq(Tokens) /\ Len(s) = 3 /\ s[1] = a /\ s[2] = b /\ s[3] = c
      /\ t \in Seq(Tokens) /\ Len(t) = 1 /\ t[1] = d
      /\ u \in Seq(Tokens) /\ Len(u) = 4 /\ u[1] = a /\ u[2] = b /\ u[3] = c /\ u[4] = d
  OBVIOUS
<1> HIDE DEF s, t, u
<1>2. \A i \in 1..Len(s) : u[i] = s[i]
  BY <1>1
<1>3. \A i \in 1..Len(t) : u[Len(s) + i] = t[i]
  BY <1>1
<1>4. Len(u) = Len(s) + Len(t)
  BY <1>1
<1>5. s \o t = u
  BY <1>1, <1>2, <1>3, <1>4, Concatenates, Zenon
<1> QED BY <1>5, Zenon DEF s, t, u

LEMMA Concat1And4 ==
    ASSUME NEW a \in Tokens, NEW b \in Tokens, NEW c \in Tokens, NEW d \in Tokens, NEW g \in Tokens
    PROVE  <<a>> \o <<b, c, d, g>> = <<a, b, c, d, g>>
<1> DEFINE s == <<a>>
           t == <<b, c, d, g>>
           u == <<a, b, c, d, g>>
<1>1. /\ s \in Seq(Tokens) /\ Len(s) = 1 /\ s[1] = a
      /\ t \in Seq(Tokens) /\ Len(t) = 4 /\ t[1] = b /\ t[2] = c /\ t[3] = d /\ t[4] = g
      /\ u \in Seq(Tokens) /\ Len(u) = 5 /\ u[1] = a /\ u[2] = b /\ u[3] = c /\ u[4] = d /\ u[5] = g
  OBVIOUS
<1> HIDE DEF s, t, u
<1>2. \A i \in 1..Len(s) : u[i] = s[i]
  BY <1>1
<1>3. \A i \in 1..Len(t) : u[Len(s) + i] = t[i]
  BY <1>1
<1>4. Len(u) = Len(s) + Len(t)
  BY <1>1
<1>5. s \o t = u
  BY <1>1, <1>2, <1>3, <1>4, Concatenates, Zenon
<1> QED BY <1>5, Zenon DEF s, t, u

LEMMA Concat1And5 ==
    ASSUME NEW a \in Tokens, NEW b \in Tokens, NEW c \in Tokens, NEW d \in Tokens, NEW g \in Tokens, NEW h \in Tokens
    PROVE  <<a>> \o <<b, c, d, g, h>> = <<a, b, c, d, g, h>>
<1> DEFINE s == <<a>>
           t == <<b, c, d, g, h>>
           u == <<a, b, c, d, g, h>>
<1>1. /\ s \in Seq(Tokens) /\ Len(s) = 1 /\ s[1] = a
      /\ t \in Seq(Tokens) /\ Len(t) = 5 /\ t[1] = b /\ t[2] = c /\ t[3] = d /\ t[4] = g /\ t[5] = h
      /\ u \in Seq(Tokens) /\ Len(u) = 6 /\ u[1] = a /\ u[2] = b /\ u[3] = c /\ u[4] = d
      /\ u[5] = g /\ u[6] = h
  OBVIOUS
<1> HIDE DEF s, t, u
<1>2. \A i \in 1..Len(s) : u[i] = s[i]
  BY <1>1
<1>3. \A i \in 1..Len(t) : u[Len(s) + i] = t[i]
  BY <1>1
<1>4. Len(u) = Len(s) + Len(t)
  BY <1>1
<1>5. s \o t = u
  BY <1>1, <1>2, <1>3, <1>4, Concatenates, Zenon
<1> QED BY <1>5, Zenon DEF s, t, u

LEMMA BareParses ==
    ASSUME NEW m \in Metrics
    PROVE  Parses(Bare(m))
<1> DEFINE t == <<Name(m)>>
           S == {Selector(m, NoMatcher)}
<1>1. Name(m) \in Tokens
  BY TokenKinds, Zenon
<1>2. /\ t \in Seq(Tokens) /\ Len(t) = 1 /\ t[1] = Name(m)
      /\ \A e, i : Stands(e, i, t) => OneAt(e, i, Name(m))
  BY <1>1, OneToken, Zenon
<1> HIDE DEF t, S
<1>3. Starts(t)
  <2>1. Len(t) > 0
    BY <1>2
  <2> QED BY <1>2, <2>1, FirstToken, Zenon
<1>4. ASSUME NEW e, NEW f, NEW i, Lexing(e, f), Stands(e, i, t), Ends(e, i + 1) PROVE Reads(f, i, i + 1, S)
  <2>1. i \in 1..Len(e) /\ e[i] = Name(m)
    BY <1>2, <1>4, Zenon DEF OneAt
  <2> QED BY <1>4, <2>1, StepBare, Zenon DEF S
<1>5. Parses(Expr(t, S))
  BY <1>2, <1>3, <1>4, Piece, Zenon
<1> QED BY <1>5, Zenon DEF t, S, Bare

LEMMA BraceAt ==
    ASSUME NEW e, NEW i, i \in 1..Len(e), e \in Seq(Tokens)
    PROVE  /\ e[i] = Mark("{") => OpenBrace(e, i)
           /\ e[i] = Mark("}") => CloseBrace(e, i)
<1>1. i \in DOMAIN e
  OBVIOUS
<1> QED BY <1>1, Zenon DEF OpenBrace, CloseBrace, IsMark

LEMMA BracedParses ==
    ASSUME NEW m \in Metrics, NEW k \in Matchers \union {NoMatcher}
    PROVE  Parses(Braced(m, k))
<1> DEFINE mid == IF k = NoMatcher THEN <<>> ELSE <<Match(k)>>
           t == <<Name(m), Mark("{")>> \o mid \o <<Mark("}")>>
           S == {Selector(m, k)}
<1>1. Name(m) \in Tokens /\ Mark("{") \in Tokens /\ Mark("}") \in Tokens /\ Match(k) \in Tokens
  BY TokenKinds, SomeMarks, Zenon
<1>2. CASE k = NoMatcher
  <2>1. t = <<Name(m), Mark("{"), Mark("}")>>
    <3>1. mid = <<>>
      BY <1>2, Zenon
    <3>2. <<Name(m), Mark("{")>> \o <<>> = <<Name(m), Mark("{")>>
      <4>1. <<Name(m), Mark("{")>> \in Seq(Tokens)
        BY <1>1, TwoTokens, Zenon
      <4> QED BY <4>1, ConcatEmptySeq, Zenon
    <3>3. <<Name(m), Mark("{")>> \o <<Mark("}")>> = <<Name(m), Mark("{"), Mark("}")>>
      BY <1>1, Concat2And1, Zenon
    <3> HIDE DEF mid
    <3> QED BY <3>1, <3>2, <3>3, Zenon
  <2>2. /\ t \in Seq(Tokens) /\ Len(t) = 3 /\ t[1] = Name(m)
        /\ \A e, i : Stands(e, i, t) => ThreeAt(e, i, Name(m), Mark("{"), Mark("}"))
    <3> HIDE DEF t
    <3> QED BY <1>1, <2>1, ThreeTokens, Zenon
  <2> HIDE DEF t, mid, S
  <2>3. Starts(t)
    <3>1. Len(t) > 0
      <4>1. Len(t) = 3
        BY <2>2, Zenon
      <4> QED BY <4>1
    <3> QED BY <2>2, <3>1, FirstToken, Zenon
  <2>4. ASSUME NEW e, NEW f, NEW i, Lexing(e, f), Stands(e, i, t) PROVE Reads(f, i, i + 3, S)
    <3>1. /\ i \in Nat /\ i \in 1..Len(e) /\ i + 1 \in 1..Len(e) /\ i + 2 \in 1..Len(e) /\ e \in Seq(Tokens)
          /\ e[i] = Name(m) /\ e[i + 1] = Mark("{") /\ e[i + 2] = Mark("}")
      BY <2>2, <2>4, Zenon DEF ThreeAt, Lexing
    <3>2. OpenBrace(e, i + 1) /\ CloseBrace(e, i + 2)
      BY <3>1, BraceAt, Zenon
    <3>3. Filled(e, i, i + 2, k)
      BY <1>2, <3>2, Zenon DEF Filled
    <3>4. Reads(f, i, (i + 2) + 1, S)
      BY <2>4, <3>1, <3>2, <3>3, StepBraced, Zenon DEF S
    <3>5. (i + 2) + 1 = i + 3
      <4>1. i \in Nat
        BY <3>1, Zenon
      <4> QED BY <4>1
    <3> QED BY <3>4, <3>5, Zenon
  <2>5. Parses(Expr(t, S))
    BY <2>2, <2>3, <2>4, Piece, Zenon
  <2> QED BY <2>5, Zenon DEF t, mid, S, Braced
<1>3. CASE k # NoMatcher
  <2>1. t = <<Name(m), Mark("{"), Match(k), Mark("}")>>
    <3>1. mid = <<Match(k)>>
      BY <1>3, Zenon
    <3>2. <<Name(m), Mark("{")>> \o <<Match(k)>> = <<Name(m), Mark("{"), Match(k)>>
      BY <1>1, Concat2And1, Zenon
    <3>3. <<Name(m), Mark("{"), Match(k)>> \o <<Mark("}")>> = <<Name(m), Mark("{"), Match(k), Mark("}")>>
      BY <1>1, Concat3And1, Zenon
    <3> HIDE DEF mid
    <3> QED BY <3>1, <3>2, <3>3, Zenon
  <2>2. /\ t \in Seq(Tokens) /\ Len(t) = 4 /\ t[1] = Name(m)
        /\ \A e, i : Stands(e, i, t) => FourAt(e, i, Name(m), Mark("{"), Match(k), Mark("}"))
    <3> HIDE DEF t
    <3> QED BY <1>1, <2>1, FourTokens, Zenon
  <2> HIDE DEF t, mid, S
  <2>3. Starts(t)
    <3>1. Len(t) > 0
      <4>1. Len(t) = 4
        BY <2>2, Zenon
      <4> QED BY <4>1
    <3> QED BY <2>2, <3>1, FirstToken, Zenon
  <2>4. ASSUME NEW e, NEW f, NEW i, Lexing(e, f), Stands(e, i, t) PROVE Reads(f, i, i + 4, S)
    <3>1. /\ i \in Nat /\ i \in 1..Len(e) /\ i + 1 \in 1..Len(e) /\ i + 3 \in 1..Len(e) /\ e \in Seq(Tokens)
          /\ e[i] = Name(m) /\ e[i + 1] = Mark("{") /\ e[i + 2] = Match(k) /\ e[i + 3] = Mark("}")
      BY <2>2, <2>4, Zenon DEF FourAt, Lexing
    <3>2. OpenBrace(e, i + 1) /\ CloseBrace(e, i + 3)
      BY <3>1, BraceAt, Zenon
    <3>3. Filled(e, i, i + 3, k)
      BY <3>1, Zenon DEF Filled
    <3>4. Reads(f, i, (i + 3) + 1, S)
      BY <2>4, <3>1, <3>2, <3>3, StepBraced, Zenon DEF S
    <3>5. (i + 3) + 1 = i + 4
      <4>1. i \in Nat
        BY <3>1, Zenon
      <4> QED BY <4>1
    <3> QED BY <3>4, <3>5, Zenon
  <2>5. Parses(Expr(t, S))
    BY <2>2, <2>3, <2>4, Piece, Zenon
  <2> QED BY <2>5, Zenon DEF t, mid, S, Braced
<1> QED BY <1>2, <1>3

\* A piece without selectors before or behind an expression.
LEMMA Prefixed ==
    ASSUME NEW t, NEW x, Parses(Expr(t, {})), Parses(x)
    PROVE  Parses(Expr(t \o x.tokens, x.selectors))
<1>1. Expr(t, {}).tokens = t /\ Expr(t, {}).selectors = {}
  BY ExprParts
<1>2. {} \union x.selectors = x.selectors
  OBVIOUS
<1>3. Parses(Expr(Expr(t, {}).tokens \o x.tokens, Expr(t, {}).selectors \union x.selectors))
  BY Juxtaposed
<1> QED BY <1>1, <1>2, <1>3, Zenon

LEMMA Suffixed ==
    ASSUME NEW t, NEW x, Parses(Expr(t, {})), Parses(x)
    PROVE  Parses(Expr(x.tokens \o t, x.selectors))
<1>1. Expr(t, {}).tokens = t /\ Expr(t, {}).selectors = {}
  BY ExprParts
<1>2. x.selectors \union {} = x.selectors
  OBVIOUS
<1>3. Parses(Expr(x.tokens \o Expr(t, {}).tokens, x.selectors \union Expr(t, {}).selectors))
  BY Juxtaposed
<1> QED BY <1>1, <1>2, <1>3, Zenon

LEMMA Enclosed ==
    ASSUME NEW t, NEW u, NEW x, Parses(Expr(t, {})), Parses(Expr(u, {})), Parses(x)
    PROVE  Parses(Expr(t \o x.tokens \o u, x.selectors))
<1> DEFINE z == Expr(t \o x.tokens, x.selectors)
<1>1. Parses(z)
  BY Prefixed
<1>2. z.tokens = t \o x.tokens /\ z.selectors = x.selectors
  BY ExprParts
<1> HIDE DEF z
<1>3. Parses(Expr(z.tokens \o u, z.selectors))
  BY <1>1, Suffixed
<1> QED BY <1>2, <1>3, Zenon

(* ---------------------------------------- every expression is parsed *)

LEMMA Concat5And3 ==
    ASSUME NEW a \in Tokens, NEW b \in Tokens, NEW c \in Tokens, NEW d \in Tokens,
           NEW g \in Tokens, NEW h \in Tokens, NEW k \in Tokens, NEW l \in Tokens
    PROVE  <<a, b, c, d, g>> \o <<h, k, l>> = <<a, b, c, d, g, h, k, l>>
<1> DEFINE s == <<a, b, c, d, g>>
           t == <<h, k, l>>
           u == <<a, b, c, d, g, h, k, l>>
<1>1. /\ s \in Seq(Tokens) /\ Len(s) = 5 /\ s[1] = a /\ s[2] = b /\ s[3] = c /\ s[4] = d /\ s[5] = g
      /\ t \in Seq(Tokens) /\ Len(t) = 3 /\ t[1] = h /\ t[2] = k /\ t[3] = l
      /\ u \in Seq(Tokens) /\ Len(u) = 8 /\ u[1] = a /\ u[2] = b /\ u[3] = c /\ u[4] = d
      /\ u[5] = g /\ u[6] = h /\ u[7] = k /\ u[8] = l
  OBVIOUS
<1> HIDE DEF s, t, u
<1>2. \A i \in 1..Len(s) : u[i] = s[i]
  BY <1>1
<1>3. \A i \in 1..Len(t) : u[Len(s) + i] = t[i]
  BY <1>1
<1>4. Len(u) = Len(s) + Len(t)
  BY <1>1
<1>5. s \o t = u
  BY <1>1, <1>2, <1>3, <1>4, Concatenates, Zenon
<1> QED BY <1>5, Zenon DEF s, t, u

LEMMA Together ==
    ASSUME NEW t, NEW u, Parses(Expr(t, {})), Parses(Expr(u, {}))
    PROVE  Parses(Expr(t \o u, {}))
<1> DEFINE y == Expr(u, {})
<1>1. y.tokens = u /\ y.selectors = {}
  BY ExprParts
<1>2. Parses(y)
  OBVIOUS
<1> HIDE DEF y
<1>3. Parses(Expr(t \o y.tokens, y.selectors))
  BY <1>2, Prefixed
<1> QED BY <1>1, <1>3, Zenon

LEMMA RangedParses ==
    ASSUME NEW x, Parses(x)
    PROVE  Parses(Ranged(x)) /\ Parses(Subquery(x))
<1>1. Parses(Expr(<<Mark("["), Mark("5"), Unit("m"), Mark("]")>>, {}))
  BY RangeParses, Zenon
<1>2. Parses(Expr(<<Mark("["), Mark("1"), Unit("h:5m"), Mark("]")>>, {}))
  BY RangeParses, Zenon
<1> QED BY <1>1, <1>2, Suffixed, Zenon DEF Ranged, Subquery

LEMMA CallParses ==
    ASSUME NEW x, Parses(x)
    PROVE  Parses(Call(x)) /\ Parses(Labelled(x))
<1>1. Parses(Expr(<<Name("rate"), Mark("(")>>, {})) /\ Parses(Expr(<<Name("label_replace"), Mark("(")>>, {}))
  BY HeadParses, Zenon
<1>2. Parses(Expr(<<Mark(")")>>, {}))
  BY MarkParses, SomeMarks, Zenon
<1> QED BY <1>1, <1>2, ArgumentsParse, Enclosed, Zenon DEF Call, Labelled

LEMMA TokensUsed ==
    /\ \A w \in {"sum", "by", "on", "without", "group_left", "job"} : Name(w) \in Tokens
    /\ Mark("(") \in Tokens /\ Mark(")") \in Tokens /\ Mark("*") \in Tokens
BY TokenKinds, SomeWords, SomeMarks, Zenon

LEMMA SumParses ==
    ASSUME NEW x, Parses(x)
    PROVE  Parses(SumBy(x)) /\ Parses(SumOf(x))
<1>1. Parses(Expr(<<Name("sum"), Mark("(")>>, {})) /\ Parses(Expr(<<Name("sum")>>, {}))
  BY HeadParses, WordParses, Zenon
<1>2. Parses(Expr(<<Mark(")")>>, {}))
  BY MarkParses, SomeMarks, Zenon
<1>3. Parses(Expr(<<Name("sum"), Name("by"), Mark("("), Name("job"), Mark(")"), Mark("(")>>, {}))
  <2>1. <<Name("sum")>> \o <<Name("by"), Mark("("), Name("job"), Mark(")"), Mark("(")>>
            = <<Name("sum"), Name("by"), Mark("("), Name("job"), Mark(")"), Mark("(")>>
    <3> DEFINE a == Name("sum")
               b == Name("by")
               open == Mark("(")
               job == Name("job")
               close == Mark(")")
    <3>1. a \in Tokens /\ b \in Tokens /\ open \in Tokens /\ job \in Tokens /\ close \in Tokens
      BY TokensUsed, Zenon
    <3> HIDE DEF a, b, open, job, close
    <3>2. <<a>> \o <<b, open, job, close, open>> = <<a, b, open, job, close, open>>
      BY <3>1, Concat1And5
    <3> QED BY <3>2, Zenon DEF a, b, open, job, close
  <2>2. Parses(Expr(<<Name("by"), Mark("("), Name("job"), Mark(")"), Mark("(")>>, {}))
    BY ListParses, Zenon
  <2>3. Parses(Expr(<<Name("sum")>> \o <<Name("by"), Mark("("), Name("job"), Mark(")"), Mark("(")>>, {}))
    BY <1>1, <2>2, Together, Zenon
  <2> QED BY <2>1, <2>3, Zenon
<1>4. Parses(Expr(<<Mark(")"), Name("without"), Mark("("), Name("job"), Mark(")")>>, {}))
  <2>1. <<Mark(")")>> \o <<Name("without"), Mark("("), Name("job"), Mark(")")>>
            = <<Mark(")"), Name("without"), Mark("("), Name("job"), Mark(")")>>
    <3> DEFINE b == Name("without")
               open == Mark("(")
               job == Name("job")
               close == Mark(")")
    <3>1. b \in Tokens /\ open \in Tokens /\ job \in Tokens /\ close \in Tokens
      BY TokensUsed, Zenon
    <3> HIDE DEF b, open, job, close
    <3>2. <<close>> \o <<b, open, job, close>> = <<close, b, open, job, close>>
      BY <3>1, Concat1And4
    <3> QED BY <3>2, Zenon DEF b, open, job, close
  <2>2. Parses(Expr(<<Name("without"), Mark("("), Name("job"), Mark(")")>>, {}))
    BY ListParses, Zenon
  <2>3. Parses(Expr(<<Mark(")")>> \o <<Name("without"), Mark("("), Name("job"), Mark(")")>>, {}))
    BY <1>2, <2>2, Together, Zenon
  <2> QED BY <2>1, <2>3, Zenon
<1>5. Parses(SumBy(x))
  BY <1>2, <1>3, Enclosed, Zenon DEF SumBy
<1>6. Parses(SumOf(x))
  BY <1>1, <1>4, Enclosed, Zenon DEF SumOf
<1> QED BY <1>5, <1>6

LEMMA BetweenParses ==
    ASSUME NEW x, NEW y, NEW t, Parses(x), Parses(y), Parses(Expr(t, {}))
    PROVE  Parses(Expr(x.tokens \o t \o y.tokens, x.selectors \union y.selectors))
<1> DEFINE z == Expr(x.tokens \o t, x.selectors)
<1>1. Parses(z)
  BY Suffixed
<1>2. z.tokens = x.tokens \o t /\ z.selectors = x.selectors
  BY ExprParts
<1> HIDE DEF z
<1>3. Parses(Expr(z.tokens \o y.tokens, z.selectors \union y.selectors))
  BY <1>1, Juxtaposed
<1> QED BY <1>2, <1>3, Zenon

LEMMA JoinedParses ==
    ASSUME NEW x, NEW y, Parses(x), Parses(y)
    PROVE  Parses(Joined(x, y)) /\ Parses(Both(x, y))
<1> DEFINE times == Mark("*")
           over == Name("on")
           left == Name("group_left")
           open == Mark("(")
           job == Name("job")
           close == Mark(")")
           on == <<over, open, job, close>>
           star == <<times, over, open, job, close>>
           group == <<left, open, close>>
           all == <<times, over, open, job, close, left, open, close>>
<1>1. Parses(Expr(on, {})) /\ Parses(Expr(group, {}))
  BY ListParses, Zenon
<1>2. Parses(Expr(<<times>>, {}))
  BY MarkParses, SomeMarks, Zenon
<1>3. <<times>> \o on = star /\ star \o group = all
  <2>1. /\ times \in Tokens /\ over \in Tokens /\ left \in Tokens /\ open \in Tokens /\ job \in Tokens
        /\ close \in Tokens
    BY TokensUsed, Zenon
  <2> HIDE DEF times, over, left, open, job, close
  <2>2. <<times>> \o on = star
    BY <2>1, Concat1And4
  <2>3. star \o group = all
    BY <2>1, Concat5And3
  <2> QED BY <2>2, <2>3
<1>5. Parses(Expr(all, {}))
  <2> HIDE DEF times, on, star, group, all
  <2>1. Parses(Expr(<<times>> \o on, {}))
    BY <1>1, <1>2, Together, Zenon
  <2>2. Parses(Expr(star, {}))
    BY <1>3, <2>1, Zenon
  <2>3. Parses(Expr(star \o group, {}))
    BY <1>1, <2>2, Together, Zenon
  <2> QED BY <1>3, <2>3, Zenon
<1>6. Parses(Joined(x, y))
  BY <1>5, BetweenParses, Zenon DEF Joined
<1>7. Parses(Expr(<<Name("and")>>, {}))
  BY WordParses, Zenon
<1>8. Parses(Both(x, y))
  BY <1>7, BetweenParses, Zenon DEF Both
<1> QED BY <1>6, <1>8

\* The lexer reads every expression: it finds all its selectors, and beside
\* them at most the tail of a subquery.
LEMMA ExpressionsParse ==
    ASSUME NEW x \in Expressions
    PROVE  Parses(x)
<1>1. ASSUME NEW v \in Vectors PROVE Parses(v)
  <2>1. CASE v \in {Bare(m) : m \in Metrics}
    BY <2>1, BareParses, Zenon
  <2>2. CASE v \in {Braced(m, k) : m \in Metrics, k \in Matchers \union {NoMatcher}}
    <3>1. PICK m \in Metrics, k \in Matchers \union {NoMatcher} : v = Braced(m, k)
      BY <2>2
    <3>2. Parses(Braced(m, k))
      BY BracedParses
    <3> QED BY <3>1, <3>2, Zenon
  <2> QED BY <1>1, <2>1, <2>2 DEF Vectors
<1>2. ASSUME NEW v \in Functions1 PROVE Parses(v)
  BY <1>1, <1>2, RangedParses, CallParses, Zenon DEF Functions1
<1>3. ASSUME NEW v \in Terms PROVE Parses(v)
  BY <1>1, <1>2, <1>3, SumParses, Zenon DEF Terms
<1>4. ASSUME NEW v \in Bares PROVE Parses(v)
  BY <1>4, BareParses, Zenon DEF Bares
<1>5. CASE x \in {Joined(y, z) : y \in Bares, z \in Terms}
  <2>1. PICK y \in Bares, z \in Terms : x = Joined(y, z)
    BY <1>5
  <2> QED BY <1>3, <1>4, <2>1, JoinedParses, Zenon
<1>6. CASE x \in {Both(y, z) : y \in Functions1, z \in Bares}
  <2>1. PICK y \in Functions1, z \in Bares : x = Both(y, z)
    BY <1>6
  <2> QED BY <1>2, <1>4, <2>1, JoinedParses, Zenon
<1> QED BY <1>3, <1>5, <1>6 DEF Expressions

\* In every expression the lexer finds each selector that stands in it, whatever
\* functions, label lists, durations and strings stand around it, and besides
\* those only the tail of a subquery.
THEOREM LexerFindsSelectors ==
    ASSUME NEW x \in Expressions
    PROVE  /\ x.tokens \in Seq(Tokens)
           /\ x.selectors \subseteq extract_selectors(x.tokens)
           /\ extract_selectors(x.tokens) \subseteq x.selectors \union Ghosts
<1> DEFINE e == x.tokens
<1>1. Parses(x) /\ e \in Seq(Tokens) /\ Len(e) \in Nat
  <2>1. Parses(x)
    BY ExpressionsParse
  <2>2. e \in Seq(Tokens)
    BY <2>1, Zenon DEF Parses
  <2> HIDE DEF e
  <2> QED BY <2>1, <2>2
<1>2. PICK f : Lexing(e, f) /\ extract_selectors(e) = f[1]
  BY <1>1, ExtractIsLexing
<1>3. Stands(e, 1, e)
  BY <1>1 DEF Stands
<1>4. 1 + Len(e) = Len(e) + 1 /\ Len(e) + 1 \in 1..Len(e) + 1 /\ Len(e) + 1 \notin DOMAIN e
  BY <1>1
<1>5. Ends(e, 1 + Len(e))
  BY <1>4, Zenon DEF Ends, IsMark
<1>6. Reads(f, 1, 1 + Len(e), x.selectors)
  BY <1>1, <1>2, <1>3, <1>5, Zenon DEF Parses
<1>7. f[Len(e) + 1] = {}
  <2>1. Len(e) + 1 \in 0..Len(e) + 1
    BY <1>1
  <2> HIDE DEF e
  <2> QED BY <1>2, <2>1, Zenon DEF Lexing
<1> QED BY <1>1, <1>2, <1>4, <1>6, <1>7 DEF Reads

(* ------------------------------------------------ the label contract check *)

LEMMA ContractLexer ==
    ASSUME NEW e
    PROVE  Contract!extract_selectors(e) = extract_selectors(e)
BY DEF extract_selectors, Found, Past, IsIdentifier, balanced_braces, skip_parentheses, Depth, IsMark, Mark, IsLabelList,
       Contents, Selector, NoMatcher, Unterminated, DURATION_UNITS, PROMQL_WORDS, LabelLists, Min, Quantify, Cardinality,
       Contract!extract_selectors, Contract!Found, Contract!Past, Contract!IsIdentifier, Contract!balanced_braces,
       Contract!skip_parentheses, Contract!Depth, Contract!IsMark, Contract!Mark, Contract!IsLabelList,
       Contract!Contents, Contract!Selector, Contract!NoMatcher, Contract!Unterminated, Contract!DURATION_UNITS,
       Contract!PROMQL_WORDS, Contract!LabelLists, Contract!Min, Contract!Quantify, Contract!Cardinality

\* The selectors the check goes through, each with its expression.
Occurrences == UNION {{<<x, s>> : s \in extract_selectors(x.tokens)} : x \in rules}

\* It asks about the ones it can read that may match a series of this tenant.
Asked(s) == Contract!Supported(s) /\ ~Contract!targets_another_tenant(s)

\* An answer was true when it was given, and nothing leaves the database.
CacheSound ==
    \A s \in DOMAIN cache :
        Contract!Matching(atStart, s) \subseteq cache[s] /\ cache[s] \subseteq Contract!Matching(db, s)

\* The whole selector is asked for once the family is known to have series.
CurrentSound ==
    current # <<>> =>
        \E o \in Occurrences, p \in {"family", "selected"} :
            /\ current = <<o, p>> /\ Asked(o[2])
            /\ p = "selected" => /\ Contract!family(o[2]) \in DOMAIN cache
                                 /\ cache[Contract!family(o[2])] # {}

\* The tail of a subquery is its own family: it cannot fail.
FailedSound ==
    \A o \in failed :
        /\ o \in Occurrences /\ Asked(o[2]) /\ o[2] \notin Ghosts
        /\ Contract!Matching(db, Contract!family(o[2])) # {}
        /\ Contract!Matching(atStart, o[2]) = {}

Settled(o) ==
    \/ o \in failed
    \/ Contract!targets_another_tenant(o[2])
    \/ Contract!Matching(atStart, Contract!family(o[2])) = {}
    \/ Contract!Matching(db, o[2]) # {}

\* Nothing is forgotten but by an error, which the exit status shows.
AllSeen ==
    errors = 0 /\ status \in {"running", "exit 0"} =>
        \A o \in Occurrences : o \in todo \/ (current # <<>> /\ current[1] = o) \/ Settled(o)

ExitSound == status = "exit 0" => errors = 0 /\ failed = {} /\ todo = {} /\ current = <<>>

ContractInv ==
    /\ rules \subseteq Expressions /\ atStart \subseteq db /\ todo \subseteq Occurrences /\ errors \in {0, 1}
    /\ CacheSound /\ CurrentSound /\ FailedSound /\ AllSeen /\ ExitSound

LEMMA MatchingGrows ==
    ASSUME NEW D, NEW E, D \subseteq E, NEW s
    PROVE  Contract!Matching(D, s) \subseteq Contract!Matching(E, s)
BY DEF Contract!Matching

LEMMA OccurrencesAre ==
    ASSUME NEW o
    PROVE  o \in Occurrences <=> \E x \in rules : \E s \in extract_selectors(x.tokens) : o = <<x, s>>
BY DEF Occurrences

LEMMA ContractInit ==
    ASSUME ToolInit
    PROVE  ContractInv
<1>1. CASE ContractNotRun
  <2>1. rules = {} /\ atStart = {} /\ db = {} /\ todo = {} /\ errors = 0 /\ failed = {} /\ current = <<>> /\ cache = <<>>
        /\ status = "not run"
    BY <1>1 DEF ContractNotRun
  <2>2. Occurrences = {}
    <3>1. ASSUME NEW o \in Occurrences PROVE FALSE
      <4>1. \E x \in rules : TRUE
        BY OccurrencesAre
      <4> QED BY <2>1, <4>1
    <3> QED BY <3>1
  <2>3. DOMAIN cache = {}
    <3>1. DOMAIN <<>> = {}
      OBVIOUS
    <3> QED BY <2>1, <3>1, Zenon
  <2> QED BY <2>1, <2>2, <2>3 DEF ContractInv, CacheSound, CurrentSound, FailedSound, AllSeen, ExitSound
<1>2. CASE Contract!Init
  <2>1. rules \in RuleSets /\ atStart = db /\ errors = 0 /\ failed = {}
        /\ current = <<>> /\ cache = <<>> /\ status = "running"
    BY <1>2 DEF Contract!Init
  <2>2. todo = Occurrences
    <3>1. \A o : o \in todo <=> \E x \in rules : \E s \in Contract!extract_selectors(x.tokens) : o = <<x, s>>
      BY <1>2 DEF Contract!Init
    <3>2. \A o : o \in todo <=> o \in Occurrences
      BY <3>1, OccurrencesAre, ContractLexer, Zenon
    <3> QED BY <3>2
  <2>3. rules \subseteq Expressions
    BY <2>1, RulesAssumption
  <2>4. DOMAIN cache = {}
    BY <2>1
  <2> QED BY <2>1, <2>2, <2>3, <2>4 DEF ContractInv, CacheSound, CurrentSound, FailedSound, AllSeen, ExitSound
<1> QED BY <1>1, <1>2 DEF ToolInit

\* An answer is remembered, nothing that was remembered changes, and the cache
\* stays sound.
LEMMA AnswerSound ==
    ASSUME NEW s, NEW data, Contract!Answer(s, data), CacheSound, UNCHANGED <<db, atStart>>, atStart \subseteq db
    PROVE  /\ CacheSound' /\ s \in DOMAIN cache' /\ cache'[s] = data
           /\ \A t \in DOMAIN cache : t \in DOMAIN cache' /\ cache'[t] = cache[t]
           /\ Contract!Matching(atStart, s) \subseteq data /\ data \subseteq Contract!Matching(db, s)
<1>1. Contract!Matching(atStart, s) \subseteq Contract!Matching(db, s)
  BY MatchingGrows
<1>2. CASE s \in DOMAIN cache
  <2>1. data = cache[s] /\ cache' = cache
    BY <1>2 DEF Contract!Answer, Contract!Cached
  <2> QED BY <1>2, <2>1 DEF CacheSound
<1>3. CASE s \notin DOMAIN cache
  <2>1. data = Contract!Matching(db, s)
        /\ cache' = [t \in DOMAIN cache \union {s} |-> IF t = s THEN data ELSE cache[t]]
    BY <1>3 DEF Contract!Answer, Contract!Cached, Contract!Remember
  <2>2. DOMAIN cache' = DOMAIN cache \union {s}
    BY <2>1
  <2>3. cache'[s] = data /\ \A t \in DOMAIN cache : t # s /\ cache'[t] = cache[t]
    BY <1>3, <2>1
  <2>4. CacheSound'
    <3>1. SUFFICES ASSUME NEW t \in DOMAIN cache'
                   PROVE  /\ Contract!Matching(atStart, t) \subseteq cache'[t]
                          /\ cache'[t] \subseteq Contract!Matching(db, t)
      BY DEF CacheSound
    <3>2. CASE t = s
      BY <1>1, <2>1, <2>3, <3>2
    <3>3. CASE t \in DOMAIN cache
      BY <2>3, <3>3 DEF CacheSound
    <3> QED BY <2>2, <3>2, <3>3
  <2> QED BY <1>1, <2>1, <2>2, <2>3, <2>4
<1> QED BY <1>2, <1>3

LEMMA CurrentIs ==
    ASSUME CurrentSound, current # <<>>
    PROVE  /\ current[1] \in Occurrences /\ current[2] \in {"family", "selected"}
           /\ current = <<current[1], current[2]>> /\ Asked(current[1][2])
           /\ current[2] = "selected" => /\ Contract!family(current[1][2]) \in DOMAIN cache
                                         /\ cache[Contract!family(current[1][2])] # {}
<1>1. PICK o \in Occurrences, p \in {"family", "selected"} :
        /\ current = <<o, p>> /\ Asked(o[2])
        /\ p = "selected" => /\ Contract!family(o[2]) \in DOMAIN cache
                             /\ cache[Contract!family(o[2])] # {}
  BY DEF CurrentSound
<1>2. current[1] = o /\ current[2] = p
  BY <1>1
<1> QED BY <1>1, <1>2, Zenon

LEMMA SameOccurrences ==
    ASSUME rules' = rules
    PROVE  Occurrences' = Occurrences
BY DEF Occurrences

LEMMA IngestKeeps ==
    ASSUME ContractInv, Contract!Ingest
    PROVE  ContractInv'
<1>1. db \subseteq db' /\ status = "running"
      /\ UNCHANGED <<atStart, rules, todo, current, cache, failed, errors, status>>
  BY DEF Contract!Ingest
<1>2. Occurrences' = Occurrences
  BY <1>1, SameOccurrences
<1>3. \A s : Contract!Matching(db, s) \subseteq Contract!Matching(db', s)
  BY <1>1, MatchingGrows
<1>4. CacheSound'
  BY <1>1, <1>3 DEF ContractInv, CacheSound
<1>5. CurrentSound'
  BY <1>1, <1>2 DEF ContractInv, CurrentSound
<1>6. FailedSound'
  <2>1. \A s : Contract!Matching(db, s) # {} => Contract!Matching(db', s) # {}
    BY <1>3
  <2> QED BY <1>1, <1>2, <2>1 DEF ContractInv, FailedSound
<1>7. AllSeen'
  <2>1. \A o : Settled(o) => Settled(o)'
    BY <1>1, <1>3 DEF Settled
  <2> QED BY <1>1, <1>2, <2>1 DEF ContractInv, AllSeen
<1> QED BY <1>1, <1>2, <1>4, <1>5, <1>6, <1>7 DEF ContractInv, ExitSound

LEMMA TakeKeeps ==
    ASSUME ContractInv, Contract!Take
    PROVE  ContractInv'
<1>1. status = "running" /\ current = <<>> /\ UNCHANGED <<db, atStart, rules, cache, failed, errors>>
  BY DEF Contract!Take
<1>2. PICK o \in todo :
        /\ todo' = todo \ {o}
        /\ status' = IF Contract!Supported(o[2]) THEN "running" ELSE "exit 2"
        /\ current' = IF ~Contract!Supported(o[2]) \/ Contract!targets_another_tenant(o[2]) THEN <<>>
                      ELSE <<o, "family">>
  BY DEF Contract!Take
<1>3. Occurrences' = Occurrences
  BY <1>1, SameOccurrences
<1>4. CacheSound'
  BY <1>1 DEF ContractInv, CacheSound
<1>5. CurrentSound'
  <2>1. CASE current' = <<>>
    BY <2>1 DEF CurrentSound
  <2>2. CASE current' # <<>>
    <3>1. current' = <<o, "family">> /\ Asked(o[2]) /\ o \in Occurrences
      BY <1>2, <2>2, Zenon DEF Asked, ContractInv
    <3> QED BY <1>3, <3>1 DEF CurrentSound
  <2> QED BY <2>1, <2>2
<1>6. FailedSound'
  BY <1>1, <1>3 DEF ContractInv, FailedSound
<1>7. AllSeen'
  <2>1. SUFFICES ASSUME errors' = 0, status' \in {"running", "exit 0"}, NEW u \in Occurrences
                 PROVE  u \in todo' \/ (current' # <<>> /\ current'[1] = u) \/ Settled(u)'
    BY <1>3 DEF AllSeen
  <2>2. Contract!Supported(o[2])
    BY <1>2, <2>1
  <2>3. u \in todo \/ Settled(u)
    BY <1>1, <2>1 DEF ContractInv, AllSeen
  <2>4. Settled(u) => Settled(u)'
    BY <1>1 DEF Settled
  <2>5. CASE u = o
    <3>1. CASE Contract!targets_another_tenant(o[2])
      BY <2>5, <3>1 DEF Settled
    <3>2. CASE ~Contract!targets_another_tenant(o[2])
      <4>1. current' = <<o, "family">>
        BY <1>2, <2>2, <3>2
      <4> QED BY <2>5, <4>1
    <3> QED BY <3>1, <3>2
  <2>6. CASE u # o
    BY <1>2, <2>3, <2>4, <2>6
  <2> QED BY <2>5, <2>6
<1>8. todo' \subseteq Occurrences' /\ ExitSound'
  BY <1>1, <1>2, <1>3 DEF ContractInv, ExitSound
<1> QED BY <1>1, <1>3, <1>4, <1>5, <1>6, <1>7, <1>8 DEF ContractInv

LEMMA AskFamilyKeeps ==
    ASSUME ContractInv, Contract!AskFamily
    PROVE  ContractInv'
<1>1. status = "running" /\ current # <<>> /\ current[2] = "family"
      /\ UNCHANGED <<db, atStart, rules, todo, failed, errors, status>>
  BY DEF Contract!AskFamily
<1> DEFINE o == current[1]
           s == Contract!family(o[2])
<1>2. PICK data : Contract!Answer(s, data) /\ current' = IF data = {} THEN <<>> ELSE <<o, "selected">>
  BY DEF Contract!AskFamily
<1>3. o \in Occurrences /\ Asked(o[2])
  BY <1>1, CurrentIs DEF ContractInv
<1> HIDE DEF o
<1>4. /\ CacheSound' /\ s \in DOMAIN cache' /\ cache'[s] = data
      /\ Contract!Matching(atStart, s) \subseteq data
  BY <1>1, <1>2, AnswerSound DEF ContractInv
<1>5. Occurrences' = Occurrences
  BY <1>1, SameOccurrences
<1>6. CurrentSound'
  <2>1. CASE data = {}
    BY <1>2, <2>1 DEF CurrentSound
  <2>2. CASE data # {}
    <3>1. current' = <<o, "selected">>
      BY <1>2, <2>2
    <3> QED BY <1>3, <1>4, <1>5, <2>2, <3>1 DEF CurrentSound
  <2> QED BY <2>1, <2>2
<1>7. FailedSound'
  BY <1>1, <1>5 DEF ContractInv, FailedSound
<1>8. AllSeen'
  <2>1. SUFFICES ASSUME errors' = 0, NEW u \in Occurrences
                 PROVE  u \in todo' \/ (current' # <<>> /\ current'[1] = u) \/ Settled(u)'
    BY <1>5 DEF AllSeen
  <2>2. u \in todo \/ u = o \/ Settled(u)
    BY <1>1, <2>1 DEF ContractInv, AllSeen, o
  <2>3. Settled(u) => Settled(u)'
    BY <1>1 DEF Settled
  <2>4. CASE u = o
    <3>1. CASE data = {}
      <4>1. Contract!Matching(atStart, s) = {}
        BY <1>4, <3>1
      <4> QED BY <1>1, <2>4, <4>1 DEF Settled
    <3>2. CASE data # {}
      <4>1. current' = <<o, "selected">>
        BY <1>2, <3>2
      <4> QED BY <2>4, <4>1
    <3> QED BY <3>1, <3>2
  <2> QED BY <1>1, <2>2, <2>3, <2>4
<1> QED BY <1>1, <1>4, <1>5, <1>6, <1>7, <1>8 DEF ContractInv, ExitSound

LEMMA AskSelectedKeeps ==
    ASSUME ContractInv, Contract!AskSelected
    PROVE  ContractInv'
<1>1. status = "running" /\ current # <<>> /\ current[2] = "selected" /\ current' = <<>>
      /\ UNCHANGED <<db, atStart, rules, todo, errors, status>>
  BY DEF Contract!AskSelected
<1> DEFINE o == current[1]
           s == o[2]
           home == Contract!family(s)
<1>2. PICK data : Contract!Answer(s, data) /\ failed' = IF data = {} THEN failed \union {o} ELSE failed
  BY DEF Contract!AskSelected
<1>3. o \in Occurrences /\ Asked(s) /\ home \in DOMAIN cache /\ cache[home] # {}
  BY <1>1, CurrentIs DEF ContractInv
<1> HIDE DEF o
<1>4. /\ CacheSound' /\ cache'[s] = data /\ cache'[home] = cache[home]
      /\ Contract!Matching(atStart, s) \subseteq data /\ data \subseteq Contract!Matching(db, s)
  BY <1>1, <1>2, <1>3, AnswerSound DEF ContractInv
<1>5. Occurrences' = Occurrences
  BY <1>1, SameOccurrences
<1>6. CurrentSound'
  BY <1>1 DEF CurrentSound
<1>7. Contract!Matching(db, home) # {}
  BY <1>3 DEF ContractInv, CacheSound
<1>8. s \in Ghosts => home = s
  <2>1. SUFFICES ASSUME s = Selector("h:5m", NoMatcher) PROVE home = s
    BY Zenon DEF Ghosts
  <2>2. Selector("h:5m", NoMatcher).metric = "h:5m"
    BY DEF Selector
  <2>3. home = Contract!Selector(s.metric, Contract!NoMatcher)
    BY Zenon DEF Contract!family
  <2>4. Contract!Selector("h:5m", Contract!NoMatcher) = Selector("h:5m", NoMatcher)
    BY Zenon DEF Selector, NoMatcher, Contract!Selector, Contract!NoMatcher
  <2> QED BY <2>1, <2>2, <2>3, <2>4, Zenon
<1>9. data = {} => Contract!Matching(atStart, s) = {} /\ s \notin Ghosts
  BY <1>3, <1>4, <1>8
<1>10. FailedSound'
  <2>1. SUFFICES ASSUME NEW u \in failed'
                 PROVE  /\ u \in Occurrences /\ Asked(u[2]) /\ u[2] \notin Ghosts
                        /\ Contract!Matching(db, Contract!family(u[2])) # {}
                        /\ Contract!Matching(atStart, u[2]) = {}
    BY <1>1, <1>5 DEF FailedSound
  <2>2. CASE u \in failed
    BY <2>2 DEF ContractInv, FailedSound
  <2>3. CASE u \notin failed
    <3>1. u = o /\ data = {}
      BY <1>2, <2>3
    <3> QED BY <1>3, <1>7, <1>9, <3>1
  <2> QED BY <2>2, <2>3
<1>11. AllSeen'
  <2>1. SUFFICES ASSUME errors' = 0, NEW u \in Occurrences
                 PROVE  u \in todo' \/ Settled(u)'
    BY <1>5 DEF AllSeen
  <2>2. u \in todo \/ u = o \/ Settled(u)
    BY <1>1, <2>1 DEF ContractInv, AllSeen, o
  <2>3. Settled(u) => Settled(u)'
    BY <1>1, <1>2 DEF Settled
  <2>4. CASE u = o
    <3>1. CASE data = {}
      BY <1>2, <2>4, <3>1 DEF Settled
    <3>2. CASE data # {}
      <4>1. Contract!Matching(db, s) # {}
        BY <1>4, <3>2
      <4> QED BY <1>1, <2>4, <4>1 DEF Settled
    <3> QED BY <3>1, <3>2
  <2> QED BY <1>1, <2>2, <2>3, <2>4
<1> QED BY <1>1, <1>4, <1>5, <1>6, <1>10, <1>11 DEF ContractInv, ExitSound

LEMMA EndsKeep ==
    ASSUME ContractInv, Contract!RequestFails \/ Contract!ResponseCutShort \/ Contract!Finish
    PROVE  ContractInv'
<1>1. status = "running" /\ UNCHANGED <<db, atStart, rules, todo, cache, failed>>
  BY DEF Contract!RequestFails, Contract!ResponseCutShort, Contract!Finish
<1>2. Occurrences' = Occurrences
  BY <1>1, SameOccurrences
<1>3. CacheSound' /\ FailedSound'
  BY <1>1, <1>2 DEF ContractInv, CacheSound, FailedSound
<1>4. \A u : Settled(u) => Settled(u)'
  BY <1>1 DEF Settled
<1>5. CASE Contract!RequestFails
  <2>1. errors' = 1 /\ current' = <<>> /\ status' = status
    BY <1>5 DEF Contract!RequestFails
  <2> QED BY <1>1, <1>2, <1>3, <2>1 DEF ContractInv, CurrentSound, AllSeen, ExitSound
<1>6. CASE Contract!ResponseCutShort
  <2>1. errors' = errors /\ current' = current /\ status' = "exit 1"
    BY <1>6 DEF Contract!ResponseCutShort
  <2> QED BY <1>1, <1>2, <1>3, <2>1 DEF ContractInv, CurrentSound, AllSeen, ExitSound
<1>7. CASE Contract!Finish
  <2>1. /\ current = <<>> /\ todo = {} /\ errors' = errors /\ current' = current
        /\ status' = IF errors > 0 THEN "exit 2" ELSE IF failed # {} THEN "exit 1" ELSE "exit 0"
    BY <1>7 DEF Contract!Finish
  <2>2. AllSeen'
    BY <1>1, <1>2, <1>4, <2>1 DEF ContractInv, AllSeen
  <2>3. ExitSound'
    <3>1. SUFFICES ASSUME status' = "exit 0" PROVE errors = 0 /\ failed = {}
      BY <1>1, <2>1, Zenon DEF ExitSound
    <3>2. "exit 2" # "exit 0" /\ "exit 1" # "exit 0"
      OBVIOUS
    <3>3. ~(errors > 0) /\ failed = {}
      BY <2>1, <3>1, <3>2, Zenon
    <3>4. errors \in {0, 1}
      BY DEF ContractInv
    <3> QED BY <3>3, <3>4
  <2> QED BY <1>1, <1>2, <1>3, <2>1, <2>2, <2>3 DEF ContractInv, CurrentSound
<1> QED BY <1>5, <1>6, <1>7

LEMMA ContractStep ==
    ASSUME ContractInv, [ToolNext]_<<vars, pass>>
    PROVE  ContractInv'
<1>1. CASE UNCHANGED pass
  <2>1. UNCHANGED <<db, atStart, rules, todo, current, cache, failed, errors, status>>
    BY <1>1 DEF pass
  <2>2. Occurrences' = Occurrences
    BY <2>1, SameOccurrences
  <2> QED BY <2>1, <2>2 DEF ContractInv, CacheSound, CurrentSound, FailedSound, AllSeen, Settled, ExitSound
<1>2. CASE Contract!Next
  BY <1>2, IngestKeeps, TakeKeeps, AskFamilyKeeps, AskSelectedKeeps, EndsKeep DEF Contract!Next
<1> QED BY <1>1, <1>2 DEF ToolNext

LEMMA ContractAlways ==
    ToolSpec => []ContractInv
<1>1. ContractInv /\ [ToolNext]_<<vars, pass>> => ContractInv'
  BY ContractStep
<1> QED BY ContractInit, <1>1, PTL DEF ToolSpec

\* What can be asked of Mimir for this tenant its series may satisfy.
LEMMA AskedCouldMatch ==
    ASSUME NEW s, Asked(s), s.matcher.label = "cluster"
    PROVE  Contract!Satisfies([ready |-> "any"], s.matcher)
BY Zenon DEF Asked, Contract!Supported, Contract!targets_another_tenant, Contract!Satisfies

\* An occurrence is a selector that the lexer finds in a rule.
LEMMA OccurrenceParts ==
    ASSUME ContractInv, NEW o \in Occurrences
    PROVE  /\ o[1] \in rules /\ o[1] \in Expressions
           /\ o[2] \in o[1].selectors \/ o[2] \in Ghosts
<1>1. PICK x \in rules : \E s \in extract_selectors(x.tokens) : o = <<x, s>>
  BY OccurrencesAre
<1> PICK s \in extract_selectors(x.tokens) : o = <<x, s>>
  BY <1>1
<1>2. o[1] = x /\ o[2] = s
  OBVIOUS
<1>3. x \in Expressions
  BY DEF ContractInv
<1>4. extract_selectors(x.tokens) \subseteq x.selectors \union Ghosts
  BY <1>3, LexerFindsSelectors
<1> QED BY <1>2, <1>3, <1>4

\* A selector that is reported stands in its rule, could match a series of
\* this tenant, has a family with series and matched none when the check began.
THEOREM FailuresAreRealCorrect == ToolSpec => []FailuresAreReal
<1>1. ContractInv => FailuresAreReal
  <2>1. SUFFICES ASSUME ContractInv, NEW o \in failed
                 PROVE  /\ o[2] \in o[1].selectors
                        /\ o[2].matcher.label = "cluster" => Contract!Satisfies([ready |-> "any"], o[2].matcher)
                        /\ Contract!Matching(db, Contract!family(o[2])) # {}
                        /\ Contract!Matching(atStart, o[2]) = {}
    BY Zenon DEF FailuresAreReal, Contract!FailuresAreReal
  <2>2. /\ o \in Occurrences /\ Asked(o[2]) /\ o[2] \notin Ghosts
        /\ Contract!Matching(db, Contract!family(o[2])) # {}
        /\ Contract!Matching(atStart, o[2]) = {}
    BY <2>1 DEF ContractInv, FailedSound
  <2>3. o[2] \in o[1].selectors
    BY <2>1, <2>2, OccurrenceParts
  <2>4. o[2].matcher.label = "cluster" => Contract!Satisfies([ready |-> "any"], o[2].matcher)
    BY <2>2, AskedCouldMatch
  <2> QED BY <2>2, <2>3, <2>4
<1> QED BY <1>1, ContractAlways, PTL

\* After an exit with 0 every selector that stands in a rule is settled: it
\* could not match here, its family was absent, or something matches it.
THEOREM CleanExitMeansMatchedCorrect == ToolSpec => []CleanExitMeansMatched
<1>1. ContractInv => CleanExitMeansMatched
  <2>1. SUFFICES ASSUME ContractInv, status = "exit 0", NEW s \in Contract!Selectors
                 PROVE  \/ Contract!Matching(atStart, Contract!family(s)) = {}
                        \/ Contract!Matching(db, s) # {}
                        \/ s.matcher.label = "cluster" /\ ~Contract!Satisfies([ready |-> "any"], s.matcher)
    BY Zenon DEF CleanExitMeansMatched, Contract!CleanExitMeansMatched
  <2>2. PICK x \in rules : s \in x.selectors
    BY DEF Contract!Selectors
  <2>3. x \in Expressions
    BY <2>1 DEF ContractInv
  <2>4. s \in extract_selectors(x.tokens)
    BY <2>2, <2>3, LexerFindsSelectors
  <2>5. <<x, s>> \in Occurrences
    BY <2>4, OccurrencesAre
  <2>6. errors = 0 /\ failed = {} /\ todo = {} /\ current = <<>>
    BY <2>1 DEF ContractInv, ExitSound
  <2>7. Settled(<<x, s>>)
    BY <2>1, <2>5, <2>6 DEF ContractInv, AllSeen
  <2>8. <<x, s>>[2] = s
    OBVIOUS
  <2>9. \/ Contract!targets_another_tenant(s)
        \/ Contract!Matching(atStart, Contract!family(s)) = {}
        \/ Contract!Matching(db, s) # {}
    BY <2>6, <2>7, <2>8, Zenon DEF Settled
  <2>10. Contract!targets_another_tenant(s) =>
            s.matcher.label = "cluster" /\ ~Contract!Satisfies([ready |-> "any"], s.matcher)
    <3>1. Contract!NoMatcher.label # "cluster"
      BY DEF Contract!NoMatcher
    <3>2. /\ "=" # "!=" /\ "=" # "!~"
          /\ "=~" # "!=" /\ "=~" # "!~"
      BY Zenon
    <3> HIDE DEF Contract!NoMatcher
    <3> QED BY <3>1, <3>2, ZenonT(30) DEF Contract!targets_another_tenant, Contract!Satisfies
  <2> QED BY <2>9, <2>10
<1> QED BY <1>1, ContractAlways, PTL

(* ------------------------------------------------------------ the sweep *)

LEMMA LargestNatural ==
    ASSUME NEW S, NEW b \in Nat, S \subseteq 0..b, S # {}
    PROVE  Max(S) \in S /\ \A s \in S : s <= Max(S)
<1> DEFINE T == {n \in Nat : \E s \in S : n = b - s}
<1>1. T \in SUBSET Nat
  OBVIOUS
<1>2. PICK s \in S : TRUE
  OBVIOUS
<1>3. b - s \in T
  BY <1>2
<1>4. PICK m \in T : \A k \in T : m <= k
  <2> HIDE DEF T
  <2> QED BY <1>1, <1>3, LeastNatural
<1>5. PICK x \in S : m = b - x
  BY <1>4
<1>6. ASSUME NEW y \in S PROVE x >= y
  <2>1. b - y \in T
    OBVIOUS
  <2> QED BY <2>1, <1>4, <1>5
<1> QED BY <1>6 DEF Max

\* The run around an interval of a bounded set of numbers.
LEMMA RunAround ==
    ASSUME NEW b \in Nat, NEW S, S \subseteq 0..b, NEW lo \in Nat, NEW hi \in Nat, lo <= hi, lo..hi \subseteq S
    PROVE  \E r \in RunsIn(S) : r[1] <= lo /\ hi <= r[2]
<1> DEFINE T == {x \in Nat : x <= lo /\ x..lo \subseteq S}
<1>1. PICK x \in T : \A y \in T : x <= y
  <2>1. lo \in T /\ T \in SUBSET Nat
    OBVIOUS
  <2> HIDE DEF T
  <2> QED BY <2>1, LeastNatural
<1>2. x - 1 \notin S
  <2>1. SUFFICES ASSUME x - 1 \in S PROVE FALSE
    OBVIOUS
  <2>2. x - 1 \in Nat
    BY <2>1
  <2>3. (x - 1)..lo \subseteq S
    BY <2>1
  <2>4. x - 1 \in T
    BY <2>2, <2>3
  <2> QED BY <2>4, <1>1
<1> DEFINE U == {k \in Nat : hi + 1 + k \notin S}
<1>3. PICK k \in U : \A j \in U : k <= j
  <2>1. b \in U /\ U \in SUBSET Nat
    OBVIOUS
  <2> HIDE DEF U
  <2> QED BY <2>1, LeastNatural
<1>4. x..hi + k \subseteq S
  <2>1. SUFFICES ASSUME NEW y \in x..hi + k, y \notin S PROVE FALSE
    OBVIOUS
  <2>2. y > hi
    BY <2>1
  <2>3. y - (hi + 1) \in U
    BY <2>1, <2>2
  <2>4. k <= y - (hi + 1) /\ k \in Nat
    BY <2>3, <1>3
  <2> QED BY <2>1, <2>4
<1>5. <<x, hi + k>> \in RunsIn(S)
  BY <1>2, <1>3, <1>4 DEF RunsIn
<1> QED BY <1>5

\* A run has what a run has.
LEMMA RunParts ==
    ASSUME NEW S, S \subseteq Nat, NEW r \in RunsIn(S)
    PROVE  /\ r[1] \in S /\ r[2] \in S /\ r[1] \in Nat /\ r[2] \in Nat /\ r[1] <= r[2]
           /\ \A x \in Nat : r[1] <= x /\ x <= r[2] => x \in S
           /\ r[1] - 1 \notin S /\ r[2] + 1 \notin S
           /\ r = <<r[1], r[2]>>
<1>1. /\ r \in S \X S /\ r[1] <= r[2] /\ r[1]..r[2] \subseteq S
      /\ r[1] - 1 \notin S /\ r[2] + 1 \notin S
  BY DEF RunsIn
<1>2. r[1] \in S /\ r[2] \in S /\ r = <<r[1], r[2]>>
  BY <1>1
<1>3. \A x \in Nat : r[1] <= x /\ x <= r[2] => x \in S
  BY <1>1, <1>2
<1> QED BY <1>1, <1>2, <1>3

\* Two runs that meet are one.
LEMMA RunsApart ==
    ASSUME NEW S, S \subseteq Nat, NEW r \in RunsIn(S), NEW s \in RunsIn(S), NEW x \in Nat,
           r[1] <= x, x <= r[2], s[1] <= x, x <= s[2]
    PROVE  r = s
<1>1. /\ r[1] \in Nat /\ r[2] \in Nat /\ s[1] \in Nat /\ s[2] \in Nat
      /\ r = <<r[1], r[2]>> /\ s = <<s[1], s[2]>>
  BY RunParts
<1>2. r[1] = s[1]
  <2>1. CASE r[1] < s[1]
    <3>1. s[1] - 1 \in Nat /\ r[1] <= s[1] - 1 /\ s[1] - 1 <= r[2]
      BY <1>1, <2>1
    <3> QED BY <3>1, RunParts
  <2>2. CASE s[1] < r[1]
    <3>1. r[1] - 1 \in Nat /\ s[1] <= r[1] - 1 /\ r[1] - 1 <= s[2]
      BY <1>1, <2>2
    <3> QED BY <3>1, RunParts
  <2> QED BY <1>1, <2>1, <2>2
<1>3. r[2] = s[2]
  <2>1. CASE r[2] < s[2]
    <3>1. r[2] + 1 \in Nat /\ s[1] <= r[2] + 1 /\ r[2] + 1 <= s[2]
      BY <1>1, <2>1
    <3> QED BY <3>1, RunParts
  <2>2. CASE s[2] < r[2]
    <3>1. s[2] + 1 \in Nat /\ r[1] <= s[2] + 1 /\ s[2] + 1 <= r[2]
      BY <1>1, <2>2
    <3> QED BY <3>1, RunParts
  <2> QED BY <1>1, <2>1, <2>2
<1> QED BY <1>1, <1>2, <1>3, Zenon

\* The instants at which the tool samples, and the samples that show a.
Instant(i) == start + i * Step
Last == Lookback \div Step
Shown(a) == {i \in 0..Last : Instant(i) \in active[a]}

\* Multiples of Step.
LEMMA Multiples ==
    ASSUME NEW d \in Nat
    PROVE  /\ d \div Step \in Nat /\ d % Step \in 0..Step - 1 /\ d = (d \div Step) * Step + (d % Step)
<1> DEFINE p == Step
<1>1. p \in Nat \ {0}
  BY WindowAssumption
<1> HIDE DEF p
<1>2. d \div p \in Nat /\ d % p \in 0..p - 1 /\ d = p * (d \div p) + (d % p)
  BY <1>1
<1> DEFINE q == d \div p
<1>3. p * q = q * p
  <2> HIDE DEF q
  <2>1. q \in Nat
    BY <1>2 DEF q
  <2> QED BY <1>1, <2>1
<1> QED BY <1>2, <1>3, Zenon DEF p

LEMMA Products ==
    ASSUME NEW i \in Int, NEW j \in Int
    PROVE  /\ i * Step \in Int
           /\ i <= j => i * Step <= j * Step
           /\ i < j => i * Step + Step <= j * Step
           /\ i * Step < j * Step + Step => i <= j
           /\ (i + 1) * Step = i * Step + Step /\ (j - i) * Step = j * Step - i * Step
<1>1. Step \in Nat \ {0}
  BY WindowAssumption
<1>2. i * Step \in Int /\ (i + 1) * Step = i * Step + Step /\ (j - i) * Step = j * Step - i * Step
  BY <1>1
<1>3. i < j => i * Step + Step <= j * Step
  <2>1. SUFFICES ASSUME i < j PROVE i * Step + Step <= j * Step
    OBVIOUS
  <2>2. PICK d \in Nat : j = i + 1 + d
    <3>1. j - i - 1 \in Nat /\ j = i + 1 + (j - i - 1)
      BY <2>1
    <3> QED BY <3>1
  <2>3. j * Step = i * Step + Step + d * Step /\ d * Step \in Nat
    BY <1>1, <2>2
  <2> QED BY <1>1, <2>3
<1>4. j < i => j * Step + Step <= i * Step
  <2>1. SUFFICES ASSUME j < i PROVE j * Step + Step <= i * Step
    OBVIOUS
  <2>2. PICK d \in Nat : i = j + 1 + d
    <3>1. i - j - 1 \in Nat /\ i = j + 1 + (i - j - 1)
      BY <2>1
    <3> QED BY <3>1
  <2>3. i * Step = j * Step + Step + d * Step /\ d * Step \in Nat
    BY <1>1, <2>2
  <2> QED BY <1>1, <2>3
<1> QED BY <1>1, <1>2, <1>3, <1>4

LEMMA Quotient ==
    ASSUME NEW k \in Nat
    PROVE  (k * Step) \div Step = k /\ (k * Step) % Step = 0
<1> DEFINE d == k * Step
           q == d \div Step
<1>1. d \in Nat /\ d = k * Step /\ Step \in Nat
  BY WindowAssumption
<1> HIDE DEF d
<1>2. q \in Nat /\ d % Step \in 0..Step - 1 /\ d = q * Step + (d % Step)
  BY <1>1, Multiples
<1> HIDE DEF q
<1>3. q <= k
  <2>1. q * Step < k * Step + Step
    BY <1>1, <1>2
  <2> QED BY <1>2, <2>1, Products
<1>4. k <= q
  <2>1. k * Step < q * Step + Step
    BY <1>1, <1>2
  <2> QED BY <1>2, <2>1, Products
<1>5. q = k
  BY <1>2, <1>3, <1>4
<1>6. d % Step = 0
  <2>1. d = d + (d % Step)
    BY <1>1, <1>2, <1>5, Zenon
  <2> QED BY <1>1, <1>2, <2>1
<1> QED BY <1>5, <1>6 DEF d, q

\* The window is a whole number of samples.
LEMMA Window ==
    /\ Last \in Nat /\ sample_count - 1 = Last
    /\ Lookback = Last * Step
<1>1. Lookback \in Nat /\ Lookback % Step = 0
  BY WindowAssumption
<1>2. Last \in Nat /\ Lookback = Last * Step
  <2>1. Lookback \div Step \in Nat /\ Lookback = (Lookback \div Step) * Step + 0
    <3>1. Lookback \div Step \in Nat /\ Lookback = (Lookback \div Step) * Step + (Lookback % Step)
      BY <1>1, Multiples, Zenon
    <3> QED BY <1>1, <3>1, Zenon
  <2>2. (Lookback \div Step) * Step \in Int
    BY <2>1, Products
  <2> QED BY <2>1, <2>2 DEF Last
<1> QED BY <1>2 DEF Last, sample_count

\* The sampled instants of the window.
LEMMA Instants ==
    ASSUME end \in Nat, end >= Lookback
    PROVE  /\ start \in Nat /\ Instant(0) = start /\ Instant(Last) = end
           /\ \A i \in 0..Last : Instant(i) \in start..end
           /\ \A i, j \in Int : i <= j => Instant(i) <= Instant(j)
           /\ \A i \in Int : Instant(i) \in Int /\ Instant(i + 1) = Instant(i) + Step
<1>1. start \in Nat /\ end = start + Lookback
  BY WindowAssumption DEF start
<1>2. Last \in Nat /\ Lookback = Last * Step
  BY Window
<1>3. Instant(0) = start /\ Instant(Last) = end
  BY <1>1, <1>2, WindowAssumption DEF Instant
<1>4. ASSUME NEW i \in Int, NEW j \in Int, i <= j PROVE Instant(i) <= Instant(j)
  <2>1. i * Step <= j * Step /\ i * Step \in Int /\ j * Step \in Int
    BY <1>4, Products
  <2> QED BY <1>1, <2>1 DEF Instant
<1>5. ASSUME NEW i \in Int PROVE Instant(i) \in Int /\ Instant(i + 1) = Instant(i) + Step
  BY <1>1, Products, WindowAssumption DEF Instant
<1>6. ASSUME NEW i \in 0..Last PROVE Instant(i) \in start..end
  <2>1. Instant(0) <= Instant(i) /\ Instant(i) <= Instant(Last) /\ Instant(i) \in Int
    <3>1. 0 \in Int /\ i \in Int /\ Last \in Int /\ 0 <= i /\ i <= Last
      BY <1>2
    <3> QED BY <1>4, <1>5, <3>1, Zenon
  <2> QED BY <1>1, <1>3, <2>1
<1> QED BY <1>1, <1>3, <1>4, <1>5, <1>6

\* The results of a rule put together show an alert at the sampled instants,
\* whichever series carries it at each.
LEMMA IndicesAreShown ==
    ASSUME end \in Nat, end >= Lookback, NEW a \in Alerts, active[a] \subseteq Nat
    PROVE  active_indices(query_range(TaskOf(a)), a) = Shown(a)
<1> DEFINE results == query_range(TaskOf(a))
           values(s) == {t \in active[a] : t \in start..end /\ (t - start) % Step = 0 /\ Source(a, t) = s}
           result(s) == [alert |-> a, source |-> s, values |-> values(s)]
<1>1. start \in Nat /\ end \in Nat
  BY Instants
<1>2. \A s \in {0, 1} : result(s) \in results
  <2>1. SUFFICES ASSUME NEW s \in {0, 1} PROVE result(s) \in results
    OBVIOUS
  <2>2. a \in {b \in Alerts : TaskOf(b) = TaskOf(a)}
    OBVIOUS
  <2> DEFINE mine == {b \in Alerts : TaskOf(b) = TaskOf(a)}
             at(b, r) == {t \in active[b] : t \in start..end /\ (t - start) % Step = 0 /\ Source(b, t) = r}
             shown(b, r) == [alert |-> b, source |-> r, values |-> at(b, r)]
  <2>3. results = {shown(b, r) : b \in mine, r \in {0, 1}}
    BY DEF query_range
  <2>4. result(s) = shown(a, s)
    OBVIOUS
  <2> HIDE DEF mine, shown, result, results
  <2> QED BY <2>2, <2>3, <2>4 DEF mine
<1>3. \A r \in results : result_labels(r) = a => \E s \in {0, 1} : r = result(s)
  <2>1. SUFFICES ASSUME NEW r \in results, result_labels(r) = a
                 PROVE  \E s \in {0, 1} : r = result(s)
    OBVIOUS
  <2>2. PICK c \in {b \in Alerts : TaskOf(b) = TaskOf(a)}, s \in {0, 1} :
          r = [alert |-> c, source |-> s,
               values |-> {t \in active[c] : t \in start..end /\ (t - start) % Step = 0 /\ Source(c, t) = s}]
    BY DEF query_range
  <2>3. c = a
    BY <2>1, <2>2 DEF result_labels
  <2> QED BY <2>2, <2>3
<1>4. \A s \in {0, 1} : result_labels(result(s)) = a /\ result(s).values = values(s)
  BY DEF result_labels
<1>5. \A i : i \in active_indices(results, a) <=> \E s \in {0, 1} : \E t \in values(s) : i = (t - start) \div Step
  <2>1. \A i : i \in active_indices(results, a) <=>
          \E r \in results : result_labels(r) = a /\ \E t \in r.values : i = (t - start) \div Step
    BY DEF active_indices
  <2> HIDE DEF results, result, values
  <2> QED BY <1>2, <1>3, <1>4, <2>1, Zenon
<1>6. ASSUME NEW t \in active[a], t \in start..end, (t - start) % Step = 0
      PROVE  (t - start) \div Step \in Shown(a)
  <2> DEFINE i == (t - start) \div Step
  <2>1. t - start \in Nat
    BY <1>1, <1>6
  <2>2. i \in Nat /\ t - start = i * Step
    <3>1. i \in Nat /\ t - start = i * Step + 0
      <4>1. i \in Nat /\ t - start = i * Step + ((t - start) % Step)
        BY <2>1, Multiples, Zenon
      <4> QED BY <1>6, <4>1, Zenon
    <3>2. i * Step \in Int
      BY <3>1, Products
    <3> HIDE DEF i
    <3> QED BY <3>1, <3>2
  <2> HIDE DEF i
  <2>3. i * Step < Last * Step + Step /\ Last \in Nat
    BY <1>1, <1>6, <2>2, Window, WindowAssumption DEF start
  <2>4. i <= Last
    BY <2>2, <2>3, Products
  <2>5. Instant(i) = t
    BY <1>1, <1>6, <2>2 DEF Instant
  <2> QED BY <2>2, <2>3, <2>4, <2>5 DEF Shown, i
<1>7. ASSUME NEW i \in Shown(a)
      PROVE  Instant(i) \in active[a] /\ Instant(i) \in start..end /\ (Instant(i) - start) % Step = 0
             /\ i = (Instant(i) - start) \div Step
  <2>1. i \in 0..Last /\ i \in Nat /\ Instant(i) \in active[a] /\ Instant(i) \in start..end
    <3>1. i \in 0..Last /\ Instant(i) \in active[a]
      BY DEF Shown
    <3>2. Instant(i) \in start..end
      BY <3>1, Instants, Zenon
    <3> QED BY <3>1, <3>2, Window
  <2>2. Instant(i) - start = i * Step
    <3>1. i * Step \in Int
      BY <2>1, Products
    <3> QED BY <1>1, <3>1 DEF Instant
  <2> QED BY <2>1, <2>2, Quotient
<1>8. \A t : Source(a, t) \in {0, 1} \/ t \notin Nat
  <2>1. ASSUME NEW t \in Nat PROVE Source(a, t) \in {0, 1}
    <3>1. t \div Step \in Nat
      BY Multiples
    <3> QED BY <3>1 DEF Source
  <2> QED BY <2>1
<1>9. \A i : i \in active_indices(results, a) => i \in Shown(a)
  BY <1>5, <1>6
<1>10. \A i : i \in Shown(a) => i \in active_indices(results, a)
  <2>1. SUFFICES ASSUME NEW i \in Shown(a) PROVE \E s \in {0, 1} : \E t \in values(s) : i = (t - start) \div Step
    BY <1>5
  <2>2. Instant(i) \in Nat
    BY <1>7
  <2>3. Source(a, Instant(i)) \in {0, 1}
    BY <1>8, <2>2
  <2>4. Instant(i) \in values(Source(a, Instant(i)))
    BY <1>7
  <2> QED BY <1>7, <2>3, <2>4
<1> HIDE DEF results
<1>11. active_indices(results, a) = Shown(a)
  BY <1>9, <1>10
<1> QED BY <1>11 DEF results

\* The runs of a finite set of indices.
LEMMA IndexRuns ==
    ASSUME NEW n \in Nat, NEW I, I \subseteq 0..n
    PROVE  /\ IsFiniteSet(RunsIn(I)) /\ Cardinality(RunsIn(I)) \in Nat
           /\ Longest(RunsIn(I)) \in Nat
           /\ \A r \in RunsIn(I) : r[2] - r[1] + 1 <= Longest(RunsIn(I))
           /\ Longest(RunsIn(I)) # 0 => \E r \in RunsIn(I) : Longest(RunsIn(I)) = r[2] - r[1] + 1
<1> DEFINE runs == RunsIn(I)
           lengths == {r[2] - r[1] + 1 : r \in runs} \union {0}
<1>1. IsFiniteSet(runs)
  <2>1. IsFiniteSet(0..n)
    BY FS_Interval
  <2>2. IsFiniteSet((0..n) \X (0..n))
    BY <2>1, FS_Product
  <2>3. runs \subseteq (0..n) \X (0..n)
    BY DEF RunsIn
  <2> QED BY <2>2, <2>3, FS_Subset
<1>2. Cardinality(runs) \in Nat
  BY <1>1, FS_CardinalityType
<1>3. \A r \in runs : r[2] - r[1] + 1 \in 0..n + 1
  <2>1. SUFFICES ASSUME NEW r \in runs PROVE r[2] - r[1] + 1 \in 0..n + 1
    OBVIOUS
  <2>2. r[1] \in I /\ r[2] \in I /\ r[1] <= r[2]
    BY RunParts
  <2>3. r[1] \in 0..n /\ r[2] \in 0..n
    BY <2>2
  <2> QED BY <2>2, <2>3
<1>4. lengths \subseteq 0..n + 1 /\ lengths # {}
  <2> HIDE DEF runs
  <2> QED BY <1>3
<1>5. Max(lengths) \in lengths /\ \A x \in lengths : x <= Max(lengths)
  <2> HIDE DEF lengths
  <2>1. n + 1 \in Nat
    OBVIOUS
  <2> QED BY <1>4, <2>1, LargestNatural
<1>6. Longest(runs) = Max(lengths)
  BY DEF Longest
<1> HIDE DEF runs
<1> QED BY <1>1, <1>2, <1>4, <1>5, <1>6 DEF runs

LEMMA MaxOfTwo ==
    ASSUME NEW x \in Int
    PROVE  Max({0, x}) \in {0, x} /\ Max({0, x}) >= 0 /\ Max({0, x}) >= x
<1>1. \E m \in {0, x} : \A y \in {0, x} : m >= y
  BY x >= 0 \/ 0 >= x
<1> QED BY <1>1 DEF Max

\* What the tool reports, in terms of the samples: at least two runs of them,
\* none at the edge of the window, each shorter than "for" and one as long as
\* the least that is asked for.
Reportable(a) ==
    /\ For[a[2]] > 0
    /\ Cardinality(RunsIn(Shown(a))) >= 2
    /\ \A r \in RunsIn(Shown(a)) : (r[2] - r[1]) * Step < For[a[2]]
    /\ 0 \notin Shown(a) /\ Last \notin Shown(a)
    /\ MinActive = 0 \/ \E r \in RunsIn(Shown(a)) : (r[2] - r[1]) * Step >= MinActive

LEMMA CensoredAtTheEdges ==
    ASSUME NEW a
    PROVE  Censored(RunsIn(Shown(a))) <=> 0 \in Shown(a) \/ Last \in Shown(a)
<1> DEFINE I == Shown(a)
<1>1. Last \in Nat /\ sample_count - 1 = Last /\ I \subseteq 0..Last
  BY Window DEF Shown
<1> HIDE DEF I
<1>2. ASSUME NEW r \in RunsIn(I), r[1] = 0 \/ r[2] = Last
      PROVE  0 \in I \/ Last \in I
  <2>1. I \subseteq Nat
    BY <1>1
  <2> QED BY <1>2, <2>1, RunParts
<1>3. ASSUME 0 \in I PROVE \E r \in RunsIn(I) : r[1] = 0
  <2>1. 0 \in Nat /\ 0 <= 0 /\ 0..0 \subseteq I
    BY <1>3
  <2>2. PICK r \in RunsIn(I) : r[1] <= 0 /\ 0 <= r[2]
    BY <1>1, <2>1, RunAround, Zenon
  <2>3. r[1] \in Nat
    BY <1>1, RunParts
  <2> QED BY <2>2, <2>3
<1>4. ASSUME Last \in I PROVE \E r \in RunsIn(I) : r[2] = Last
  <2>1. Last \in Nat /\ Last <= Last /\ Last..Last \subseteq I
    BY <1>1, <1>4
  <2>2. PICK r \in RunsIn(I) : r[1] <= Last /\ Last <= r[2]
    BY <1>1, <2>1, RunAround, Zenon
  <2>3. r[2] \in 0..Last
    BY <1>1, RunParts
  <2> QED BY <1>1, <2>2, <2>3
<1> QED BY <1>1, <1>2, <1>3, <1>4 DEF Censored, I

LEMMA CandidatesAreReportable ==
    ASSUME NEW a \in Alerts
    PROVE  is_candidate(a[2], measure_runs(Shown(a))) <=> Reportable(a)
<1> DEFINE I == Shown(a)
           runs == RunsIn(I)
           L == Longest(runs)
           M == Max({0, (L - 1) * Step})
           F == For[a[2]]
<1>1. F \in Nat /\ MinActive \in Nat /\ Step \in Nat \ {0}
  BY AlertsAssumption, WindowAssumption
<1>2. Last \in Nat /\ I \subseteq 0..Last
  BY Window DEF Shown
<1>3. /\ Cardinality(runs) \in Nat /\ L \in Nat
      /\ \A r \in runs : r[2] - r[1] + 1 <= L
      /\ L # 0 => \E r \in runs : L = r[2] - r[1] + 1
  <2> HIDE DEF I
  <2> QED BY <1>2, IndexRuns
<1>4. \A r \in runs : r[1] \in Nat /\ r[2] \in Nat
  BY <1>2, RunParts
<1>5. is_candidate(a[2], measure_runs(I)) <=>
        /\ F > 0 /\ Cardinality(runs) >= 2 /\ M < F
        /\ ~Censored(runs) /\ M >= MinActive
  <2> DEFINE m == measure_runs(I)
  <2>1. m.active_runs = Cardinality(runs) /\ m.longest = L /\ m.duration_censored = Censored(runs)
    BY DEF measure_runs
  <2>2. M \in Int
    <3>1. (L - 1) * Step \in Int
      BY <1>1, <1>3
    <3> QED BY <3>1, MaxOfTwo
  <2>3. max_active(m) = M
    BY <2>1 DEF max_active
  <2>4. is_candidate(a[2], m) <=>
          classification(a[2], m) = "never-sustained" /\ M >= MinActive
    BY <2>3 DEF is_candidate
  <2>5. classification(a[2], m) =
          IF F <= 0 \/ Cardinality(runs) < 2 \/ M >= F THEN "none"
          ELSE IF Censored(runs) THEN "range-censored" ELSE "never-sustained"
    BY <2>1, <2>3, Zenon DEF classification
  <2> HIDE DEF m, M, F, runs
  <2>6. classification(a[2], m) = "never-sustained" <=>
          ~(F <= 0 \/ Cardinality(runs) < 2 \/ M >= F) /\ ~Censored(runs)
    BY <2>5
  <2> QED BY <1>1, <1>3, <2>2, <2>4, <2>6 DEF m
<1>6. Censored(runs) <=> 0 \in I \/ Last \in I
  BY CensoredAtTheEdges
<1> HIDE DEF I, runs, L, F
<1>7. M \in {0, (L - 1) * Step} /\ M >= 0 /\ M >= (L - 1) * Step /\ (L - 1) * Step \in Int
  <2>1. (L - 1) * Step \in Int
    BY <1>1, <1>3
  <2> HIDE DEF M
  <2> QED BY <2>1, MaxOfTwo DEF M
<1> HIDE DEF M
<1>8. ASSUME NEW r \in runs
      PROVE  (r[2] - r[1]) * Step \in Int /\ (r[2] - r[1]) * Step <= M
  <2>1. r[2] - r[1] \in Int /\ L - 1 \in Int /\ r[2] - r[1] <= L - 1
    BY <1>3, <1>4
  <2>2. (r[2] - r[1]) * Step <= (L - 1) * Step /\ (r[2] - r[1]) * Step \in Int
    BY <2>1, Products
  <2> QED BY <1>7, <2>2
<1>9. M = 0 \/ \E r \in runs : M = (r[2] - r[1]) * Step
  <2>1. SUFFICES ASSUME M # 0 PROVE \E r \in runs : M = (r[2] - r[1]) * Step
    OBVIOUS
  <2>2. M = (L - 1) * Step
    BY <1>7, <2>1
  <2>3. L # 0
    <3>1. (0 - 1) * Step < 0
      BY <1>1
    <3> QED BY <1>7, <2>1, <2>2, <3>1
  <2>4. PICK r \in runs : L = r[2] - r[1] + 1
    BY <1>3, <2>3
  <2>5. L - 1 = r[2] - r[1]
    BY <1>3, <1>4, <2>4
  <2> QED BY <2>2, <2>5
<1>10. F > 0 => (M < F <=> \A r \in runs : (r[2] - r[1]) * Step < F)
  <2>1. M \in Int
    BY <1>7
  <2>2. ASSUME M < F, NEW r \in runs PROVE (r[2] - r[1]) * Step < F
    BY <1>1, <1>8, <2>1, <2>2
  <2> QED BY <1>1, <1>9, <2>1, <2>2
<1>11. M >= MinActive <=> MinActive = 0 \/ \E r \in runs : (r[2] - r[1]) * Step >= MinActive
  <2>1. M \in Int
    BY <1>7
  <2>2. ASSUME NEW r \in runs, (r[2] - r[1]) * Step >= MinActive PROVE M >= MinActive
    BY <1>1, <1>8, <2>1, <2>2
  <2> QED BY <1>1, <1>7, <1>9, <2>1, <2>2
<1> QED BY <1>5, <1>6, <1>10, <1>11, Zenon DEF Reportable, I, runs, F

\* The sample at or before an instant of the window, and the one at or behind it.
LEMMA SampleBelow ==
    ASSUME end \in Nat, end >= Lookback, NEW x \in start..end
    PROVE  \E i \in 0..Last : Instant(i) <= x /\ x < Instant(i) + Step
<1> DEFINE i == (x - start) \div Step
<1>1. start \in Nat /\ x - start \in Nat /\ Step \in Nat /\ Last \in Nat /\ x <= end
      /\ Instant(Last) = end
  <2>1. start \in Nat /\ Instant(Last) = end
    BY Instants
  <2>2. Step \in Nat /\ Last \in Nat
    BY Window, WindowAssumption
  <2> QED BY <2>1, <2>2
<1>2. i \in Nat /\ (x - start) % Step \in 0..Step - 1 /\ x - start = i * Step + ((x - start) % Step)
  BY <1>1, Multiples, Zenon
<1> HIDE DEF i
<1>3. i * Step \in Int
  BY <1>2, Products
<1>4. Instant(i) <= x /\ x < Instant(i) + Step
  BY <1>1, <1>2, <1>3 DEF Instant
<1>5. i <= Last
  <2>1. SUFFICES ASSUME i > Last PROVE FALSE
    BY <1>1, <1>2
  <2>2. i \in Int /\ Last + 1 \in Int /\ Last + 1 <= i /\ Last \in Int
    BY <1>1, <1>2, <2>1
  <2>3. Instant(Last + 1) <= Instant(i) /\ Instant(Last + 1) = Instant(Last) + Step
        /\ Instant(i) \in Int /\ Instant(Last) \in Int
    BY <2>2, Instants
  <2>4. Step > 0
    BY WindowAssumption
  <2> QED BY <1>1, <1>4, <2>3, <2>4
<1> QED BY <1>2, <1>4, <1>5, <1>1

LEMMA SampleAbove ==
    ASSUME end \in Nat, end >= Lookback, NEW x \in start + 1..end
    PROVE  \E i \in 0..Last : x <= Instant(i) /\ Instant(i) < x + Step
<1>1. start \in Nat /\ x - 1 \in start..end /\ Step \in Nat /\ Last \in Nat /\ Instant(Last) = end
  <2>1. start \in Nat /\ Step \in Nat /\ Last \in Nat /\ Instant(Last) = end
    BY Instants, Window, WindowAssumption
  <2> QED BY <2>1
<1>2. PICK j \in 0..Last : Instant(j) <= x - 1 /\ x - 1 < Instant(j) + Step
  BY <1>1, SampleBelow
<1>3. Instant(j + 1) = Instant(j) + Step /\ Instant(j) \in Int
  BY Instants
<1>4. j # Last
  BY <1>1, <1>2
<1>5. j + 1 \in 0..Last
  BY <1>1, <1>4
<1> QED BY <1>1, <1>2, <1>3, <1>5

\* What the theorems assume of a: its evaluations lie in the past.
Watched(a) == a \in Alerts /\ end \in Nat /\ end >= Lookback /\ active[a] \subseteq 0..now
              /\ now \in Nat /\ before[a] \in Nat

\* A stretch that touches the window, whose ends are quiet, lies inside it.
LEMMA StretchInside ==
    ASSUME NEW a, Watched(a), start \notin active[a], end \notin active[a], NEW r \in Stretches(a)
    PROVE  /\ r \in RunsIn(active[a]) /\ r[1] \in Nat /\ r[2] \in Nat
           /\ start < r[1] /\ r[1] <= r[2] /\ r[2] < end
           /\ SpanOf(a, r) = r[2] - r[1]
<1>1. start \in Nat /\ end \in Nat /\ active[a] \subseteq Nat
  BY Instants DEF Watched
<1>2. r \in RunsIn(active[a]) /\ r[2] >= start /\ r[1] <= end
  BY DEF Stretches
<1>3. /\ r[1] \in Nat /\ r[2] \in Nat /\ r[1] <= r[2]
      /\ \A x \in Nat : r[1] <= x /\ x <= r[2] => x \in active[a]
  BY <1>1, <1>2, RunParts
<1>4. start < r[1] /\ r[2] < end
  BY <1>1, <1>2, <1>3
<1> QED BY <1>1, <1>2, <1>3, <1>4 DEF SpanOf

\* The samples at which a was shown between two instants of one stretch.
LEMMA SamplesOfAStretch ==
    ASSUME NEW a, Watched(a), NEW r \in RunsIn(active[a]), NEW i \in 0..Last, NEW j \in 0..Last, i <= j,
           r[1] <= Instant(i), Instant(j) <= r[2]
    PROVE  \E q \in RunsIn(Shown(a)) : q[1] <= i /\ j <= q[2]
<1>1. Last \in Nat /\ active[a] \subseteq Nat
  BY Window DEF Watched
<1>2. Shown(a) \subseteq 0..Last
  BY DEF Shown
<1>3. r[1] \in Nat /\ r[2] \in Nat /\ \A x \in Nat : r[1] <= x /\ x <= r[2] => x \in active[a]
  BY <1>1, RunParts
<1>4. ASSUME NEW k \in i..j PROVE k \in Shown(a)
  <2>1. k \in 0..Last /\ k \in Int /\ i <= k /\ k <= j
    BY <1>1
  <2>2. Instant(i) <= Instant(k) /\ Instant(k) <= Instant(j) /\ Instant(k) \in Nat
        /\ Instant(i) \in Nat /\ Instant(j) \in Nat
    <3>1. start \in Nat /\ end \in Nat /\ end >= Lookback
      BY Instants DEF Watched
    <3>2. Instant(i) \in start..end /\ Instant(j) \in start..end /\ Instant(k) \in start..end
      BY <2>1, <3>1, Instants
    <3>3. Instant(i) <= Instant(k) /\ Instant(k) <= Instant(j)
      BY <2>1, <3>1, Instants
    <3> QED BY <3>1, <3>2, <3>3
  <2>3. Instant(k) \in active[a]
    BY <1>3, <2>2
  <2> QED BY <2>1, <2>3 DEF Shown
<1>5. i \in Nat /\ j \in Nat /\ i..j \subseteq Shown(a)
  BY <1>1, <1>4
<1> QED BY <1>1, <1>2, <1>5, RunAround

LEMMA QuietEdges ==
    ASSUME NEW a, Watched(a)
    PROVE  /\ 0 \notin Shown(a) <=> start \notin active[a]
           /\ Last \notin Shown(a) <=> end \notin active[a]
<1>1. Last \in Nat /\ 0 \in 0..Last /\ Last \in 0..Last
  BY Window
<1>2. Instant(0) = start /\ Instant(Last) = end
  BY Instants DEF Watched
<1> QED BY <1>1, <1>2 DEF Shown

LEMMA ReportableFellShort ==
    ASSUME NEW a, Watched(a), Reportable(a), NEW r \in Stretches(a)
    PROVE  SpanOf(a, r) < For[a[2]] + 2 * (Step - 1)
<1> DEFINE F == For[a[2]]
<1>1. start \notin active[a] /\ end \notin active[a]
  BY QuietEdges DEF Reportable
<1>2. /\ r \in RunsIn(active[a]) /\ r[1] \in Nat /\ r[2] \in Nat
      /\ start < r[1] /\ r[1] <= r[2] /\ r[2] < end
      /\ SpanOf(a, r) = r[2] - r[1]
  BY <1>1, StretchInside
<1>3. start \in Nat /\ end \in Nat /\ end >= Lookback /\ Step \in Nat \ {0} /\ Last \in Nat
      /\ F \in Nat \ {0}
  <2>1. F \in Nat /\ F > 0
    BY AlertsAssumption DEF Watched, Reportable
  <2>2. start \in Nat /\ end \in Nat /\ end >= Lookback
    BY Instants DEF Watched
  <2> HIDE DEF F
  <2> QED BY <2>1, <2>2, Window, WindowAssumption
<1>4. PICK i \in 0..Last : r[1] <= Instant(i) /\ Instant(i) < r[1] + Step
  <2>1. r[1] \in start + 1..end
    BY <1>2, <1>3
  <2> QED BY <1>3, <2>1, SampleAbove
<1>5. PICK j \in 0..Last : Instant(j) <= r[2] /\ r[2] < Instant(j) + Step
  <2>1. r[2] \in start..end
    BY <1>2, <1>3
  <2> QED BY <1>3, <2>1, SampleBelow
<1>6. Instant(i) \in Int /\ Instant(j) \in Int
  <2>1. i \in Int /\ j \in Int
    OBVIOUS
  <2> QED BY <1>3, <2>1, Instants
<1>7. CASE i <= j
  <2>1. PICK q \in RunsIn(Shown(a)) : q[1] <= i /\ j <= q[2]
    BY <1>2, <1>4, <1>5, <1>7, SamplesOfAStretch
  <2>2. (q[2] - q[1]) * Step < F
    BY <2>1 DEF Reportable
  <2>3. q[1] \in Nat /\ q[2] \in Nat
    <3>1. Shown(a) \subseteq Nat
      BY DEF Shown
    <3> QED BY <3>1, RunParts
  <2>4. (j - i) * Step <= (q[2] - q[1]) * Step /\ (q[2] - q[1]) * Step \in Int /\ (j - i) * Step \in Int
    <3>1. j - i \in Int /\ q[2] - q[1] \in Int /\ j - i <= q[2] - q[1]
      BY <2>1, <2>3
    <3> QED BY <3>1, Products
  <2>5. Instant(j) - Instant(i) = (j - i) * Step
    <3>1. i * Step \in Int /\ j * Step \in Int /\ (j - i) * Step = j * Step - i * Step
      BY Products
    <3> QED BY <1>3, <3>1 DEF Instant
  <2> HIDE DEF F
  <2>6. r[2] - r[1] < F + 2 * (Step - 1)
    BY <1>2, <1>3, <1>4, <1>5, <1>6, <2>2, <2>4, <2>5
  <2> QED BY <1>2, <2>6 DEF F
<1>8. CASE j < i
  <2>1. Instant(j + 1) <= Instant(i) /\ Instant(j + 1) = Instant(j) + Step
    <3>1. j + 1 \in Int /\ i \in Int /\ j \in Int /\ j + 1 <= i
      BY <1>8
    <3> QED BY <1>3, <3>1, Instants
  <2> HIDE DEF F
  <2>2. r[2] - r[1] < F + 2 * (Step - 1)
    BY <1>2, <1>3, <1>4, <1>5, <1>6, <2>1
  <2> QED BY <1>2, <2>2 DEF F
<1> QED BY <1>7, <1>8

\* With no gap that a sample can miss, the samples of a run lie in one stretch.
LEMMA RunInAStretch ==
    ASSUME NEW a, Watched(a),
           \A r, s \in Stretches(a) : r[2] < s[1] => r[2] + Step < s[1],
           NEW q \in RunsIn(Shown(a))
    PROVE  \E r \in Stretches(a) : \A k \in q[1]..q[2] : r[1] <= Instant(k) /\ Instant(k) <= r[2]
<1>1. /\ Last \in Nat /\ active[a] \subseteq 0..now /\ active[a] \subseteq Nat /\ now \in Nat
      /\ start \in Nat /\ end \in Nat /\ end >= Lookback /\ Step \in Nat \ {0}
  <2>1. active[a] \subseteq 0..now /\ now \in Nat /\ end \in Nat /\ end >= Lookback
    BY DEF Watched
  <2>2. active[a] \subseteq Nat
    BY <2>1
  <2>3. start \in Nat
    BY <2>1, Instants
  <2> QED BY <2>1, <2>2, <2>3, Window, WindowAssumption
<1>2. /\ q[1] \in Nat /\ q[2] \in Nat /\ q[1] <= q[2]
      /\ \A k \in q[1]..q[2] : k \in Shown(a)
  <2>1. Shown(a) \subseteq Nat
    BY DEF Shown
  <2> QED BY <2>1, RunParts
<1>3. ASSUME NEW k \in q[1]..q[2]
      PROVE  k \in Int /\ Instant(k) \in active[a] /\ Instant(k) \in Nat /\ Instant(k) \in start..end
  <2>1. k \in 0..Last /\ Instant(k) \in active[a]
    BY <1>2 DEF Shown
  <2>2. Instant(k) \in start..end
    BY <1>1, <2>1, Instants
  <2> QED BY <1>1, <2>1, <2>2
<1>4. ASSUME NEW k \in q[1]..q[2]
      PROVE  \E r \in Stretches(a) : r[1] <= Instant(k) /\ Instant(k) <= r[2]
  <2> DEFINE x == Instant(k)
  <2>1. x \in Nat /\ x <= x /\ x..x \subseteq active[a] /\ start <= x /\ x <= end
    <3>1. x \in Nat /\ x \in active[a] /\ x \in start..end
      BY <1>3
    <3> HIDE DEF x
    <3> QED BY <3>1, <1>1
  <2> HIDE DEF x
  <2>2. PICK r \in RunsIn(active[a]) : r[1] <= x /\ x <= r[2]
    BY <1>1, <2>1, RunAround, Zenon
  <2>3. r[1] \in Nat /\ r[2] \in Nat
    BY <1>1, RunParts
  <2>4. r \in Stretches(a)
    BY <1>1, <2>1, <2>2, <2>3 DEF Stretches
  <2> QED BY <2>2, <2>4 DEF x
<1>5. q[1] \in q[1]..q[2]
  BY <1>2
<1>6. PICK r \in Stretches(a) : r[1] <= Instant(q[1]) /\ Instant(q[1]) <= r[2]
  BY <1>4, <1>5
<1>7. r[1] \in Nat /\ r[2] \in Nat
  BY <1>1, RunParts DEF Stretches
<1> DEFINE T == {k \in q[1]..q[2] : ~(r[1] <= Instant(k) /\ Instant(k) <= r[2])}
<1>8. T = {}
  <2>1. SUFFICES ASSUME T # {} PROVE FALSE
    OBVIOUS
  <2>2. PICK k \in T : \A j \in T : k <= j
    <3>1. T \in SUBSET Nat
      BY <1>2
    <3> HIDE DEF T
    <3> QED BY <2>1, <3>1, LeastNatural
  <2>3. k # q[1] /\ k \in q[1]..q[2]
    BY <1>6, <2>2
  <2>4. k - 1 \in q[1]..q[2] /\ k - 1 \notin T
    <3>1. k - 1 \in q[1]..q[2] /\ k \in Int
      BY <1>2, <2>3
    <3>2. ~(k <= k - 1)
      BY <3>1
    <3> HIDE DEF T
    <3> QED BY <2>2, <3>1, <3>2
  <2>5. r[1] <= Instant(k - 1) /\ Instant(k - 1) <= r[2]
    BY <2>4
  <2>6. Instant(k) = Instant(k - 1) + Step
    <3>1. k - 1 \in Int /\ (k - 1) + 1 = k
      BY <2>4, <2>3, <1>2
    <3> QED BY <1>1, <3>1, Instants
  <2>7. PICK s \in Stretches(a) : s[1] <= Instant(k) /\ Instant(k) <= s[2]
    BY <1>4, <2>3
  <2>8. s[1] \in Nat /\ s[2] \in Nat /\ Instant(k) \in Nat /\ Instant(k - 1) \in Nat
    BY <1>1, <1>3, <2>3, <2>4, RunParts DEF Stretches
  <2>9. r[2] < Instant(k) /\ r[1] <= Instant(k)
    BY <1>1, <1>7, <2>2, <2>5, <2>6, <2>8
  <2>10. ~(r[2] < s[1])
    BY <1>1, <1>7, <2>5, <2>6, <2>7, <2>8
  <2>11. r = s
    <3>1. r \in RunsIn(active[a]) /\ s \in RunsIn(active[a])
      BY DEF Stretches
    <3>2. r[2] \in Nat /\ r[1] <= r[2] /\ r[2] <= r[2] /\ s[1] <= r[2] /\ r[2] <= s[2]
      <4>1. r[1] <= r[2]
        BY <1>1, <3>1, RunParts
      <4> QED BY <1>7, <2>7, <2>8, <2>9, <2>10, <4>1
    <3> QED BY <1>1, <3>1, <3>2, RunsApart
  <2> QED BY <1>7, <2>7, <2>8, <2>9, <2>11
<1> QED BY <1>8

\* A stretch of m + 1 samples' length shows at least m steps.
LEMMA StretchShows ==
    ASSUME NEW a, Watched(a), start \notin active[a], end \notin active[a], NEW r \in Stretches(a),
           NEW m \in Nat, Evaluations(r) >= m * Step + Step
    PROVE  \E i \in 0..Last : /\ i + m \in 0..Last /\ r[1] <= Instant(i) /\ Instant(i + m) <= r[2]
                              /\ \E q \in RunsIn(Shown(a)) : q[1] <= i /\ i + m <= q[2]
<1>1. /\ r \in RunsIn(active[a]) /\ r[1] \in Nat /\ r[2] \in Nat
      /\ start < r[1] /\ r[1] <= r[2] /\ r[2] < end
  BY StretchInside
<1>2. start \in Nat /\ end \in Nat /\ end >= Lookback /\ Step \in Nat \ {0} /\ Last \in Nat /\ m * Step \in Nat
      /\ Instant(Last) = end
  BY Window, Instants, WindowAssumption DEF Watched
<1>3. PICK i \in 0..Last : r[1] <= Instant(i) /\ Instant(i) < r[1] + Step
  <2>1. r[1] \in start + 1..end
    BY <1>1, <1>2
  <2> QED BY <1>2, <2>1, SampleAbove
<1>4. Instant(i + m) = Instant(i) + m * Step /\ Instant(i) \in Int /\ i + m \in Nat
  <2>1. i \in Int /\ i + m \in Nat /\ (i + m) - i = m
    BY <1>2
  <2>2. i * Step \in Int /\ (i + m) * Step \in Int
    BY <2>1, Products
  <2>3. (i + m) * Step = i * Step + m * Step
    BY <1>2, <2>1
  <2> HIDE DEF Instant
  <2>4. Instant(i + m) = start + (i + m) * Step /\ Instant(i) = start + i * Step
    BY DEF Instant
  <2> QED BY <1>2, <2>1, <2>2, <2>3, <2>4
<1>5. Instant(i + m) <= r[2]
  <2>1. r[2] - r[1] + 1 >= m * Step + Step
    BY DEF Evaluations
  <2> QED BY <1>1, <1>2, <1>3, <1>4, <2>1
<1>6. i + m <= Last
  <2>1. SUFFICES ASSUME Last < i + m PROVE FALSE
    BY <1>2, <1>4
  <2>2. Instant(Last) <= Instant(i + m)
    <3>1. Last \in Int /\ i + m \in Int /\ Last <= i + m
      BY <1>2, <1>4, <2>1
    <3> QED BY <1>2, <3>1, Instants
  <2> QED BY <1>1, <1>2, <1>4, <1>5, <2>2
<1>7. i + m \in 0..Last /\ i <= i + m
  BY <1>2, <1>4, <1>6
<1>8. \E q \in RunsIn(Shown(a)) : q[1] <= i /\ i + m <= q[2]
  BY <1>1, <1>3, <1>5, <1>7, SamplesOfAStretch
<1> QED BY <1>3, <1>5, <1>7, <1>8

LEMMA FlapsAreReportable ==
    ASSUME NEW a, Watched(a), start \notin active[a], end \notin active[a],
           \A x, y \in Stretches(a) : x[2] < y[1] => x[2] + Step < y[1],
           \A x \in Stretches(a) : SpanOf(a, x) < For[a[2]],
           NEW r \in Stretches(a), NEW s \in Stretches(a), r # s,
           Evaluations(r) >= MinShown + Step, Evaluations(s) >= Step
    PROVE  Reportable(a)
<1> DEFINE F == For[a[2]]
           runs == RunsIn(Shown(a))
<1>1. /\ Step \in Nat \ {0} /\ MinActive \in Nat /\ Last \in Nat /\ F \in Nat
      /\ active[a] \subseteq Nat /\ end \in Nat /\ end >= Lookback /\ start \in Nat
  <2>1. F \in Nat
    BY AlertsAssumption DEF Watched
  <2>2. end \in Nat /\ end >= Lookback /\ active[a] \subseteq Nat
    BY DEF Watched
  <2>3. start \in Nat
    BY <2>2, Instants
  <2> HIDE DEF F
  <2> QED BY <2>1, <2>2, <2>3, Window, WindowAssumption
<1>2. PICK m \in Nat : MinShown = m * Step /\ m * Step >= MinActive
  <2> DEFINE d == MinActive + Step - 1
             m == d \div Step
  <2>1. d \in Nat /\ d = MinActive + Step - 1
    BY <1>1
  <2> HIDE DEF d
  <2>2. m \in Nat /\ d % Step \in 0..Step - 1 /\ d = m * Step + (d % Step)
    BY <2>1, Multiples, Zenon
  <2>3. MinShown = m * Step
    BY Zenon DEF MinShown, d
  <2> HIDE DEF m
  <2>4. m * Step \in Int
    BY <2>2, Products
  <2>5. m * Step >= MinActive
    BY <1>1, <2>1, <2>2, <2>4
  <2> QED BY <2>2, <2>3, <2>5
<1>3. PICK i \in 0..Last, q \in runs :
        r[1] <= Instant(i) /\ Instant(i + m) <= r[2] /\ i + m \in 0..Last /\ q[1] <= i /\ i + m <= q[2]
  <2>1. Evaluations(r) >= m * Step + Step
    BY <1>2
  <2> QED BY <2>1, StretchShows
<1>4. PICK j \in 0..Last, p \in runs : s[1] <= Instant(j) /\ Instant(j) <= s[2] /\ p[1] <= j /\ j <= p[2]
  <2>1. Evaluations(s) >= 0 * Step + Step /\ 0 \in Nat
    BY <1>1
  <2>2. \E k \in 0..Last : /\ k + 0 \in 0..Last /\ s[1] <= Instant(k) /\ Instant(k + 0) <= s[2]
                           /\ \E x \in RunsIn(Shown(a)) : x[1] <= k /\ k + 0 <= x[2]
    BY <2>1, StretchShows, Zenon
  <2>3. \A k \in 0..Last : k + 0 = k
    BY <1>1
  <2> QED BY <2>2, <2>3
<1>5. \A x \in runs : x[1] \in Nat /\ x[2] \in Nat /\ x[1] <= x[2]
  <2>1. Shown(a) \subseteq Nat
    BY DEF Shown
  <2> QED BY <2>1, RunParts
<1>6. \A x \in Stretches(a) : /\ x \in RunsIn(active[a]) /\ x[1] \in Nat /\ x[2] \in Nat /\ x[1] <= x[2]
                              /\ SpanOf(a, x) = x[2] - x[1]
  BY StretchInside
<1>7. \A k \in 0..Last : Instant(k) \in Nat
  <2>1. \A k \in 0..Last : Instant(k) \in start..end
    BY <1>1, Instants, Zenon
  <2> QED BY <1>1, <2>1
<1>8. q # p
  <2>1. SUFFICES ASSUME q = p PROVE FALSE
    OBVIOUS
  <2>2. PICK t \in Stretches(a) : \A k \in q[1]..q[2] : t[1] <= Instant(k) /\ Instant(k) <= t[2]
    BY RunInAStretch
  <2>3. i \in q[1]..q[2] /\ j \in q[1]..q[2]
    BY <1>1, <1>2, <1>3, <1>4, <1>5, <2>1
  <2>4. Instant(i) <= r[2]
    <3>1. Instant(i) <= Instant(i + m) /\ Instant(i) \in Nat /\ Instant(i + m) \in Nat
      <4>1. i \in Int /\ i + m \in Int /\ i <= i + m
        BY <1>1, <1>2
      <4> QED BY <1>1, <1>3, <1>7, <4>1, Instants
    <3> QED BY <1>3, <1>6, <3>1
  <2>5. t = r
    <3>1. Instant(i) \in Nat /\ r[1] <= Instant(i) /\ t[1] <= Instant(i) /\ Instant(i) <= t[2]
      BY <1>3, <1>7, <2>2, <2>3
    <3> QED BY <1>1, <1>6, <2>4, <3>1, RunsApart
  <2>6. t = s
    <3>1. Instant(j) \in Nat /\ t[1] <= Instant(j) /\ Instant(j) <= t[2]
      BY <1>7, <2>2, <2>3
    <3> QED BY <1>1, <1>4, <1>6, <3>1, RunsApart
  <2> QED BY <2>5, <2>6
<1>9. Cardinality(runs) >= 2
  <2>1. IsFiniteSet(runs) /\ Cardinality(runs) \in Nat
    <3>1. Shown(a) \subseteq 0..Last
      BY DEF Shown
    <3> QED BY <1>1, <3>1, IndexRuns
  <2> HIDE DEF runs
  <2>2. Cardinality({q}) = 1 /\ IsFiniteSet({q})
    BY FS_Singleton
  <2>3. Cardinality({q} \union {p}) = Cardinality({q}) + 1
    BY <1>8, <2>2, FS_AddElement
  <2>4. Cardinality({q} \union {p}) <= Cardinality(runs)
    BY <2>1, FS_Subset
  <2> QED BY <2>1, <2>2, <2>3, <2>4
<1>10. ASSUME NEW x \in runs PROVE (x[2] - x[1]) * Step < F
  <2>1. PICK t \in Stretches(a) : \A k \in x[1]..x[2] : t[1] <= Instant(k) /\ Instant(k) <= t[2]
    BY RunInAStretch
  <2>2. x[1] \in x[1]..x[2] /\ x[2] \in x[1]..x[2] /\ x[1] \in Int /\ x[2] \in Int
    BY <1>5
  <2>3. t[1] <= Instant(x[1]) /\ Instant(x[2]) <= t[2]
    BY <2>1, <2>2
  <2>4. x[1] * Step \in Int /\ x[2] * Step \in Int /\ (x[2] - x[1]) * Step = x[2] * Step - x[1] * Step
    BY <2>2, Products
  <2>5. Instant(x[1]) = start + x[1] * Step /\ Instant(x[2]) = start + x[2] * Step
    BY DEF Instant
  <2>6. t[2] - t[1] < F /\ t[1] \in Nat /\ t[2] \in Nat
    BY <1>6
  <2> HIDE DEF F
  <2> QED BY <1>1, <2>3, <2>4, <2>5, <2>6
<1>11. F > 0
  <2>1. r[2] - r[1] < F /\ r[1] \in Nat /\ r[2] \in Nat /\ r[1] <= r[2]
    BY <1>6
  <2> HIDE DEF F
  <2> QED BY <1>1, <2>1
<1>12. (q[2] - q[1]) * Step >= MinActive
  <2>1. q[1] \in Nat /\ q[2] \in Nat /\ m <= q[2] - q[1]
    BY <1>1, <1>2, <1>3, <1>5
  <2>2. q[2] - q[1] \in Int
    BY <2>1
  <2>3. m * Step <= (q[2] - q[1]) * Step /\ m * Step \in Int /\ (q[2] - q[1]) * Step \in Int
    <3>1. m \in Int
      BY <1>2
    <3> QED BY <2>1, <2>2, <3>1, Products, Zenon
  <2> QED BY <1>1, <1>2, <2>3
<1>13. 0 \notin Shown(a) /\ Last \notin Shown(a)
  BY QuietEdges
<1> QED BY <1>3, <1>9, <1>10, <1>11, <1>12, <1>13 DEF Reportable

\* What a report that looked at every answered rule finds.
FoundByTheSweep == {a \in Alerts : queries[TaskOf(a)] = "ok" /\ Reportable(a)}
AllAnswered == \A task \in Tasks : queries[task] = "ok"

HistoryOK ==
    /\ now \in Nat /\ before \in [Alerts -> Nat]
    /\ active \in [Alerts -> SUBSET Nat] /\ \A a \in Alerts : active[a] \subseteq 0..now
SweepInv ==
    /\ HistoryOK
    /\ queries \in [Tasks -> {"pending", "ok", "failed", "broken"}]
    /\ phase \in {"waiting", "queries", "states", "done"}
    /\ phase \in {"queries", "states"} => end \in Nat /\ end >= Lookback
    /\ phase # "done" => candidates = {}
    /\ phase = "states" /\ exit = 0 => AllAnswered
    /\ phase = "done" => \/ candidates = {} /\ exit # 0
                         \/ /\ end \in Nat /\ end >= Lookback
                            /\ candidates = FoundByTheSweep
                            /\ exit = 0 => AllAnswered

LEMMA TaskOfAlert ==
    ASSUME NEW a \in Alerts
    PROVE  TaskOf(a) \in Tasks /\ TaskOf(a)[2] = a[2]
BY AlertsAssumption DEF TaskOf, Tasks

LEMMA SweepInit ==
    ASSUME ToolInit
    PROVE  SweepInv
<1>1. CASE SweepNotRun
  <2>1. now \in Nat
    BY <1>1, WindowAssumption DEF SweepNotRun
  <2>2. HistoryOK
    BY <1>1, <2>1 DEF SweepNotRun, HistoryOK
  <2> QED BY <1>1, <2>2 DEF SweepNotRun, SweepInv
<1>2. CASE Init
  <2>1. PICK A \in SUBSET Alerts :
          /\ active = [a \in Alerts |-> IF a \in A THEN {0} ELSE {}]
          /\ before \in {b \in [Alerts -> {0} \union {For[r] : r \in Rules}] : \A a \in Alerts \ A : b[a] = 0}
    BY <1>2 DEF Init
  <2>2. before \in [Alerts -> Nat]
    <3>1. {0} \union {For[r] : r \in Rules} \subseteq Nat
      BY AlertsAssumption
    <3> QED BY <2>1, <3>1
  <2>3. now = 0
    BY <1>2 DEF Init
  <2>4. active \in [Alerts -> SUBSET Nat] /\ \A a \in Alerts : active[a] \subseteq 0..0
    BY <2>1
  <2>5. HistoryOK
    BY <2>2, <2>3, <2>4 DEF HistoryOK
  <2>6. /\ phase = "waiting" /\ candidates = {} /\ queries = [task \in Tasks |-> "pending"]
    BY <1>2 DEF Init
  <2> QED BY <2>5, <2>6 DEF SweepInv
<1> QED BY <1>1, <1>2 DEF ToolInit

LEMMA EvaluateKeeps ==
    ASSUME SweepInv, Evaluate
    PROVE  SweepInv'
<1>1. /\ phase # "done" /\ now' = now + 1
      /\ UNCHANGED <<before, phase, end, queries, states, candidates, mismatches, exit>>
  BY DEF Evaluate, tool
<1>2. PICK A \in SUBSET Alerts :
        active' = [a \in Alerts |-> IF a \in A THEN active[a] \union {now + 1} ELSE active[a]]
  BY DEF Evaluate
<1>3. HistoryOK'
  <2>1. now \in Nat /\ before \in [Alerts -> Nat] /\ \A a \in Alerts : active[a] \subseteq 0..now
    BY DEF SweepInv, HistoryOK
  <2>2. \A a \in Alerts : active'[a] \subseteq 0..now + 1
    BY <1>2, <2>1
  <2>3. active' \in [Alerts -> SUBSET Nat]
    BY <1>2, <2>1
  <2> QED BY <1>1, <2>1, <2>2, <2>3 DEF HistoryOK
<1> QED BY <1>1, <1>3 DEF SweepInv, AllAnswered

\* What a report finds does not change when nothing it reads does.
LEMMA SameFindings ==
    ASSUME UNCHANGED <<active, end, queries>>
    PROVE  FoundByTheSweep' = FoundByTheSweep
BY DEF FoundByTheSweep, Reportable, Shown, Instant, start

LEMMA ReportFinds ==
    ASSUME SweepInv, Report
    PROVE  candidates' = FoundByTheSweep
<1>1. /\ end \in Nat /\ end >= Lookback
      /\ \A a \in Alerts : active[a] \subseteq Nat
  BY DEF SweepInv, HistoryOK, Report
<1>2. \A task \in Tasks, a \in Alerts : TaskOf(a) = task =>
        (a \in analyze_query_result(task).candidates <=> Reportable(a))
  <2>1. SUFFICES ASSUME NEW a \in Alerts
                 PROVE  a \in analyze_query_result(TaskOf(a)).candidates <=> Reportable(a)
    OBVIOUS
  <2>2. active_indices(query_range(TaskOf(a)), a) = Shown(a)
    BY <1>1, IndicesAreShown
  <2>3. a \in analyze_query_result(TaskOf(a)).candidates <=>
          is_candidate(TaskOf(a)[2], measure_runs(active_indices(query_range(TaskOf(a)), a)))
    BY DEF analyze_query_result
  <2>4. TaskOf(a)[2] = a[2]
    BY TaskOfAlert
  <2> QED BY <2>2, <2>3, <2>4, CandidatesAreReportable
<1>3. \A task \in Tasks : \A a \in analyze_query_result(task).candidates : a \in Alerts /\ TaskOf(a) = task
  BY DEF analyze_query_result
<1>4. \A a : a \in candidates' <=>
        \E task \in Tasks : queries[task] = "ok" /\ a \in analyze_query_result(task).candidates
  <2>1. candidates' = UNION {d.candidates : d \in {analyze_query_result(task) : task \in {u \in Tasks : queries[u] = "ok"}}}
    BY DEF Report
  <2> QED BY <2>1
<1>5. ASSUME NEW a, a \in candidates' PROVE a \in FoundByTheSweep
  BY <1>2, <1>3, <1>4, <1>5, Zenon DEF FoundByTheSweep
<1>6. ASSUME NEW a \in FoundByTheSweep PROVE a \in candidates'
  <2>1. a \in Alerts /\ queries[TaskOf(a)] = "ok" /\ Reportable(a) /\ TaskOf(a) \in Tasks
    BY TaskOfAlert DEF FoundByTheSweep
  <2> QED BY <1>2, <1>4, <2>1, Zenon
<1> QED BY <1>5, <1>6

LEMMA SweepStep ==
    ASSUME SweepInv, [ToolNext]_<<vars, pass>>
    PROVE  SweepInv'
<1>1. CASE UNCHANGED vars
  <2>1. UNCHANGED <<now, active, before, phase, end, queries, candidates, exit>>
    BY <1>1 DEF vars, mimir, tool
  <2>2. FoundByTheSweep' = FoundByTheSweep
    BY <2>1, SameFindings
  <2> QED BY <2>1, <2>2 DEF SweepInv, HistoryOK, AllAnswered
<1>2. CASE Evaluate
  BY <1>2, EvaluateKeeps
<1>3. CASE Begin
  <2>1. UNCHANGED <<now, active, before, queries, candidates>> /\ phase = "waiting" /\ phase' = "queries"
        /\ end' = now /\ now >= Lookback
    BY <1>3 DEF Begin, mimir
  <2> QED BY <2>1 DEF SweepInv, HistoryOK
<1>4. CASE NoRules
  <2>1. UNCHANGED <<now, active, before, queries, candidates>> /\ phase = "waiting" /\ phase' = "done" /\ exit' = 2
    BY <1>4 DEF NoRules, mimir
  <2> QED BY <2>1 DEF SweepInv, HistoryOK
<1>5. ASSUME NEW task \in Tasks, query_one(task) PROVE SweepInv'
  <2>1. UNCHANGED <<now, active, before, phase, end, candidates>> /\ phase = "queries"
    BY <1>5 DEF query_one, mimir
  <2>2. PICK outcome \in Outcomes : queries' = [queries EXCEPT ![task] = outcome]
    BY <1>5 DEF query_one
  <2>3. queries' \in [Tasks -> {"pending", "ok", "failed", "broken"}]
    BY <2>2 DEF SweepInv, Outcomes
  <2> QED BY <2>1, <2>3 DEF SweepInv, HistoryOK
<1>6. CASE alert_states
  <2>1. UNCHANGED <<now, active, before, end, queries, candidates>> /\ phase = "queries" /\ Answered /\ ~Broken
    BY <1>6 DEF alert_states, mimir
  <2>2. \/ phase' = "done" /\ exit' = 1
        \/ phase' = "states" /\ (exit' = 0 => ~Errors)
    BY <1>6 DEF alert_states
  <2>3. ~Errors => AllAnswered
    BY <2>1 DEF SweepInv, Answered, Broken, Errors, AllAnswered
  <2> QED BY <2>1, <2>2, <2>3 DEF SweepInv, HistoryOK, AllAnswered
<1>7. CASE Abort
  <2>1. UNCHANGED <<now, active, before, queries, candidates>> /\ phase = "queries" /\ phase' = "done" /\ exit' = 1
    BY <1>7 DEF Abort, mimir
  <2> QED BY <2>1 DEF SweepInv, HistoryOK
<1>8. CASE Report
  <2>1. UNCHANGED <<now, active, before, end, queries, exit>> /\ phase = "states" /\ phase' = "done"
    BY <1>8 DEF Report, mimir
  <2>2. candidates' = FoundByTheSweep'
    BY <1>8, <2>1, ReportFinds, SameFindings
  <2> QED BY <2>1, <2>2 DEF SweepInv, HistoryOK, AllAnswered
<1> QED BY <1>1, <1>2, <1>3, <1>4, <1>5, <1>6, <1>7, <1>8 DEF ToolNext, Next

LEMMA SweepAlways ==
    ToolSpec => []SweepInv
<1>1. SweepInv /\ [ToolNext]_<<vars, pass>> => SweepInv'
  BY SweepStep
<1> QED BY SweepInit, <1>1, PTL DEF ToolSpec

\* A reported alert fell short of its "for" in every stretch that touches the
\* window, by all but what sampling cannot see.
THEOREM CandidatesFellShortCorrect == ToolSpec => []CandidatesFellShort
<1>1. SweepInv => CandidatesFellShort
  <2>1. SUFFICES ASSUME SweepInv, NEW a \in candidates, NEW r \in Stretches(a)
                 PROVE  SpanOf(a, r) < For[a[2]] + 2 * (Step - 1)
    BY DEF CandidatesFellShort
  <2>2. end \in Nat /\ end >= Lookback /\ a \in Alerts /\ Reportable(a)
    BY <2>1 DEF SweepInv, FoundByTheSweep
  <2>3. Watched(a)
    BY <2>1, <2>2 DEF Watched, SweepInv, HistoryOK
  <2> QED BY <2>2, <2>3, ReportableFellShort
<1> QED BY <1>1, SweepAlways, PTL

\* A sweep that exits 0 reports every alert that flapped inside the window,
\* long and often enough for the samples to show, without firing.
THEOREM CompleteSweepReportsCorrect == ToolSpec => []CompleteSweepReports
<1>1. SweepInv => CompleteSweepReports
  <2>1. SUFFICES ASSUME SweepInv, phase = "done", exit = 0, NEW a \in Alerts,
                        start \notin active[a], end \notin active[a],
                        \A x, y \in Stretches(a) : x[2] < y[1] => x[2] + Step < y[1],
                        \A x \in Stretches(a) : SpanOf(a, x) < For[a[2]],
                        NEW r \in Stretches(a), NEW s \in Stretches(a), r # s,
                        Evaluations(r) >= MinShown + Step, Evaluations(s) >= Step
                 PROVE  a \in candidates
    BY DEF CompleteSweepReports, IsActive
  <2>2. end \in Nat /\ end >= Lookback /\ candidates = FoundByTheSweep /\ AllAnswered
    BY <2>1 DEF SweepInv
  <2>3. Watched(a)
    BY <2>1, <2>2 DEF Watched, SweepInv, HistoryOK
  <2>4. Reportable(a)
    BY <2>1, <2>3, FlapsAreReportable
  <2>5. queries[TaskOf(a)] = "ok"
    BY <2>2, TaskOfAlert DEF AllAnswered
  <2> QED BY <2>2, <2>4, <2>5 DEF FoundByTheSweep
<1> QED BY <1>1, SweepAlways, PTL
=============================================================================
