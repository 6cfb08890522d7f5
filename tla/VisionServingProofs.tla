------------------------ MODULE VisionServingProofs -------------------------
(***************************************************************************)
(* Proofs about VisionServing, for any images, conversations, cache,       *)
(* pieces and numbers of gates: memoized routing implements VisionRouting, *)
(* a pass classifies its rows at most once, no image is refused, and every *)
(* image row of a pass is given the slot its place in the image calls for. *)
(***************************************************************************)
EXTENDS VisionServing, FiniteSetTheorems, SequenceTheorems, WellFoundedInduction, TLAPS

\* A kind that may be used for the rows of the pass in the place of a look
\* at each of them.
Honest(kind) ==
    /\ kind \in {None, "text", "image", "mixed"}
    /\ kind = "text" => is_multimodal = {}
    /\ kind = "image" => ImageRows = batch

Passes == {"context", "target", "sampled", "draft"}

\* What carries the refinement: whatever the next gate will read is honest.
RoutingInv ==
    /\ pc \in {"warmup", "idle", "embed", "raised"} \cup Passes
    /\ \A b \in batch : b.kind \in Abstract!Kinds
    /\ pc \in Passes \cup {"embed"} => batch # {}
    /\ pc \notin {"target", "draft"} => routed = << >>
    /\ pc = "warmup" => cell = None
    /\ pc = "context" \/ (pc = "target" /\ memo = None) => Honest(cell)
    /\ pc \in {"target", "draft"} => Honest(memo)

\* The kind of the mask and the kind of the tokens are both honest.
LEMMA KindsAreHonest ==
    /\ Honest(None)
    /\ is_multimodal = {} => Honest("text")
    /\ Honest(routing_kind_from_mm(is_multimodal))
    /\ Honest(token_routing_kind)
    /\ token_routing_kind # None
BY DEF Honest, routing_kind_from_mm, token_routing_kind, is_multimodal, ImageRows, None

\* An honest kind routes every row as its own kind asks.
LEMMA HonestRoutes ==
    ASSUME NEW kind, Honest(kind), kind # None, \A b \in batch : b.kind \in Abstract!Kinds
    PROVE  /\ fused_topk_bias_split_vl(kind) \in [batch -> Abstract!Routes]
           /\ \A b \in batch : Abstract!Right(b.kind, fused_topk_bias_split_vl(kind)[b])
<1>1. CASE kind = "text"
  BY <1>1 DEF Honest, fused_topk_bias_split_vl, is_multimodal, Abstract!Right, Abstract!Routes, Abstract!Kinds
<1>2. CASE kind = "image"
  BY <1>2 DEF Honest, fused_topk_bias_split_vl, ImageRows, Abstract!Right, Abstract!Routes, Abstract!Kinds
<1>3. CASE kind = "mixed"
  BY <1>3 DEF Honest, fused_topk_bias_split_vl, ImageRows, Abstract!Right, Abstract!Routes, Abstract!Kinds
<1> QED BY <1>1, <1>2, <1>3 DEF Honest

\* A gate memoizes an honest kind, and routes by it.
LEMMA GateIsHonest ==
    ASSUME NEW published, current_routing_kind(published), RoutingInv, Honest(memo),
           memo = None => Honest(published)
    PROVE  \E kind : /\ Honest(kind) /\ kind # None
                     /\ memo' = kind
                     /\ routed' = Append(routed, fused_topk_bias_split_vl(kind))
<1> DEFINE kind == IF memo # None THEN memo
                   ELSE IF published # None THEN published ELSE token_routing_kind
<1>1. memo' = kind /\ routed' = Append(routed, fused_topk_bias_split_vl(kind))
  BY DEF current_routing_kind, Memoize
<1>2. Honest(kind) /\ kind # None
  BY KindsAreHonest
<1> QED BY <1>1, <1>2

\* The initial state satisfies the invariant.
LEMMA RoutingInit == Init => RoutingInv
BY DEF Init, RoutingInv, Passes

\* Honesty is about the rows, so it survives what leaves the rows alone.
LEMMA HonestStays ==
    ASSUME NEW kind, Honest(kind), batch' = batch
    PROVE  Honest(kind)'
BY DEF Honest, is_multimodal, ImageRows

\* Every step preserves the invariant.
LEMMA RoutingStep == RoutingInv /\ [Next]_vars => RoutingInv'
<1> SUFFICES ASSUME RoutingInv, [Next]_vars PROVE RoutingInv'
  OBVIOUS
<1>1. ASSUME NEW r \in Requests, Arrive(r) PROVE RoutingInv'
  BY <1>1 DEF Arrive, RoutingInv, Passes
<1>2. CASE Warmup
  <2>1. \A b \in batch' : b.kind \in Abstract!Kinds
    BY <1>2 DEF Warmup, Abstract!Kinds
  <2>2. batch' # {}
    <3>1. PICK kinds \in {<<"text">>, <<"stray">>, <<"text", "stray">>} :
            batch' = {[req |-> 0, pos |-> i, kind |-> kinds[i]] : i \in DOMAIN kinds}
      BY <1>2 DEF Warmup
    <3>2. 1 \in DOMAIN kinds
      OBVIOUS
    <3> QED BY <3>1, <3>2
  <2>3. Honest(cell)'
    BY <1>2 DEF Warmup, RoutingInv, Honest, None
  <2> QED BY <1>2, <2>1, <2>2, <2>3 DEF Warmup, RoutingInv, Passes
<1>3. CASE Schedule
  <2>1. \A b \in batch' : b.kind \in Abstract!Kinds
    BY <1>3 DEF Schedule, RowsOf, KindAt, Abstract!Kinds
  <2> QED BY <1>3, <2>1 DEF Schedule, RoutingInv, Passes
<1>4. CASE embed_input_ids
  <2>1. pc' = "context" => Honest(cell')
    BY <1>4, KindsAreHonest DEF embed_input_ids, Publish
  <2>2. pc' = "context" => Honest(cell)'
    BY <1>4, <2>1 DEF embed_input_ids, Honest, is_multimodal, ImageRows
  <2> QED BY <1>4, <2>2 DEF embed_input_ids, RoutingInv, Passes
<1>5. CASE NewContext
  BY <1>5, KindsAreHonest DEF NewContext, RoutingInv, Passes, Honest, is_multimodal, ImageRows
<1>6. CASE Replay
  BY <1>6 DEF Replay, RoutingInv, Passes
<1>7. CASE RunGate
  <2>1. Honest(memo) /\ (memo = None => Honest(cell))
    BY <1>7 DEF RunGate, RoutingInv
  <2>2. memo' # None /\ Honest(memo')
    BY <1>7, <2>1, GateIsHonest DEF RunGate
  <2>3. Honest(memo)'
    BY <1>7, <2>2 DEF RunGate, Honest, is_multimodal, ImageRows
  <2> QED BY <1>7, <2>2, <2>3 DEF RunGate, RoutingInv, Passes
<1>8. CASE EndTarget
  BY <1>8 DEF EndTarget, RoutingInv, Passes
<1>9. CASE BeginDraft
  BY <1>9, KindsAreHonest DEF BeginDraft, RoutingInv, Passes, Honest, is_multimodal, ImageRows
<1>10. CASE RunDraftGate
  <2>1. Honest(memo) /\ Honest(None)
    BY <1>10, KindsAreHonest DEF RunDraftGate, RoutingInv
  <2>2. memo' # None /\ Honest(memo')
    BY <1>10, <2>1, GateIsHonest DEF RunDraftGate
  <2>3. Honest(memo)'
    BY <1>10, <2>2 DEF RunDraftGate, Honest, is_multimodal, ImageRows
  <2> QED BY <1>10, <2>3 DEF RunDraftGate, RoutingInv, Passes
<1>11. CASE Finish
  BY <1>11 DEF Finish, RoutingInv, Passes
<1>12. CASE UNCHANGED vars
  BY <1>12 DEF vars, RoutingInv, Passes, Honest, is_multimodal, ImageRows
<1> QED
  BY <1>1, <1>2, <1>3, <1>4, <1>5, <1>6, <1>7, <1>8, <1>9, <1>10, <1>11, <1>12 DEF Next

\* A gate of either model is a gate of the abstract specification.
LEMMA GateRefines ==
    ASSUME NEW published, current_routing_kind(published), RoutingInv,
           memo = None => Honest(published), pc \in {"target", "draft"}, pc' = pc, batch' = batch
    PROVE  Abstract!Gate
<1>1. Honest(memo) /\ batch # {} /\ \A b \in batch : b.kind \in Abstract!Kinds
  BY DEF RoutingInv, Passes
<1>2. PICK kind : /\ Honest(kind) /\ kind # None
                  /\ routed' = Append(routed, fused_topk_bias_split_vl(kind))
  BY <1>1, GateIsHonest
<1>3. /\ fused_topk_bias_split_vl(kind) \in [batch -> Abstract!Routes]
      /\ \A b \in batch : Abstract!Right(b.kind, fused_topk_bias_split_vl(kind)[b])
  BY <1>1, <1>2, HonestRoutes
<1>4. \E route \in [batch -> Abstract!Routes] :
         /\ \A b \in batch : Abstract!Right(b.kind, route[b])
         /\ routed' = Append(routed, route)
  BY <1>2, <1>3
<1> QED BY <1>1, <1>4 DEF Abstract!Gate

\* Every step is a step of the abstract specification, or none.
LEMMA RoutingRefines ==
    RoutingInv /\ RoutingInv' /\ [Next]_vars => [Abstract!Next]_(Abstract!vars)
<1> SUFFICES ASSUME RoutingInv, RoutingInv', [Next]_vars
             PROVE  Abstract!Next \/ UNCHANGED Abstract!vars
  OBVIOUS
<1>1. ASSUME NEW r \in Requests, Arrive(r) PROVE UNCHANGED Abstract!vars
  BY <1>1 DEF Arrive, Abstract!vars
<1>2. CASE Warmup
  BY <1>2 DEF Warmup, Abstract!vars
<1>3. CASE Schedule
  BY <1>3 DEF Schedule, Abstract!vars
<1>4. CASE embed_input_ids
  BY <1>4 DEF embed_input_ids, Abstract!vars
<1>5. CASE NewContext
  <2>1. batch # {} /\ routed' = << >> /\ \A b \in batch : b.kind \in Abstract!Kinds
    BY <1>5 DEF NewContext, RoutingInv, Passes
  <2>2. Abstract!Begin
    BY <1>5, <2>1 DEF NewContext, Abstract!Begin
  <2> QED BY <2>2 DEF Abstract!Next
<1>6. CASE Replay
  BY <1>6 DEF Replay, Abstract!vars
<1>7. CASE RunGate
  <2>1. Abstract!Gate
    BY <1>7, GateRefines DEF RunGate, RoutingInv
  <2> QED BY <2>1 DEF Abstract!Next
<1>8. CASE EndTarget
  <2>1. Abstract!End
    BY <1>8 DEF EndTarget, Abstract!End, RoutingInv, Passes
  <2> QED BY <2>1 DEF Abstract!Next
<1>9. CASE BeginDraft
  <2>1. batch # {} /\ routed' = << >> /\ \A b \in batch : b.kind \in Abstract!Kinds
    BY <1>9 DEF BeginDraft, RoutingInv, Passes
  <2>2. Abstract!Begin
    BY <1>9, <2>1 DEF BeginDraft, Abstract!Begin
  <2> QED BY <2>2 DEF Abstract!Next
<1>10. CASE RunDraftGate
  <2>1. Honest(None)
    BY KindsAreHonest
  <2>2. Abstract!Gate
    BY <1>10, <2>1, GateRefines DEF RunDraftGate
  <2> QED BY <2>2 DEF Abstract!Next
<1>11. CASE Finish
  <2>1. Abstract!End
    BY <1>11 DEF Finish, Abstract!End, RoutingInv, Passes
  <2> QED BY <2>1 DEF Abstract!Next
<1>12. CASE UNCHANGED vars
  BY <1>12 DEF vars, Abstract!vars
<1> QED
  BY <1>1, <1>2, <1>3, <1>4, <1>5, <1>6, <1>7, <1>8, <1>9, <1>10, <1>11, <1>12 DEF Next

\* Memoized routing implements routing row by row: in every pass of either
\* model each gate routes every row by what that row is.
THEOREM RoutesOwnRowsCorrect == Spec => RoutesOwnRows
<1>1. Init => Abstract!Init
  BY DEF Init, Abstract!Init
<1>2. Spec => []RoutingInv
  BY RoutingInit, RoutingStep, PTL DEF Spec
<1>3. Spec => Abstract!Init /\ [][Abstract!Next]_(Abstract!vars)
  BY <1>1, <1>2, RoutingRefines, PTL DEF Spec
<1> QED BY <1>3 DEF RoutesOwnRows, Abstract!Spec

\* Why one wait is enough: before the first gate has memoized a kind, a wait
\* means that one is published, and a pass over requests has one published.
OnceInv ==
    /\ syncs \in {0, 1}
    /\ pc \in {"warmup", "embed"} => syncs = 0
    /\ pc = "warmup" => cell = None
    /\ pc = "context" \/ (pc = "target" /\ memo = None) =>
         /\ syncs = 1 => cell # None
         /\ (\A b \in batch : b.req # 0) => cell # None
    /\ pc \in {"context", "target"} /\ is_multimodal = {} /\ (\A b \in batch : b.req # 0)
         => syncs = 0
    /\ pc = "draft" /\ memo = None => syncs = 0

\* Every step preserves it.
LEMMA OnceStep == OnceInv /\ [Next]_vars => OnceInv'
<1> SUFFICES ASSUME OnceInv, [Next]_vars PROVE OnceInv'
  OBVIOUS
<1>0. token_routing_kind # None /\ routing_kind_from_mm(is_multimodal) # None
  BY DEF token_routing_kind, routing_kind_from_mm, None
<1>1. ASSUME NEW r \in Requests, Arrive(r) PROVE OnceInv'
  BY <1>1 DEF Arrive, OnceInv
<1>2. CASE Warmup
  <2>1. PICK kinds \in {<<"text">>, <<"stray">>, <<"text", "stray">>} :
          batch' = {[req |-> 0, pos |-> i, kind |-> kinds[i]] : i \in DOMAIN kinds}
    BY <1>2 DEF Warmup
  <2>2. 1 \in DOMAIN kinds
    OBVIOUS
  <2>3. [req |-> 0, pos |-> 1, kind |-> kinds[1]] \in batch'
    BY <2>1, <2>2
  <2>4. [req |-> 0, pos |-> 1, kind |-> kinds[1]].req = 0
    OBVIOUS
  <2>5. \E b \in batch' : b.req = 0
    BY <2>3, <2>4
  <2> QED BY <1>2, <2>5 DEF Warmup, OnceInv
<1>3. CASE Schedule
  BY <1>3 DEF Schedule, OnceInv
<1>4. CASE embed_input_ids
  <2>1. CASE is_multimodal = {}
    BY <1>4, <2>1 DEF embed_input_ids, OnceInv, Publish, None
  <2>2. CASE is_multimodal # {}
    BY <1>0, <1>4, <2>2 DEF embed_input_ids, OnceInv, Publish, is_multimodal
  <2> QED BY <2>1, <2>2
<1>5. CASE NewContext
  BY <1>5 DEF NewContext, OnceInv, is_multimodal
<1>6. CASE Replay
  BY <1>6 DEF Replay, OnceInv
<1>7. CASE RunGate
  <2>1. memo' # None
    BY <1>0, <1>7 DEF RunGate, current_routing_kind, Memoize
  <2>2. CASE memo = None /\ cell = None
    BY <1>7, <2>1, <2>2 DEF RunGate, current_routing_kind, OnceInv, is_multimodal
  <2>3. CASE ~(memo = None /\ cell = None)
    BY <1>7, <2>1, <2>3 DEF RunGate, current_routing_kind, OnceInv, is_multimodal
  <2> QED BY <2>2, <2>3
<1>8. CASE EndTarget
  BY <1>8 DEF EndTarget, OnceInv
<1>9. CASE BeginDraft
  BY <1>9 DEF BeginDraft, OnceInv
<1>10. CASE RunDraftGate
  <2>1. memo' # None
    BY <1>0, <1>10 DEF RunDraftGate, current_routing_kind, Memoize
  <2> QED BY <1>10, <2>1 DEF RunDraftGate, current_routing_kind, OnceInv
<1>11. CASE Finish
  BY <1>11 DEF Finish, OnceInv
<1>12. CASE UNCHANGED vars
  BY <1>12 DEF vars, OnceInv, is_multimodal
<1> QED
  BY <1>1, <1>2, <1>3, <1>4, <1>5, <1>6, <1>7, <1>8, <1>9, <1>10, <1>11, <1>12 DEF Next

\* A pass of either model waits for the device at most once to classify its
\* rows, and a pass over requests without images not at all.
THEOREM ClassifiedOnceCorrect == Spec => []ClassifiedOnce
<1>1. Init => OnceInv
  BY DEF Init, OnceInv
<1>2. OnceInv => ClassifiedOnce
  BY DEF OnceInv, ClassifiedOnce
<1> QED BY <1>1, <1>2, OnceStep, PTL DEF Spec

-----------------------------------------------------------------------------
(* Least and largest numbers, by the well-foundedness of the naturals.     *)

\* A set of naturals that is not empty has a least element.
LEMMA LeastNatural ==
    ASSUME NEW T \in SUBSET Nat, T # {}
    PROVE  \E m \in T : \A k \in T : m <= k
<1> DEFINE R == OpToRel(<, Nat)
<1>1. PICK m \in T : \A k \in T : <<k, m>> \notin R
  <2> HIDE DEF R
  <2>1. IsWellFoundedOn(R, Nat)
    BY NatLessThanWellFounded DEF R
  <2> QED BY <2>1, WFMin, Zenon
<1>2. \A k \in T : <<k, m>> \notin R => m <= k
  BY DEF OpToRel
<1> QED BY <1>1, <1>2

\* Max is what its name says on a bounded set of naturals.
LEMMA LargestNatural ==
    ASSUME NEW S, NEW b \in Nat, S \subseteq 0 .. b, S # {}
    PROVE  Max(S) \in S /\ \A s \in S : s <= Max(S)
<1> DEFINE T == {n \in Nat : \E s \in S : n = b - s}
<1>1. T \in SUBSET Nat
  OBVIOUS
<1>2. PICK s \in S : TRUE
  OBVIOUS
<1>3. b - s \in T
  BY <1>2
<1>4. PICK m \in T : \A k \in T : m <= k
  <2> HIDE DEF T
  <2> QED BY <1>1, <1>3, LeastNatural
<1>5. PICK x \in S : m = b - x
  BY <1>4
<1>6. ASSUME NEW y \in S PROVE x >= y
  <2>1. b - y \in T
    OBVIOUS
  <2> QED BY <2>1, <1>4, <1>5
<1> QED BY <1>6 DEF Max

-----------------------------------------------------------------------------
(* The size an image is brought to.                                        *)

\* What \div and % return.
LEMMA Division ==
    ASSUME NEW a \in Nat, NEW p \in Nat \ {0}
    PROVE  /\ a \div p \in Nat /\ a % p \in 0 .. p - 1 /\ a = p * (a \div p) + (a % p)
OBVIOUS

\* A multiple divided by its factor.
LEMMA DivisionOfMultiple ==
    ASSUME NEW a \in Nat, NEW p \in Nat \ {0}
    PROVE  (a * p) \div p = a
<1> DEFINE q == (a * p) \div p
<1>1. a * p \in Nat
  OBVIOUS
<1>2. q \in Nat /\ p * q <= a * p /\ a * p < p * q + p
  BY <1>1, Division
<1> HIDE DEF q
<1>3. CASE q < a
  <2>1. PICK d \in Nat : a = q + 1 + d
    <3>1. a - q - 1 \in Nat /\ a = q + 1 + (a - q - 1)
      BY <1>2, <1>3
    <3> QED BY <3>1
  <2>2. a * p = p * q + p + d * p /\ d * p \in Nat
    BY <1>2, <2>1
  <2> QED BY <2>2, <1>2
<1>4. CASE q > a
  <2>1. PICK d \in Nat : q = a + 1 + d
    <3>1. q - a - 1 \in Nat /\ q = a + 1 + (q - a - 1)
      BY <1>2, <1>4
    <3> QED BY <3>1
  <2>2. p * q = a * p + p + d * p /\ d * p \in Nat
    BY <1>2, <2>1
  <2> QED BY <2>2, <1>2
<1> QED BY <1>2, <1>3, <1>4 DEF q

LEMMA CeilType ==
    ASSUME NEW a \in Nat, NEW b \in Nat \ {0}
    PROVE  Ceil(a, b) \in Nat
BY DEF Ceil

LEMMA GridType ==
    ASSUME NEW height \in Nat, NEW width \in Nat
    PROVE  grid(height, width).h \in Nat /\ grid(height, width).w \in Nat
<1>1. height \div Patch \in Nat /\ width \div Patch \in Nat
  BY LayoutConstants
<1> QED BY <1>1, CeilType, LayoutConstants DEF grid

\* Two rows without a column, and a column without a row.
LEMMA SmallestGrids ==
    /\ Tokens([height |-> 0, width |-> Patch * Ratio]) = 2
    /\ Tokens([height |-> 2 * (Patch * Ratio), width |-> 0]) = 6
<1>1. Patch \in Nat \ {0} /\ Ratio \in Nat \ {0} /\ 2 * Ratio \in Nat
  BY LayoutConstants
<1>2. (Patch * Ratio) \div Patch = Ratio /\ (2 * (Patch * Ratio)) \div Patch = 2 * Ratio
      /\ 0 \div Patch = 0
  <2>1. Patch * Ratio = Ratio * Patch /\ 2 * (Patch * Ratio) = (2 * Ratio) * Patch /\ 0 = 0 * Patch
    BY <1>1
  <2>2. (Ratio * Patch) \div Patch = Ratio
    BY <1>1, DivisionOfMultiple
  <2>3. ((2 * Ratio) * Patch) \div Patch = 2 * Ratio
    BY <1>1, DivisionOfMultiple
  <2>4. (0 * Patch) \div Patch = 0
    BY <1>1, DivisionOfMultiple
  <2> QED BY <2>1, <2>2, <2>3, <2>4
<1>3. Ceil(0, Ratio) = 0 /\ Ceil(Ratio, Ratio) = 1 /\ Ceil(2 * Ratio, Ratio) = 2
  BY <1>1 DEF Ceil
<1>4. grid(0, Patch * Ratio) = [h |-> 0, w |-> 1]
      /\ grid(2 * (Patch * Ratio), 0) = [h |-> 2, w |-> 0]
  BY <1>2, <1>3 DEF grid
<1> QED BY <1>4 DEF Tokens, grid_tokens, PadLast

\* A budget of at least four is solved by a size that is no less than nothing.
LEMMA SolvedType ==
    ASSUME NEW h \in Nat \ {0}, NEW w \in Nat \ {0}, NEW b \in Nat, b >= 4
    PROVE  /\ solve_resize_ratio(h, w, b).height \in Nat
           /\ solve_resize_ratio(h, w, b).width \in Nat
<1> DEFINE room == b - 2
           SW == {n \in 0 .. room : n * (n + 1) * h <= room * w}
           SH == {n \in 0 .. room : n * (n * w + h) <= room * h}
           maxW == Max(SW)
           maxH == Max(SH)
           side == Patch * Ratio
<1>1. room \in Nat /\ room >= 2 /\ side \in Nat /\ Patch \in Nat \ {0} /\ Ratio \in Nat \ {0}
  BY LayoutConstants
<1>2. maxW \in Nat
  <2>1. 0 * (0 + 1) * h = 0 /\ room * w \in Nat
    BY <1>1
  <2>2. 0 \in SW /\ SW \subseteq 0 .. room
    BY <1>1, <2>1
  <2> HIDE DEF SW, SH, room
  <2>3. Max(SW) \in 0 .. room
    BY <1>1, <2>2, LargestNatural
  <2> QED BY <1>1, <2>3
<1>3. maxH \in Nat
  <2>1. 0 * (0 * w + h) = 0 /\ room * h \in Nat
    BY <1>1
  <2>2. 0 \in SH /\ SH \subseteq 0 .. room
    BY <1>1, <2>1
  <2> HIDE DEF SW, SH, room
  <2>3. Max(SH) \in 0 .. room
    BY <1>1, <2>2, LargestNatural
  <2> QED BY <1>1, <2>3
<1>4. solve_resize_ratio(h, w, b) =
        IF maxW < 1 THEN [height |-> Even(room \div 2) * side, width |-> side]
        ELSE IF maxH < 2 THEN [height |-> 2 * side, width |-> (room \div 2 - 1) * side]
        ELSE [height |-> Min({Even(maxH) * Ratio, (maxW * Ratio * h) \div w}) * Patch,
              width  |-> Min({maxW * Ratio, (Even(maxH) * Ratio * w) \div h}) * Patch]
  BY DEF solve_resize_ratio, Largest
<1> HIDE DEF maxW, maxH
<1>5. CASE maxW < 1
  <2>1. Even(room \div 2) \in Nat
    BY <1>1 DEF Even
  <2>2. Even(room \div 2) * side \in Nat
    BY <1>1, <2>1
  <2> QED BY <1>1, <1>4, <1>5, <2>2
<1>6. CASE ~(maxW < 1) /\ maxH < 2
  <2>1. room \div 2 - 1 \in Nat
    BY <1>1
  <2>2. (room \div 2 - 1) * side \in Nat /\ 2 * side \in Nat
    BY <1>1, <2>1
  <2> QED BY <1>4, <1>6, <2>2
<1>7. CASE ~(maxW < 1) /\ ~(maxH < 2)
  <2>1. Even(maxH) \in Nat
    BY <1>3 DEF Even
  <2>2. /\ Even(maxH) * Ratio \in Nat /\ maxW * Ratio \in Nat
        /\ maxW * Ratio * h \in Nat /\ Even(maxH) * Ratio * w \in Nat
    BY <1>1, <1>2, <2>1
  <2>3. (maxW * Ratio * h) \div w \in Nat /\ (Even(maxH) * Ratio * w) \div h \in Nat
    BY <2>2, Division
  <2>4. \A x, y \in Nat : Min({x, y}) \in Nat
    <3> TAKE x, y \in Nat
    <3>1. \E z \in {x, y} : \A u \in {x, y} : z =< u
      BY x <= y \/ y <= x
    <3> QED BY <3>1 DEF Min
  <2>5. /\ Min({Even(maxH) * Ratio, (maxW * Ratio * h) \div w}) \in Nat
        /\ Min({maxW * Ratio, (Even(maxH) * Ratio * w) \div h}) \in Nat
    BY <2>2, <2>3, <2>4
  <2>6. \A x \in Nat : x * Patch \in Nat
    BY <1>1
  <2> QED BY <1>4, <1>7, <2>5, <2>6
<1> QED BY <1>5, <1>6, <1>7

\* A budget of four is solved by one of the smallest grids.
LEMMA FourIsEnough ==
    ASSUME NEW h \in Nat \ {0}, NEW w \in Nat \ {0}
    PROVE  Tokens(solve_resize_ratio(h, w, 4)) <= 6
<1> DEFINE SW == {n \in 0 .. 2 : n * (n + 1) * h <= 2 * w}
           SH == {n \in 0 .. 2 : n * (n * w + h) <= 2 * h}
           side == Patch * Ratio
<1>1. Max(SH) < 2
  <2>1. 0 * (0 * w + h) = 0 /\ 2 * (2 * w + h) > 2 * h
    OBVIOUS
  <2>2. 0 \in SH /\ 2 \notin SH
    BY <2>1
  <2>3. SH \subseteq 0 .. 1
    BY <2>2
  <2> HIDE DEF SH
  <2>4. Max(SH) \in 0 .. 1
    BY <2>2, <2>3, LargestNatural
  <2> QED BY <2>4
<1>2. 4 - 2 = 2 /\ 2 \div 2 = 1 /\ Even(2 \div 2) = 0 /\ 1 - 1 = 0 /\ 0 * side = 0
  BY LayoutConstants DEF Even
<1>3. solve_resize_ratio(h, w, 4) \in {[height |-> 0, width |-> side], [height |-> 2 * side, width |-> 0]}
  <2>1. CASE Max(SW) < 1
    BY <1>2, <2>1 DEF solve_resize_ratio, Largest
  <2>2. CASE ~(Max(SW) < 1)
    BY <1>1, <1>2, <2>2 DEF solve_resize_ratio, Largest
  <2> QED BY <2>1, <2>2
<1> QED BY <1>3, SmallestGrids

\* Whatever the ratio found first, the size an image is brought to keeps the limit.
LEMMA ResizeFits ==
    ASSUME NEW h \in Nat \ {0}, NEW w \in Nat \ {0}, NEW best, best.height \in Nat, best.width \in Nat
    PROVE  LET size == safe_resize(h, w, best)
           IN  size.height \in Nat /\ size.width \in Nat /\ Tokens(size) <= Limit
<1> DEFINE solve(b) == solve_resize_ratio(h, w, b)
           budgets == {b \in 2 .. Limit : Tokens(solve(b)) <= Limit}
<1>1. Limit \in Nat /\ Limit >= 6
  BY LayoutConstants DEF Limit, CompressPadTo
<1>2. 4 \in budgets /\ budgets \subseteq 0 .. Limit
  <2>1. Tokens(solve(4)) <= 6
    BY FourIsEnough
  <2>2. Tokens(solve(4)) \in Int
    <3>1. solve(4).height \in Nat /\ solve(4).width \in Nat
      BY SolvedType
    <3> HIDE DEF solve
    <3>2. grid(solve(4).height, solve(4).width).h \in Nat /\ grid(solve(4).height, solve(4).width).w \in Nat
      BY <3>1, GridType
    <3> QED BY <3>2 DEF Tokens, grid_tokens, PadLast
  <2> QED BY <1>1, <2>1, <2>2
<1>3. Max(budgets) \in budgets /\ Max(budgets) >= 4
  <2> HIDE DEF budgets
  <2> QED BY <1>1, <1>2, LargestNatural
<1>4. solve(Max(budgets)).height \in Nat /\ solve(Max(budgets)).width \in Nat
  <2>1. Max(budgets) \in Nat
    BY <1>1, <1>3
  <2> HIDE DEF budgets
  <2> QED BY <1>3, <2>1, SolvedType
<1>5. Tokens(solve(Max(budgets))) <= Limit
  BY <1>3
<1>6. safe_resize(h, w, best) = IF Tokens(best) <= Limit THEN best ELSE solve(Max(budgets))
  BY DEF safe_resize
<1> HIDE DEF budgets, solve
<1> QED BY <1>4, <1>5, <1>6

\* An image keeps to the limit without the tokens that align it.
LEMMA SizesFit ==
    ASSUME NEW i \in Images
    PROVE  Size[i].height \in Nat /\ Size[i].width \in Nat /\ Tokens(Size[i]) <= Limit
<1> DEFINE height == Height[i]
           width == Min({Width[i], height * MaxWhRatio})
           small == height * width < MinPixels
           up(a, b) == IF small THEN Max({n \in 0 .. MinPixels : n * n * b <= MinPixels * a}) ELSE a
           h == up(height, width)
           w == up(width, height)
           best == [height |-> Ceil(h, Patch) * Patch, width |-> Ceil(w, Patch) * Patch]
<1>1. height \in Nat \ {0} /\ width \in Nat \ {0}
  <2>1. height \in Nat \ {0} /\ Width[i] \in Nat \ {0}
    BY ServingConstants
  <2>2. height * MaxWhRatio \in Nat \ {0}
    BY <2>1, LayoutConstants
  <2>3. \A x, y \in Nat \ {0} : Min({x, y}) \in Nat \ {0}
    <3> TAKE x, y \in Nat \ {0}
    <3>1. \E z \in {x, y} : \A u \in {x, y} : z =< u
      BY x <= y \/ y <= x
    <3> QED BY <3>1 DEF Min
  <2> QED BY <2>1, <2>2, <2>3
<1> HIDE DEF height, width
<1>2. ASSUME NEW a \in Nat \ {0}, NEW b \in Nat \ {0}, small => a * b < MinPixels
      PROVE  up(a, b) \in Nat \ {0}
  <2> DEFINE S == {n \in 0 .. MinPixels : n * n * b <= MinPixels * a}
  <2>1. CASE small
    <3>1. MinPixels \in Nat \ {0} /\ a * b \in Nat /\ a * b >= b /\ MinPixels * a >= MinPixels
      BY <1>2, LayoutConstants
    <3>2. 1 * 1 * b <= MinPixels * a
      BY <1>2, <2>1, <3>1
    <3>3. 1 \in S /\ S \subseteq 0 .. MinPixels
      BY <3>1, <3>2
    <3> HIDE DEF S
    <3>4. Max(S) \in 0 .. MinPixels /\ 1 <= Max(S)
      BY <3>1, <3>3, LargestNatural
    <3> QED BY <2>1, <3>1, <3>4 DEF S
  <2> QED BY <1>2, <2>1
<1>3. h \in Nat \ {0} /\ w \in Nat \ {0}
  <2>1. small => height * width < MinPixels /\ width * height < MinPixels
    BY <1>1
  <2> HIDE DEF small, up
  <2> QED BY <1>1, <1>2, <2>1
<1>4. best.height \in Nat /\ best.width \in Nat
  <2> HIDE DEF h, w
  <2>1. Ceil(h, Patch) \in Nat /\ Ceil(w, Patch) \in Nat /\ Patch \in Nat
    BY <1>3, CeilType, LayoutConstants
  <2>2. Ceil(h, Patch) * Patch \in Nat /\ Ceil(w, Patch) * Patch \in Nat
    BY <2>1
  <2> QED BY <2>2
<1>5. Size[i] = safe_resize(h, w, best)
  BY ServingConstants DEF pil_to_patches, Largest, height, width
<1> HIDE DEF h, w, best
<1> QED BY <1>3, <1>4, <1>5, ResizeFits

-----------------------------------------------------------------------------
(* The layout of a prompt: what the loop over its tokens computes.         *)

\* The grid of an image keeps the limit.
LEMMA GridOfImage ==
    ASSUME NEW i \in Images
    PROVE  Grid[i].h \in Nat /\ Grid[i].w \in Nat /\ grid_tokens(Grid[i]) <= Limit
<1>1. Grid[i] = grid(Size[i].height, Size[i].width)
  BY DEF Grid
<1> QED BY <1>1, SizesFit, GridType DEF Tokens

\* What two sequences look like end to end.
Join(r, p, m, q, n) ==
    Len(r) = m + n /\ \A i \in 1 .. m + n : r[i] = IF i <= m THEN p[i] ELSE q[i - m]
LEMMA Joined ==
    ASSUME NEW S, NEW p \in Seq(S), NEW q \in Seq(S)
    PROVE  p \o q \in Seq(S) /\ Join(p \o q, p, Len(p), q, Len(q))
BY DEF Join

\* What a block has at each place.
SlotAt(g, start, i) ==
    LET a == compress_pad_tokens(start)
        n == (g.h + (g.h % 2)) * (g.w + 1)
    IN IF i <= a THEN Marker("pad")
       ELSE IF i = a + 1 THEN Marker("start")
       ELSE IF i <= a + 1 + n THEN Cell(g, order(g, i - a - 2).row, order(g, i - a - 2).col)
       ELSE IF i <= a + 1 + n + PadLast(g) THEN Marker("pad")
       ELSE Marker("end")

\* The length of a block, and what build_image_block puts at each place.
LEMMA BlockSlots ==
    ASSUME NEW g, g.h \in Nat, g.w \in Nat, NEW start \in Nat
    PROVE  /\ Len(build_image_block(g, start)) = image_block_num_tokens(g, start)
           /\ grid_tokens(g) \in Nat /\ compress_pad_tokens(start) \in 0 .. 3
           /\ image_block_num_tokens(g, start) \in Nat
           /\ DOMAIN build_image_block(g, start) = 1 .. image_block_num_tokens(g, start)
           /\ build_image_block(g, start) \in Seq(Range(build_image_block(g, start)))
           /\ \A i \in 1 .. image_block_num_tokens(g, start) :
                 build_image_block(g, start)[i] = SlotAt(g, start, i)
<1> DEFINE before == Pad(compress_pad_tokens(start))
           cells == [k \in 1 .. (g.h + (g.h % 2)) * (g.w + 1) |->
                        LET at == order(g, k - 1) IN Cell(g, at.row, at.col)]
           after == Pad(PadLast(g))
           n == (g.h + (g.h % 2)) * (g.w + 1)
           a == compress_pad_tokens(start)
<1>1. a \in 0 .. 3
  BY DEF compress_pad_tokens, CompressPadTo
<1>2. n \in Nat
  <2>1. g.h + (g.h % 2) \in Nat /\ g.w + 1 \in Nat
    OBVIOUS
  <2> QED BY <2>1
<1>3. PadLast(g) \in Nat
  <2>1. (g.h + 1) \div 2 \in Nat /\ g.w + 1 \in Nat
    OBVIOUS
  <2>2. ((g.h + 1) \div 2) * (g.w + 1) \in Nat
    BY <2>1
  <2> HIDE DEF before
  <2> QED BY <2>2 DEF PadLast
<1>4. /\ before \in Seq(Range(before)) /\ Len(before) = a
      /\ \A i \in 1 .. a : before[i] = Marker("pad")
  BY <1>1 DEF Pad, Range
<1>5. /\ cells \in Seq(Range(cells)) /\ Len(cells) = n
      /\ \A k \in 1 .. n : cells[k] = Cell(g, order(g, k - 1).row, order(g, k - 1).col)
  <2> HIDE DEF n
  <2>1. cells = [k \in 1 .. n |-> cells[k]] /\ DOMAIN cells = 1 .. n
    BY DEF n
  <2>2. \A k \in 1 .. n : cells[k] = Cell(g, order(g, k - 1).row, order(g, k - 1).col)
    BY DEF n
  <2> HIDE DEF cells
  <2> QED BY <1>2, <2>1, <2>2 DEF Range
<1>6. /\ after \in Seq(Range(after)) /\ Len(after) = PadLast(g)
      /\ \A i \in 1 .. PadLast(g) : after[i] = Marker("pad")
  BY <1>3 DEF Pad, Range
<1>7. build_image_block(g, start) = before \o <<Marker("start")>> \o cells \o after \o <<Marker("end")>>
  BY DEF build_image_block
<1> DEFINE S == Range(before) \cup Range(cells) \cup Range(after) \cup {Marker("start"), Marker("end")}
           s == <<Marker("start")>>
           e == <<Marker("end")>>
<1>8. /\ before \in Seq(S) /\ cells \in Seq(S) /\ after \in Seq(S) /\ s \in Seq(S) /\ e \in Seq(S)
      /\ Len(s) = 1 /\ Len(e) = 1 /\ s[1] = Marker("start") /\ e[1] = Marker("end")
  <2> HIDE DEF before, cells, after
  <2> QED BY <1>4, <1>5, <1>6
<1>9. grid_tokens(g) = n + 2 + PadLast(g) /\ image_block_num_tokens(g, start) = a + grid_tokens(g)
  BY DEF grid_tokens, image_block_num_tokens
<1> DEFINE block == build_image_block(g, start)
           t1 == before \o s
           t2 == t1 \o cells
           t3 == t2 \o after
<1>10. /\ block \in Seq(S) /\ Len(block) = a + 1 + n + PadLast(g) + 1
       /\ \A i \in 1 .. Len(block) : block[i] =
             IF i <= a THEN before[i]
             ELSE IF i <= a + 1 THEN s[i - a]
             ELSE IF i <= a + 1 + n THEN cells[i - (a + 1)]
             ELSE IF i <= a + 1 + n + PadLast(g) THEN after[i - (a + 1 + n)]
             ELSE e[i - (a + 1 + n + PadLast(g))]
  <2>0. block = t3 \o e
    BY <1>7
  <2> HIDE DEF before, cells, after, S, n, a, s, e, block
  <2>1. t1 \in Seq(S) /\ Join(t1, before, a, s, 1)
    BY <1>4, <1>8, Joined
  <2>2. t2 \in Seq(S) /\ Join(t2, t1, a + 1, cells, n)
    <3>1. Len(t1) = a + 1 /\ Len(cells) = n
      BY <1>5, <2>1 DEF Join
    <3> HIDE DEF t1
    <3> QED BY <1>8, <2>1, <3>1, Joined
  <2>3. t3 \in Seq(S) /\ Join(t3, t2, a + 1 + n, after, PadLast(g))
    <3>1. Len(t2) = a + 1 + n /\ Len(after) = PadLast(g)
      BY <1>6, <2>2 DEF Join
    <3> HIDE DEF t2
    <3> QED BY <1>8, <2>2, <3>1, Joined
  <2>4. block \in Seq(S) /\ Join(block, t3, a + 1 + n + PadLast(g), e, 1)
    <3>1. Len(t3) = a + 1 + n + PadLast(g)
      BY <2>3 DEF Join
    <3> HIDE DEF t3
    <3> QED BY <1>8, <2>0, <2>3, <3>1, Joined
  <2> HIDE DEF t1, t2, t3
  <2>5. Len(block) = a + 1 + n + PadLast(g) + 1
    BY <2>4 DEF Join
  <2>6. ASSUME NEW i \in 1 .. a + 1 + n + PadLast(g) + 1
        PROVE  block[i] =
             IF i <= a THEN before[i]
             ELSE IF i <= a + 1 THEN s[i - a]
             ELSE IF i <= a + 1 + n THEN cells[i - (a + 1)]
             ELSE IF i <= a + 1 + n + PadLast(g) THEN after[i - (a + 1 + n)]
             ELSE e[i - (a + 1 + n + PadLast(g))]
    <3>1. CASE i = a + 1 + n + PadLast(g) + 1
      <4> DEFINE m == a + 1 + n + PadLast(g)
      <4>1. m \in Nat /\ i = m + 1 /\ i - m = 1
        BY <1>1, <1>2, <1>3, <3>1
      <4>2. ~(i <= m) /\ ~(i <= a) /\ ~(i <= a + 1) /\ ~(i <= a + 1 + n)
        BY <1>1, <1>2, <1>3, <3>1
      <4>3. block[i] = e[i - m]
        <5>1. Join(block, t3, m, e, 1)
          BY <2>4
        <5> HIDE DEF m
        <5> QED BY <4>1, <4>2, <5>1 DEF Join
      <4> QED BY <4>2, <4>3
    <3>2. CASE i <= a + 1 + n + PadLast(g)
      <4>1. i \in 1 .. a + 1 + n + PadLast(g) /\ block[i] = t3[i]
        BY <1>1, <1>2, <1>3, <2>4, <3>2 DEF Join
      <4>2. CASE i > a + 1 + n
        <5>1. t3[i] = after[i - (a + 1 + n)]
          BY <1>1, <1>2, <1>3, <2>3, <4>1, <4>2 DEF Join
        <5> QED BY <1>1, <1>2, <1>3, <3>2, <4>1, <4>2, <5>1
      <4>3. CASE i <= a + 1 + n
        <5>1. i \in 1 .. a + 1 + n /\ t3[i] = t2[i]
          BY <1>1, <1>2, <2>3, <4>1, <4>3 DEF Join
        <5>2. CASE i > a + 1
          <6>1. t2[i] = cells[i - (a + 1)]
            BY <1>1, <1>2, <2>2, <5>1, <5>2 DEF Join
          <6> QED BY <1>1, <1>2, <4>1, <4>3, <5>1, <5>2, <6>1
        <5>3. CASE i <= a + 1
          <6>1. i \in 1 .. a + 1 /\ t2[i] = t1[i]
            BY <1>1, <2>2, <5>1, <5>3 DEF Join
          <6>2. t1[i] = IF i <= a THEN before[i] ELSE s[i - a]
            BY <1>1, <2>1, <6>1 DEF Join
          <6> QED BY <1>1, <4>1, <5>1, <5>3, <6>1, <6>2
        <5> QED BY <1>1, <5>1, <5>2, <5>3
      <4> QED BY <1>1, <1>2, <4>1, <4>2, <4>3
    <3> QED BY <1>1, <1>2, <1>3, <3>1, <3>2
  <2> QED BY <2>4, <2>5, <2>6
<1> DEFINE len == a + 1 + n + PadLast(g) + 1
<1>11. len = image_block_num_tokens(g, start) /\ grid_tokens(g) \in Nat /\ len \in Nat
  <2> HIDE DEF n, a
  <2> QED BY <1>1, <1>2, <1>3, <1>9
<1>12. ASSUME NEW i \in 1 .. len PROVE block[i] = SlotAt(g, start, i)
  <2>1. SlotAt(g, start, i) =
          IF i <= a THEN Marker("pad")
          ELSE IF i = a + 1 THEN Marker("start")
          ELSE IF i <= a + 1 + n THEN Cell(g, order(g, i - a - 2).row, order(g, i - a - 2).col)
          ELSE IF i <= a + 1 + n + PadLast(g) THEN Marker("pad")
          ELSE Marker("end")
    BY DEF SlotAt
  <2> HIDE DEF n, a, before, cells, after, block, s, e, S
  <2>2. block[i] =
             IF i <= a THEN before[i]
             ELSE IF i <= a + 1 THEN s[i - a]
             ELSE IF i <= a + 1 + n THEN cells[i - (a + 1)]
             ELSE IF i <= a + 1 + n + PadLast(g) THEN after[i - (a + 1 + n)]
             ELSE e[i - (a + 1 + n + PadLast(g))]
    BY <1>10
  <2>3. CASE i <= a
    BY <1>1, <1>4, <2>1, <2>2, <2>3
  <2>4. CASE i = a + 1
    <3>1. i - a = 1 /\ ~(i <= a)
      BY <1>1, <2>4
    <3> QED BY <1>1, <1>8, <2>1, <2>2, <2>4, <3>1
  <2>5. CASE i > a + 1 /\ i <= a + 1 + n
    <3>1. i - (a + 1) \in 1 .. n /\ i - (a + 1) - 1 = i - a - 2 /\ ~(i <= a) /\ ~(i <= a + 1) /\ i # a + 1
      BY <1>1, <1>2, <2>5
    <3> QED BY <1>5, <2>1, <2>2, <2>5, <3>1
  <2>6. CASE i > a + 1 + n /\ i <= a + 1 + n + PadLast(g)
    <3>1. i - (a + 1 + n) \in 1 .. PadLast(g)
          /\ ~(i <= a) /\ ~(i <= a + 1) /\ i # a + 1 /\ ~(i <= a + 1 + n)
      BY <1>1, <1>2, <1>3, <2>6
    <3> QED BY <1>6, <2>1, <2>2, <2>6, <3>1
  <2>7. CASE i > a + 1 + n + PadLast(g)
    <3>1. i - (a + 1 + n + PadLast(g)) = 1 /\ ~(i <= a) /\ ~(i <= a + 1) /\ i # a + 1
          /\ ~(i <= a + 1 + n) /\ ~(i <= a + 1 + n + PadLast(g))
      BY <1>1, <1>2, <1>3, <2>7
    <3> QED BY <1>8, <2>1, <2>2, <3>1
  <2> QED BY <1>1, <1>2, <1>3, <2>3, <2>4, <2>5, <2>6, <2>7
<1>13. DOMAIN block = 1 .. len /\ block \in Seq(Range(block))
  <2>1. DOMAIN block = 1 .. len
    <3> HIDE DEF block, S, n, a
    <3> QED BY <1>10
  <2>2. block = [i \in 1 .. len |-> block[i]] /\ len \in Nat
    <3> HIDE DEF block, S, n, a
    <3> QED BY <1>10, <1>11
  <2> HIDE DEF block, S, n, a, len
  <2> QED BY <2>1, <2>2 DEF Range
<1> HIDE DEF len, n, a, block
<1>14. Len(block) = len
  BY <1>10 DEF len
<1> QED BY <1>1, <1>11, <1>12, <1>13, <1>14 DEF a, block

\* What the loop takes each token to, and where it begins.
Nothing == [len |-> 0, spans |-> <<>>]
IsLaying(c, n, f) ==
    f = [i \in 0 .. n |-> IF i = 0 THEN Nothing ELSE Take(c, f[i - 1], i)]

\* A recursive function over the tokens exists: the shortest laying that did
\* not exist would extend the one before it.
LEMMA LayingExists ==
    ASSUME NEW c, NEW n \in Nat
    PROVE  \E f : IsLaying(c, n, f)
<1> DEFINE T == {m \in Nat : ~ \E f : IsLaying(c, m, f)}
<1>1. SUFFICES ASSUME T # {} PROVE FALSE
  OBVIOUS
<1>2. PICK m \in T : \A k \in T : m <= k
  <2> HIDE DEF T
  <2>1. T \in SUBSET Nat
    BY DEF T
  <2> QED BY <1>1, <2>1, LeastNatural
<1>3. CASE m = 0
  <2>1. IsLaying(c, 0, [i \in 0 .. 0 |-> Nothing])
    BY DEF IsLaying
  <2> QED BY <1>2, <1>3, <2>1
<1>4. CASE m > 0
  <2>1. m - 1 \in Nat /\ m - 1 \notin T
    BY <1>2, <1>4
  <2>2. PICK f : IsLaying(c, m - 1, f)
    BY <2>1
  <2> DEFINE g == [i \in 0 .. m |-> IF i = m THEN Take(c, f[m - 1], m) ELSE f[i]]
  <2>3. ASSUME NEW i \in 0 .. m
        PROVE  g[i] = IF i = 0 THEN Nothing ELSE Take(c, g[i - 1], i)
    <3>1. CASE i = m
      <4>1. g[m] = Take(c, f[m - 1], m) /\ g[m - 1] = f[m - 1] /\ m # 0
        BY <1>4, <2>1
      <4> HIDE DEF g
      <4> QED BY <3>1, <4>1
    <3>2. CASE i # m /\ i # 0
      <4>1. i \in 0 .. m - 1 /\ i - 1 \in 0 .. m - 1
        BY <3>2
      <4>2. f[i] = Take(c, f[i - 1], i)
        BY <2>2, <3>2, <4>1 DEF IsLaying
      <4>3. g[i] = f[i] /\ g[i - 1] = f[i - 1]
        BY <3>2, <4>1
      <4> HIDE DEF g
      <4> QED BY <3>2, <4>2, <4>3
    <3>3. CASE i # m /\ i = 0
      <4>1. f[0] = Nothing
        BY <2>1, <2>2 DEF IsLaying
      <4>2. g[0] = f[0]
        BY <3>3
      <4> HIDE DEF g
      <4> QED BY <3>3, <4>1, <4>2
    <3> QED BY <3>1, <3>2, <3>3
  <2>4. IsLaying(c, m, g)
    <3>1. g = [i \in 0 .. m |-> g[i]]
      OBVIOUS
    <3> HIDE DEF g
    <3> QED BY <2>3, <3>1 DEF IsLaying
  <2> HIDE DEF g
  <2> QED BY <1>2, <2>4
<1> QED BY <1>2, <1>3, <1>4

\* Laid, a function chosen by its recursion, has a value that satisfies it.
LEMMA LaidUnfolds ==
    ASSUME NEW c, Len(c) \in Nat
    PROVE  IsLaying(c, Len(c), Laid(c))
<1>1. \E f : IsLaying(c, Len(c), f)
  BY LayingExists
<1>2. Laid(c) = CHOOSE f : IsLaying(c, Len(c), f)
  BY DEF Laid, IsLaying, Nothing
<1> QED BY <1>1, <1>2

\* A span of a prompt: an image and as many tokens as its block has there.
Spanned == {s \in [img : Images, start : Nat, len : Nat] :
              s.len = image_block_num_tokens(Grid[s.img], s.start)}
\* Spans that follow each other up to a position.
InOrder(spans, to) ==
    /\ \A j \in 1 .. Len(spans) : spans[j].start + spans[j].len <= to
    /\ \A j, k \in 1 .. Len(spans) :
          j < k => spans[j].start + spans[j].len <= spans[k].start
LaidOut(c, acc, i) ==
    /\ acc = [len |-> acc.len, spans |-> acc.spans]
    /\ acc.len \in Nat /\ acc.spans \in Seq(Spanned) /\ InOrder(acc.spans, acc.len)
    /\ Len(acc.spans) = Cardinality({j \in Placeholders(c) : j <= i})

\* The texts and images of a conversation that was accepted.
LEMMA ChatType ==
    ASSUME NEW c \in Chats
    PROVE  /\ Len(c) \in Nat /\ DOMAIN c = 1 .. Len(c)
           /\ \A i \in DOMAIN c : c[i].part \in Images => IsToken(c, i)
           /\ IsFiniteSet(ImagesOf(c)) /\ IsFiniteSet(Placeholders(c))
           /\ ImagesOf(c) \subseteq Placeholders(c)
<1>1. c \in Seq([role : STRING, part : Images \cup {"prose", "token"}])
  BY ServingConstants
<1>2. Len(c) \in Nat /\ DOMAIN c = 1 .. Len(c)
  BY <1>1
<1>3. \A i \in DOMAIN c : c[i].part \in Images => IsToken(c, i)
  BY ServingConstants DEF IsToken
<1>4. IsFiniteSet(DOMAIN c)
  BY <1>2, FS_Interval
<1>5. ImagesOf(c) \in SUBSET DOMAIN c /\ Placeholders(c) \in SUBSET DOMAIN c
      /\ ImagesOf(c) \subseteq Placeholders(c)
  BY <1>3 DEF ImagesOf, Placeholders
<1> QED BY <1>2, <1>3, <1>4, <1>5, FS_Subset

\* Where the numbers of images and placeholders agree, each placeholder finds an image.
LEMMA NextImageExists ==
    ASSUME NEW c \in Chats, Cardinality(ImagesOf(c)) = Cardinality(Placeholders(c)),
           NEW i \in 1 .. Len(c), IsToken(c, i)
    PROVE  NextImage(c, Cardinality({j \in Placeholders(c) : j <= i - 1})) \in Images
<1>1. ImagesOf(c) = Placeholders(c)
  BY ChatType, FS_Subset
<1>2. i \in ImagesOf(c)
  BY <1>1, ChatType DEF Placeholders
<1>3. {j \in Placeholders(c) : j <= i - 1} = {j \in ImagesOf(c) : j < i}
  BY <1>1, ChatType DEF Placeholders
<1> DEFINE n == Cardinality({j \in ImagesOf(c) : j < i})
           k == CHOOSE x \in ImagesOf(c) : Cardinality({j \in ImagesOf(c) : j < x}) = n
<1>4. k \in ImagesOf(c)
  BY <1>2
<1>5. c[k].part \in Images
  <2> HIDE DEF k
  <2> QED BY <1>4 DEF ImagesOf
<1> QED BY <1>3, <1>5 DEF NextImage

\* A turn of the loop over the tokens keeps the layout.
LEMMA TakeLaysOut ==
    ASSUME NEW c \in Chats, Cardinality(ImagesOf(c)) = Cardinality(Placeholders(c)),
           NEW i \in 1 .. Len(c), NEW acc, LaidOut(c, acc, i - 1)
    PROVE  LaidOut(c, Take(c, acc, i), i)
<1> DEFINE before == {j \in Placeholders(c) : j <= i - 1}
           upto   == {j \in Placeholders(c) : j <= i}
<1>1. Placeholders(c) \subseteq 1 .. Len(c) /\ Len(c) \in Nat /\ DOMAIN c = 1 .. Len(c)
  BY ChatType DEF Placeholders
<1>2. IsFiniteSet(before) /\ i \notin before
  <2>1. before \in SUBSET Placeholders(c)
    OBVIOUS
  <2> QED BY <1>1, <2>1, ChatType, FS_Subset
<1>3. CASE ~IsToken(c, i)
  <2>1. upto = before
    BY <1>1, <1>3 DEF Placeholders
  <2>2. Take(c, acc, i) = [len |-> acc.len + 1, spans |-> acc.spans]
    BY <1>3 DEF Take, LaidOut
  <2>3. /\ acc.len + 1 \in Nat /\ acc.spans \in Seq(Spanned) /\ Len(acc.spans) = Cardinality(before)
        /\ InOrder(acc.spans, acc.len + 1)
    <3>1. \A j \in 1 .. Len(acc.spans) : acc.spans[j].start \in Nat /\ acc.spans[j].len \in Nat
      BY DEF LaidOut, Spanned
    <3>2. acc.len \in Nat /\ InOrder(acc.spans, acc.len)
      BY DEF LaidOut
    <3>3. InOrder(acc.spans, acc.len + 1)
      <4>1. \A j \in 1 .. Len(acc.spans) : acc.spans[j].start + acc.spans[j].len <= acc.len + 1
        BY <3>1, <3>2, SMTT(30) DEF InOrder
      <4> QED BY <3>2, <4>1 DEF InOrder
    <3> QED BY <3>3 DEF LaidOut
  <2> DEFINE next == [len |-> acc.len + 1, spans |-> acc.spans]
  <2>4. next.len = acc.len + 1 /\ next.spans = acc.spans /\ next = [len |-> next.len, spans |-> next.spans]
    OBVIOUS
  <2>5. Len(next.spans) = Cardinality(upto)
    BY <2>1, <2>3, <2>4
  <2> HIDE DEF next, upto, before
  <2>6. LaidOut(c, next, i)
    BY <2>3, <2>4, <2>5 DEF LaidOut, upto
  <2> QED BY <2>2, <2>6 DEF next
<1>4. CASE IsToken(c, i)
  <2>1. upto = before \cup {i}
    BY <1>1, <1>4 DEF Placeholders
  <2>2. Cardinality(upto) = Cardinality(before) + 1
    BY <1>2, <2>1, FS_AddElement
  <2> DEFINE img == NextImage(c, Len(acc.spans))
             n == Len(build_image_block(Grid[img], acc.len))
             span == [img |-> img, start |-> acc.len, len |-> n]
  <2>3. img \in Images
    BY <1>4, NextImageExists DEF LaidOut
  <2>4. n = image_block_num_tokens(Grid[img], acc.len) /\ n \in Nat
    BY <2>3, GridOfImage, BlockSlots DEF LaidOut
  <2>5. Take(c, acc, i) = [len |-> acc.len + n, spans |-> Append(acc.spans, span)]
    BY <1>4 DEF Take
  <2> HIDE DEF img, n, before, upto
  <2>6. span \in Spanned
    BY <2>3, <2>4 DEF Spanned, LaidOut
  <2>7. acc.spans \in Seq(Spanned) /\ acc.len + n \in Nat /\ Len(acc.spans) = Cardinality(before)
    BY <2>4 DEF LaidOut, before
  <2> HIDE DEF span
  <2>8. Append(acc.spans, span) \in Seq(Spanned)
        /\ Len(Append(acc.spans, span)) = Cardinality(before) + 1
    BY <2>6, <2>7
  <2>9. InOrder(Append(acc.spans, span), acc.len + n)
    <3> DEFINE next == Append(acc.spans, span)
               m == Len(acc.spans)
    <3>1. /\ m \in Nat /\ Len(next) = m + 1 /\ next[m + 1] = span
          /\ \A j \in 1 .. m : next[j] = acc.spans[j]
      BY <2>7
    <3>2. /\ span.start = acc.len /\ span.len = n /\ acc.len \in Nat /\ n \in Nat
          /\ InOrder(acc.spans, acc.len)
      BY <2>4 DEF LaidOut, span
    <3>3. \A j \in 1 .. m : acc.spans[j].start \in Nat /\ acc.spans[j].len \in Nat
      BY DEF LaidOut, Spanned
    <3> HIDE DEF next, m
    <3>4. \A j \in 1 .. m : next[j].start + next[j].len <= acc.len
      BY <3>1, <3>2 DEF InOrder, m
    <3>5. \A j \in 1 .. m + 1 : next[j].start + next[j].len <= acc.len + n
      <4> TAKE j \in 1 .. m + 1
      <4>1. CASE j = m + 1
        BY <3>1, <3>2, <4>1
      <4>2. CASE j # m + 1
        <5>1. j \in 1 .. m
          BY <3>1, <4>2
        <5>2. next[j].start \in Nat /\ next[j].len \in Nat /\ next[j].start + next[j].len <= acc.len
          BY <3>1, <3>3, <3>4, <5>1
        <5> QED BY <3>2, <5>2
      <4> QED BY <4>1, <4>2
    <3>6. ASSUME NEW j \in 1 .. m + 1, NEW k \in 1 .. m + 1, j < k
          PROVE  next[j].start + next[j].len <= next[k].start
      <4>1. j \in 1 .. m
        BY <3>1, <3>6
      <4>2. CASE k = m + 1
        BY <3>1, <3>2, <3>4, <4>1, <4>2
      <4>3. CASE k # m + 1
        <5>1. k \in 1 .. m
          BY <3>1, <4>3
        <5> QED BY <3>1, <3>2, <3>6, <4>1, <5>1 DEF InOrder, m
      <4> QED BY <4>2, <4>3
    <3>7. InOrder(next, acc.len + n)
      BY <3>1, <3>5, <3>6 DEF InOrder
    <3> QED BY <3>7 DEF next
  <2> QED BY <2>2, <2>5, <2>7, <2>8, <2>9 DEF LaidOut, upto
<1> QED BY <1>3, <1>4

\* So does the whole loop: there is no first turn that breaks it.
LEMMA LaidLaysOut ==
    ASSUME NEW c \in Chats, Cardinality(ImagesOf(c)) = Cardinality(Placeholders(c))
    PROVE  \A i \in 0 .. Len(c) : LaidOut(c, Laid(c)[i], i)
<1> DEFINE T == {i \in 0 .. Len(c) : ~LaidOut(c, Laid(c)[i], i)}
<1>1. SUFFICES ASSUME T # {} PROVE FALSE
  OBVIOUS
<1>2. Len(c) \in Nat
  BY ChatType
<1>3. PICK m \in T : \A k \in T : m <= k
  <2> HIDE DEF T
  <2>1. T \in SUBSET Nat
    BY <1>2 DEF T
  <2> QED BY <1>1, <2>1, LeastNatural
<1>4. \A i \in 0 .. Len(c) : Laid(c)[i] = IF i = 0 THEN Nothing ELSE Take(c, Laid(c)[i - 1], i)
  BY <1>2, LaidUnfolds DEF IsLaying
<1>5. CASE m = 0
  <2>1. {j \in Placeholders(c) : j <= 0} = {}
    BY ChatType DEF Placeholders
  <2>2. Nothing = [len |-> 0, spans |-> <<>>] /\ <<>> \in Seq(Spanned) /\ Len(<<>>) = 0
    BY DEF Nothing
  <2>4. LaidOut(c, Nothing, 0)
    <3> DEFINE S == {j \in Placeholders(c) : j <= 0}
    <3>1. Cardinality(S) = 0
      BY <2>1, FS_EmptySet
    <3> HIDE DEF S
    <3>2. Nothing.len = 0 /\ Nothing.spans = <<>> /\ Nothing = [len |-> Nothing.len, spans |-> Nothing.spans]
      BY <2>2
    <3>3. Len(Nothing.spans) = Cardinality(S)
      BY <2>2, <3>1, <3>2
    <3>4. InOrder(Nothing.spans, Nothing.len)
      BY <2>2, <3>2 DEF InOrder
    <3> QED BY <2>2, <3>2, <3>3, <3>4 DEF LaidOut, S
  <2>3. Laid(c)[0] = Nothing
    BY <1>2, <1>4
  <2> QED BY <1>3, <1>5, <2>3, <2>4
<1>6. CASE m # 0
  <2>1. m \in 1 .. Len(c) /\ m - 1 \in 0 .. Len(c) /\ m - 1 \notin T
    BY <1>2, <1>3, <1>6
  <2>2. LaidOut(c, Laid(c)[m - 1], m - 1)
    BY <2>1
  <2>3. LaidOut(c, Take(c, Laid(c)[m - 1], m), m)
    BY <2>1, <2>2, TakeLaysOut
  <2> QED BY <1>3, <1>4, <1>6, <2>1, <2>3
<1> QED BY <1>5, <1>6

\* The spans of a prompt are spans of its images, one after the other.
LEMMA PromptType ==
    ASSUME NEW c \in DOMAIN Prompt
    PROVE  /\ Prompt[c].len \in Nat /\ Prompt[c].spans \in Seq(Spanned)
           /\ InOrder(Prompt[c].spans, Prompt[c].len)
<1>1. c \in Chats /\ CountsMatch(c) /\ Prompt[c] = Processed(c)
  BY DEF Prompt
<1>2. CASE ImagesOf(c) = {}
  <2>1. Prompt[c].len = Len(c) /\ Prompt[c].spans = << >> /\ Len(c) \in Nat
    BY <1>1, <1>2, ChatType DEF Processed
  <2>2. Len(Prompt[c].spans) = 0 /\ Prompt[c].spans \in Seq(Spanned)
    BY <2>1
  <2> QED BY <2>1, <2>2 DEF InOrder
<1>3. CASE ImagesOf(c) # {}
  <2>1. LaidOut(c, Laid(c)[Len(c)], Len(c))
    BY <1>1, <1>3, ChatType, LaidLaysOut DEF CountsMatch
  <2> QED BY <1>1, <1>3, <2>1 DEF Processed, Spans, LaidOut
<1> QED BY <1>2, <1>3

\* No block is longer than the limit: its image was brought to a size whose
\* tokens leave room for the alignment.
LEMMA PromptFits == ASSUME NEW c \in DOMAIN Prompt PROVE Fits(c)
<1>1. \A s \in Range(Prompt[c].spans) : s \in Spanned
  BY PromptType DEF Range
<1>2. ASSUME NEW s \in Spanned PROVE s.len <= MaxTokens
  <2>1. s.img \in Images /\ s.start \in Nat /\ s.len = image_block_num_tokens(Grid[s.img], s.start)
    BY DEF Spanned
  <2>2. /\ grid_tokens(Grid[s.img]) \in Nat /\ grid_tokens(Grid[s.img]) <= Limit
        /\ compress_pad_tokens(s.start) \in 0 .. 3
    BY <2>1, GridOfImage, BlockSlots
  <2> QED BY <2>1, <2>2, LayoutConstants DEF image_block_num_tokens, Limit, CompressPadTo
<1> QED BY <1>1, <1>2 DEF Fits

-----------------------------------------------------------------------------
(* Types, and what a pass takes of each request.                           *)

CellKinds == {None, "text", "image", "mixed"}

\* The rows a request has left.
Rest(r) ==
    IF chat[r] = Free THEN {}
    ELSE {[req |-> r, pos |-> p, kind |-> KindAt(chat[r], p)] :
            p \in done[r] .. Prompt[chat[r]].len - 1}
RowsLeft ==
    /\ pc \in {"warmup", "idle"} => batch = {}
    /\ \A b \in batch : b.req \in Requests => b \in Rest(b.req)
Held ==
    /\ chat \in [Requests -> Chats \cup {Free}] /\ done \in [Requests -> Nat]
    /\ \A r \in Active : chat[r] \in DOMAIN Prompt /\ done[r] \in 0 .. Prompt[chat[r]].len - 1
TypeInv == Held /\ RowsLeft /\ TypeOK

\* The rows a request may still be given are no more than its tokens left.
LEMMA RestIsFinite ==
    ASSUME Held, NEW r \in Active, NEW S \in SUBSET Rest(r)
    PROVE  Cardinality(S) \in Nat /\ Cardinality(S) <= Prompt[chat[r]].len - done[r]
<1> DEFINE I == done[r] .. Prompt[chat[r]].len - 1
           f == [p \in I |-> [req |-> r, pos |-> p, kind |-> KindAt(chat[r], p)]]
<1>1. /\ Prompt[chat[r]].len \in Nat /\ done[r] \in 0 .. Prompt[chat[r]].len - 1
      /\ chat[r] # Free
  BY PromptType DEF Held, Active
<1>2. IsFiniteSet(I) /\ Cardinality(I) = Prompt[chat[r]].len - done[r]
  <2>1. \A a, b \in Int : IsFiniteSet(a .. b) /\ (a <= b => Cardinality(a .. b) = b - a + 1)
    BY FS_Interval
  <2>2. done[r] \in Int /\ Prompt[chat[r]].len - 1 \in Int /\ done[r] <= Prompt[chat[r]].len - 1
    BY <1>1
  <2>3. Cardinality(I) = Prompt[chat[r]].len - 1 - done[r] + 1
    BY <2>1, <2>2
  <2>4. IsFiniteSet(I)
    BY <2>1, <2>2
  <2>5. Prompt[chat[r]].len - 1 - done[r] + 1 = Prompt[chat[r]].len - done[r]
    BY <1>1
  <2> HIDE DEF I
  <2> QED BY <2>3, <2>4, <2>5
<1>3. f \in Surjection(I, Rest(r))
  BY <1>1 DEF Surjection, Rest
<1>4. IsFiniteSet(Rest(r)) /\ Cardinality(Rest(r)) <= Cardinality(I)
  <2> HIDE DEF I, f
  <2> QED BY <1>2, <1>3, FS_Surjection
<1>5. IsFiniteSet(S) /\ Cardinality(S) <= Cardinality(Rest(r))
  BY <1>4, FS_Subset
<1>6. Cardinality(S) \in Nat /\ Cardinality(Rest(r)) \in Nat
  BY <1>4, <1>5, FS_CardinalityType
<1> HIDE DEF I
<1> QED BY <1>1, <1>2, <1>4, <1>5, <1>6

LEMMA PiecesType == {0} \cup Pieces \subseteq Nat
<1>1. Pieces \subseteq Nat \ {0}
  BY ServingConstants
<1> QED BY <1>1

\* A gate reads a kind and stores a kind.
LEMMA GateType ==
    ASSUME memo \in CellKinds, NEW published \in CellKinds, current_routing_kind(published)
    PROVE  memo' \in CellKinds
BY DEF current_routing_kind, Memoize, token_routing_kind, routing_kind_from_mm, CellKinds

LEMMA FramedType ==
    ASSUME TypeInv, UNCHANGED <<chat, done, batch>>, pc' \notin {"warmup", "idle"}
    PROVE  Held' /\ RowsLeft'
BY DEF TypeInv, Held, RowsLeft, Rest, Active

LEMMA TypeStep == TypeInv /\ [Next]_vars => TypeInv'
<1> SUFFICES ASSUME TypeInv, [Next]_vars PROVE TypeInv'
  OBVIOUS
<1>1. ASSUME NEW r \in Requests, Arrive(r) PROVE TypeInv'
  <2>1. batch = {} /\ pc = "idle"
    BY <1>1 DEF Arrive, TypeInv, RowsLeft
  <2>2. Held'
    <3>1. PICK c \in Chats :
             /\ RolesAccepted(c)
             /\ IF CountsMatch(c) /\ Fits(c)
                THEN /\ chat' = [chat EXCEPT ![r] = c]
                     /\ \E n \in {0} \cup Pieces :
                          n < Prompt[c].len /\ done' = [done EXCEPT ![r] = n]
                ELSE UNCHANGED <<chat, done>>
      BY <1>1 DEF Arrive
    <3>2. CASE CountsMatch(c) /\ Fits(c)
      <4>1. c \in DOMAIN Prompt
        BY <3>1, <3>2 DEF Prompt
      <4>2. PICK n \in {0} \cup Pieces : n < Prompt[c].len /\ done' = [done EXCEPT ![r] = n]
        BY <3>1, <3>2
      <4>3. n \in 0 .. Prompt[c].len - 1
        BY <4>1, <4>2, PromptType, ServingConstants
      <4>4. chat' = [chat EXCEPT ![r] = c]
        BY <3>1, <3>2
      <4> QED BY <4>1, <4>2, <4>3, <4>4 DEF TypeInv, Held, Active
    <3>3. CASE ~(CountsMatch(c) /\ Fits(c))
      BY <3>1, <3>3 DEF TypeInv, Held, Active
    <3> QED BY <3>2, <3>3
  <2>3. RowsLeft'
    BY <1>1, <2>1 DEF Arrive, RowsLeft
  <2> QED BY <1>1, <2>2, <2>3 DEF Arrive, TypeInv, TypeOK, Held
<1>2. CASE Warmup
  <2>1. \A b \in batch' : b.req = 0
    BY <1>2 DEF Warmup
  <2>2. DOMAIN given' = batch'
    BY <1>2 DEF Warmup
  <2>3. RowsLeft'
    BY <1>2, <2>1, ServingConstants DEF Warmup, RowsLeft, Requests
  <2>4. Held'
    BY <1>2 DEF Warmup, TypeInv, Held, Active
  <2> QED BY <1>2, <2>2, <2>3, <2>4 DEF Warmup, TypeInv, TypeOK, Held
<1>3. CASE Schedule
  <2>1. PICK take \in [Active -> {0} \cup Pieces] :
            batch' = UNION {RowsOf(r, take[r]) : r \in Active}
    BY <1>3 DEF Schedule
  <2>2. ASSUME NEW r \in Active PROVE RowsOf(r, take[r]) \subseteq Rest(r)
    <3>1. done[r] \in Nat /\ Prompt[chat[r]].len \in Nat /\ chat[r] # Free
      BY PromptType DEF TypeInv, Held, Active
    <3>2. take[r] \in {0} \cup Pieces
      BY <2>1
    <3>3. take[r] \in Nat
      BY <3>2, PiecesType
    <3> QED BY <3>1, <3>3 DEF RowsOf, Rest
  <2>3. \A b \in batch' : b \in Rest(b.req)
    BY <2>1, <2>2 DEF RowsOf
  <2>4. UNCHANGED <<chat, done, cell, memo>> /\ pc' \in {"raised", "embed"}
    BY <1>3 DEF Schedule
  <2>5. RowsLeft'
    BY <2>3, <2>4 DEF RowsLeft, Rest
  <2> QED BY <2>4, <2>5 DEF TypeInv, TypeOK, Held, Active
<1>4. CASE embed_input_ids
  <2>1. /\ UNCHANGED <<chat, done, batch, memo>> /\ pc' \in {"context", "raised"}
        /\ cell' \in CellKinds
    BY <1>4 DEF embed_input_ids, Publish, routing_kind_from_mm, CellKinds
  <2>2. pc' = "context" => DOMAIN given' = batch
    BY <1>4 DEF embed_input_ids
  <2>3. Held' /\ RowsLeft'
    BY <2>1, FramedType
  <2> QED BY <2>1, <2>2, <2>3 DEF TypeInv, TypeOK, Held, CellKinds
<1>5. CASE NewContext
  <2>1. Held' /\ RowsLeft'
    BY <1>5, FramedType DEF NewContext
  <2> QED BY <1>5, <2>1 DEF NewContext, TypeInv, TypeOK, Held
<1>6. CASE Replay
  <2>1. Held' /\ RowsLeft'
    BY <1>6, FramedType DEF Replay
  <2> QED BY <1>6, <2>1 DEF Replay, TypeInv, TypeOK, Held
<1>7. CASE RunGate
  <2>1. Held' /\ RowsLeft'
    BY <1>7, FramedType DEF RunGate
  <2>2. memo' \in CellKinds
    BY <1>7, GateType DEF RunGate, TypeInv, TypeOK, CellKinds
  <2>3. cell' = None
    BY <1>7 DEF RunGate, TypeInv, TypeOK, Consume
  <2> QED BY <1>7, <2>1, <2>2, <2>3 DEF RunGate, TypeInv, TypeOK, Held, CellKinds
<1>8. CASE EndTarget
  <2>1. Held' /\ RowsLeft'
    BY <1>8, FramedType DEF EndTarget
  <2> QED BY <1>8, <2>1 DEF EndTarget, TypeInv, TypeOK, Held
<1>9. CASE BeginDraft
  <2>1. Held' /\ RowsLeft'
    BY <1>9, FramedType DEF BeginDraft
  <2> QED BY <1>9, <2>1 DEF BeginDraft, TypeInv, TypeOK, Held
<1>10. CASE RunDraftGate
  <2>1. Held' /\ RowsLeft'
    BY <1>10, FramedType DEF RunDraftGate
  <2>2. memo' \in CellKinds
    BY <1>10, GateType DEF RunDraftGate, TypeInv, TypeOK, CellKinds
  <2> QED BY <1>10, <2>1, <2>2 DEF RunDraftGate, TypeInv, TypeOK, Held, CellKinds
<1>11. CASE Finish
  <2> DEFINE next == [r \in Requests |-> done[r] + Cardinality({b \in batch : b.req = r})]
             over == {r \in Active : next[r] = Prompt[chat[r]].len}
  <2>1. /\ done' = [r \in Requests |-> IF r \in over THEN 0 ELSE next[r]]
        /\ chat' = [r \in Requests |-> IF r \in over THEN Free ELSE chat[r]]
        /\ pc' = "idle" /\ memo' = None /\ batch' = {} /\ cell' = cell
    BY <1>11 DEF Finish
  <2>2. \A b \in batch : b.req \in Requests => b \in Rest(b.req)
    BY DEF TypeInv, RowsLeft
  <2>3. ASSUME NEW r \in Requests, r \in Active
        PROVE  next[r] \in 0 .. Prompt[chat[r]].len
    <3> DEFINE S == {b \in batch : b.req = r}
    <3>1. S \in SUBSET Rest(r)
      BY <2>2
    <3>2. Cardinality(S) \in Nat /\ Cardinality(S) <= Prompt[chat[r]].len - done[r]
      BY <2>3, <3>1, RestIsFinite DEF TypeInv
    <3>3. done[r] \in Nat /\ Prompt[chat[r]].len \in Nat
      BY <2>3, PromptType DEF TypeInv, Held
    <3>4. next[r] = done[r] + Cardinality(S)
      OBVIOUS
    <3> HIDE DEF S, next
    <3> QED BY <3>2, <3>3, <3>4
  <2>4. ASSUME NEW r \in Requests, r \notin Active PROVE next[r] = done[r]
    <3>1. {b \in batch : b.req = r} = {}
      BY <2>2, <2>4 DEF Rest, Active
    <3>2. Cardinality({b \in batch : b.req = r}) = 0
      BY <3>1, FS_EmptySet
    <3>3. done[r] \in Nat
      BY DEF TypeInv, Held
    <3> QED BY <3>2, <3>3
  <2>5. \A r \in Requests : next[r] \in Nat
    <3> TAKE r \in Requests
    <3>1. CASE r \in Active
      <4>1. Prompt[chat[r]].len \in Nat
        BY <3>1, PromptType DEF TypeInv, Held
      <4> HIDE DEF next
      <4> QED BY <2>3, <3>1, <4>1
    <3>2. CASE r \notin Active
      <4> HIDE DEF next
      <4> QED BY <2>4, <3>2 DEF TypeInv, Held
    <3> QED BY <3>1, <3>2
  <2> HIDE DEF next
  <2>6. chat' \in [Requests -> Chats \cup {Free}] /\ done' \in [Requests -> Nat]
    BY <2>1, <2>5 DEF TypeInv, Held
  <2>7. ASSUME NEW r \in Active'
        PROVE  chat'[r] \in DOMAIN Prompt /\ done'[r] \in 0 .. Prompt[chat'[r]].len - 1
    <3>1. r \in Requests /\ r \in Active /\ r \notin over /\ chat'[r] = chat[r] /\ done'[r] = next[r]
      BY <2>1, <2>7 DEF Active
    <3>2. next[r] \in 0 .. Prompt[chat[r]].len /\ next[r] # Prompt[chat[r]].len
      BY <2>3, <3>1
    <3>3. chat[r] \in DOMAIN Prompt /\ Prompt[chat[r]].len \in Nat
      BY <3>1, PromptType DEF TypeInv, Held
    <3> QED BY <3>1, <3>2, <3>3
  <2>8. Held'
    BY <2>6, <2>7 DEF Held
  <2> QED BY <2>1, <2>8 DEF TypeInv, TypeOK, Held, RowsLeft, None
<1>12. CASE UNCHANGED vars
  BY <1>12 DEF vars, TypeInv, TypeOK, Held, RowsLeft, Rest, Active
<1> QED
  BY <1>1, <1>2, <1>3, <1>4, <1>5, <1>6, <1>7, <1>8, <1>9, <1>10, <1>11, <1>12 DEF Next

LEMMA TypeInit == Init => TypeInv
BY DEF Init, TypeInv, TypeOK, Held, RowsLeft, Active, None

\* Every reachable state has the types the program gives its variables, a
\* request has tokens left as long as it is in the server, and the first gate
\* of a pass has consumed what was published for it.
THEOREM TypeCorrect == Spec => []TypeOK
<1>1. TypeInv => TypeOK
  BY DEF TypeInv
<1> QED BY <1>1, TypeInit, TypeStep, PTL DEF Spec

\* Whatever the size of an image and wherever in a prompt it stands, its block
\* keeps to vision_max_n_token: no request is refused for it.
THEOREM EveryImageFitsCorrect == Spec => []EveryImageFits
<1>1. Init => EveryImageFits
  BY DEF Init, EveryImageFits
<1>2. ASSUME NEW r \in Requests, EveryImageFits, Arrive(r) PROVE EveryImageFits'
  <2>1. ASSUME NEW c \in Chats, RolesAccepted(c), CountsMatch(c) PROVE Fits(c)
    <3>1. c \in DOMAIN Prompt
      BY <2>1 DEF Prompt
    <3> QED BY <3>1, PromptFits
  <2> QED BY <1>2, <2>1 DEF Arrive, EveryImageFits
<1>3. ASSUME EveryImageFits, [Next]_vars PROVE EveryImageFits'
  <2>1. (\E r \in Requests : Arrive(r)) \/ toolong' = toolong
    BY <1>3 DEF Next, vars, Warmup, Schedule, embed_input_ids, NewContext, Replay, RunGate,
                EndTarget, BeginDraft, RunDraftGate, Finish
  <2> QED BY <1>2, <1>3, <2>1 DEF EveryImageFits
<1> QED BY <1>1, <1>3, PTL DEF Spec

-----------------------------------------------------------------------------
(* Where a block has what: Wanted turns build_image_block inside out.       *)

LEMMA Halves ==
    ASSUME NEW a \in Nat
    PROVE  a \div 2 \in Nat /\ a % 2 \in 0 .. 1 /\ a = 2 * (a \div 2) + (a % 2)
OBVIOUS

LEMMA DivisionIsUnique ==
    ASSUME NEW a \in Nat, NEW b \in Nat, NEW d \in Nat \ {0}, NEW r \in 0 .. d - 1, NEW t \in 0 .. d - 1,
           a * d + r = b * d + t
    PROVE  a = b /\ r = t
<1>1. ASSUME NEW x \in Nat, NEW y \in Nat, NEW u \in 0 .. d - 1, NEW v \in 0 .. d - 1,
             x * d + u = y * d + v, x < y
      PROVE  FALSE
  <2>1. PICK k \in Nat : y = x + 1 + k
    <3>1. y - x - 1 \in Nat /\ y = x + 1 + (y - x - 1)
      BY <1>1
    <3> QED BY <3>1
  <2>2. y * d = x * d + d + k * d /\ k * d \in Nat /\ x * d \in Nat
    BY <2>1
  <2> QED BY <1>1, <2>2
<1>2. a = b
  BY <1>1
<1>3. a * d \in Nat
  OBVIOUS
<1> QED BY <1>2, <1>3

\* Where the cell in row y and column x of a grid lies behind the start marker.
Place(g, y, x) == (y \div 2) * 2 * (g.w + 1) + 2 * x + (y % 2)
Cells(g) == (g.h + (g.h % 2)) * (g.w + 1)

\* The place of a cell lies in the block.
LEMMA PlaceType ==
    ASSUME NEW g, g.h \in Nat, g.w \in Nat, NEW y \in Nat, NEW x \in 0 .. g.w
    PROVE  /\ Place(g, y, x) \in Nat /\ 2 * x + (y % 2) \in 0 .. 2 * (g.w + 1) - 1 /\ y \div 2 \in Nat
           /\ Place(g, y, x) = (y \div 2) * (2 * (g.w + 1)) + (2 * x + (y % 2))
           /\ y < g.h => Place(g, y, x) < Cells(g)
<1> DEFINE p == y \div 2
           r == y % 2
           d == 2 * (g.w + 1)
<1>1. p \in Nat /\ r \in 0 .. 1 /\ y = 2 * p + r
  BY Division
<1>2. 2 * x + r \in 0 .. d - 1 /\ d \in Nat \ {0}
  BY <1>1
<1>3. Place(g, y, x) = p * 2 * (g.w + 1) + 2 * x + r
  BY DEF Place
<1> HIDE DEF p, r
<1>4. p * 2 * (g.w + 1) = p * (2 * (g.w + 1)) /\ p * d \in Nat
  BY <1>1
<1> HIDE DEF d
<1>5. Place(g, y, x) = p * d + (2 * x + r)
  BY <1>1, <1>3, <1>4 DEF d
<1>6. ASSUME y < g.h PROVE Place(g, y, x) < Cells(g)
  <2> DEFINE e == (g.h + 1) \div 2
  <2>1. e \in Nat /\ g.h + (g.h % 2) = 2 * e /\ p < e
    <3> DEFINE q == g.h \div 2
               m == g.h % 2
               k == (g.h + 1) % 2
    <3>1. q \in Nat /\ m \in 0 .. 1 /\ g.h = 2 * q + m
      BY Halves
    <3>2. e \in Nat /\ k \in 0 .. 1 /\ g.h + 1 = 2 * e + k
      <4>1. g.h + 1 \in Nat
        OBVIOUS
      <4> QED BY <4>1, Halves, Zenon
    <3> HIDE DEF q, m, k, e
    <3>3. g.h + m = 2 * e /\ p < e
      BY <1>1, <1>6, <3>1, <3>2
    <3> QED BY <3>2, <3>3 DEF m
  <2> HIDE DEF e
  <2>2. Cells(g) = 2 * e * (g.w + 1)
    BY <2>1 DEF Cells
  <2>3. 2 * e * (g.w + 1) = e * (2 * (g.w + 1))
    BY <2>1
  <2>4. PICK k \in Nat : e = p + 1 + k
    <3>1. e - p - 1 \in Nat /\ e = p + 1 + (e - p - 1)
      BY <1>1, <2>1
    <3> QED BY <3>1
  <2>5. e * d = p * d + d + k * d /\ k * d \in Nat
    BY <1>1, <1>2, <2>4
  <2> QED BY <1>1, <1>2, <1>4, <1>5, <2>2, <2>3, <2>5 DEF d
<1> QED BY <1>1, <1>2, <1>4, <1>5, <1>6 DEF p, r, d

\* No two cells share a place.
LEMMA PlaceIsUnique ==
    ASSUME NEW g, g.h \in Nat, g.w \in Nat, NEW y \in Nat, NEW x \in 0 .. g.w,
           NEW b \in Nat, NEW a \in 0 .. g.w, Place(g, y, x) = Place(g, b, a)
    PROVE  y = b /\ x = a
<1> DEFINE d == 2 * (g.w + 1)
           r == 2 * x + (y % 2)
           t == 2 * a + (b % 2)
<1>1. /\ y \div 2 \in Nat /\ r \in 0 .. d - 1 /\ Place(g, y, x) = (y \div 2) * d + r
      /\ b \div 2 \in Nat /\ t \in 0 .. d - 1 /\ Place(g, b, a) = (b \div 2) * d + t
  BY PlaceType
<1>2. d \in Nat \ {0}
  OBVIOUS
<1>3. y \div 2 = b \div 2 /\ r = t
  <2> DEFINE p == y \div 2
             q == b \div 2
  <2>1. p \in Nat /\ q \in Nat /\ p * d + r = q * d + t
    BY <1>1
  <2> HIDE DEF d, r, t, p, q
  <2>2. p = q /\ r = t
    BY <1>1, <1>2, <2>1, DivisionIsUnique
  <2> QED BY <2>2 DEF p, q
<1>4. /\ y = 2 * (y \div 2) + (y % 2) /\ y % 2 \in 0 .. 1
      /\ b = 2 * (b \div 2) + (b % 2) /\ b % 2 \in 0 .. 1
  BY Division
<1>5. y % 2 = b % 2 /\ x = a
  BY <1>3, <1>4
<1> QED BY <1>3, <1>4, <1>5

\* The order in which a block lists cells is the inverse of Place.
LEMMA OrderIsPlaced ==
    ASSUME NEW g, g.h \in Nat, g.w \in Nat, NEW i \in Nat
    PROVE  /\ order(g, i).row \in Nat /\ order(g, i).col \in 0 .. g.w
           /\ Place(g, order(g, i).row, order(g, i).col) = i
<1> DEFINE d == 2 * (g.w + 1)
           pair == i \div d
           within == i % d
<1>1. d \in Nat \ {0}
  OBVIOUS
<1>2. pair \in Nat /\ within \in 0 .. d - 1 /\ i = d * pair + within
  <2> HIDE DEF d
  <2> QED BY <1>1, Division
<1>3. order(g, i).row = 2 * pair + (within % 2) /\ order(g, i).col = within \div 2
  BY DEF order
<1> HIDE DEF pair, within
<1> DEFINE row == order(g, i).row
           col == order(g, i).col
           k == within % 2
<1>4. k \in 0 .. 1 /\ col \in Nat /\ within = 2 * col + k
  <2>1. within \in Nat
    BY <1>2
  <2>2. within \div 2 \in Nat /\ k \in 0 .. 1 /\ within = 2 * (within \div 2) + k
    BY <2>1, Halves
  <2> QED BY <1>3, <2>2
<1> HIDE DEF k
<1>5. row = 2 * pair + k
  BY <1>3 DEF k
<1> HIDE DEF row, col
<1>7. row \in Nat /\ col \in 0 .. g.w
  BY <1>2, <1>4, <1>5
<1>8. row \div 2 = pair /\ row % 2 = k
  BY <1>2, <1>4, <1>5
<1>9. Place(g, row, col) = pair * d + within
  <2>1. Place(g, row, col) = pair * d + (2 * col + k)
    BY <1>7, <1>8, PlaceType
  <2> QED BY <1>4, <2>1
<1>6. pair * d = d * pair
  BY <1>1, <1>2
<1> QED BY <1>2, <1>6, <1>7, <1>9 DEF row, col

\* Numbering the cells of a grid row by row.
LEMMA CellNumber ==
    ASSUME NEW h \in Nat, NEW w \in Nat
    PROVE  /\ h * w \in Nat
           /\ \A c \in 0 .. h * w - 1 :
                 /\ c \div w \in 0 .. h - 1 /\ c % w \in 0 .. w - 1
                 /\ c = (c \div w) * w + (c % w)
           /\ \A y \in 0 .. h - 1, x \in 0 .. w - 1 :
                 /\ y * w + x \in 0 .. h * w - 1
                 /\ (y * w + x) \div w = y /\ (y * w + x) % w = x
<1>1. h * w \in Nat
  OBVIOUS
<1>2. ASSUME NEW y \in 0 .. h - 1, NEW x \in 0 .. w - 1
      PROVE  y * w + x \in 0 .. h * w - 1
  <2>1. PICK k \in Nat : h = y + 1 + k
    <3>1. h - y - 1 \in Nat /\ h = y + 1 + (h - y - 1)
      OBVIOUS
    <3> QED BY <3>1
  <2>2. h * w = y * w + w + k * w /\ k * w \in Nat /\ y * w \in Nat
    BY <2>1
  <2> QED BY <2>2
<1>3. ASSUME NEW c \in 0 .. h * w - 1
      PROVE  /\ c \div w \in 0 .. h - 1 /\ c % w \in 0 .. w - 1
             /\ c = (c \div w) * w + (c % w)
  <2>1. w \in Nat \ {0} /\ c \in Nat
    BY <1>1, <1>3
  <2> DEFINE q == c \div w
             r == c % w
  <2>2. q \in Nat /\ r \in 0 .. w - 1 /\ c = w * q + r
    BY <2>1, Division
  <2> HIDE DEF q, r
  <2>3. w * q = q * w
    BY <2>2
  <2>4. q < h
    <3>1. SUFFICES ASSUME q >= h PROVE FALSE
      BY <2>2
    <3>2. PICK k \in Nat : q = h + k
      <4>1. q - h \in Nat /\ q = h + (q - h)
        BY <2>2, <3>1
      <4> QED BY <4>1
    <3>3. w * q = h * w + k * w /\ k * w \in Nat
      BY <3>2
    <3> QED BY <1>1, <2>2, <3>3
  <2> QED BY <2>2, <2>3, <2>4 DEF q, r
<1>4. ASSUME NEW y \in 0 .. h - 1, NEW x \in 0 .. w - 1
      PROVE  (y * w + x) \div w = y /\ (y * w + x) % w = x
  <2> DEFINE c == y * w + x
             q == c \div w
             r == c % w
  <2>1. c \in Nat /\ w \in Nat \ {0} /\ y \in Nat /\ x \in 0 .. w - 1
    <3>1. y * w \in Nat
      OBVIOUS
    <3> QED BY <3>1
  <2>2. c = y * w + x
    OBVIOUS
  <2> HIDE DEF c
  <2>3. q \in Nat /\ r \in 0 .. w - 1 /\ c = w * q + r
    BY <2>1, Division
  <2> HIDE DEF q, r
  <2>4. w * q = q * w
    BY <2>1, <2>3
  <2>5. q = y /\ r = x
    BY <2>1, <2>2, <2>3, <2>4, DivisionIsUnique
  <2> QED BY <2>5 DEF q, r, c
<1> QED BY <1>1, <1>2, <1>3, <1>4

LEMMA MinIs ==
    ASSUME NEW S \in SUBSET Int, NEW m \in S, \A q \in S : m <= q
    PROVE  Min(S) = m
<1>1. \E x \in S : \A y \in S : x =< y
  OBVIOUS
<1>2. Min(S) \in S /\ \A y \in S : Min(S) =< y
  BY <1>1 DEF Min
<1>3. Min(S) <= m /\ m <= Min(S) /\ Min(S) \in Int /\ m \in Int
  BY <1>2
<1> QED BY <1>3

\* Where a block begins and ends its grid: on boundaries.
LEMMA Boundaries ==
    ASSUME NEW g, g.h \in Nat, g.w \in Nat, NEW start \in Nat
    PROVE  /\ compress_pad_tokens(start) \in 0 .. 3 /\ Cells(g) \in Nat /\ PadLast(g) \in Nat
           /\ image_block_num_tokens(g, start)
                = compress_pad_tokens(start) + 1 + Cells(g) + PadLast(g) + 1
           /\ Min({q \in start .. start + 3 : q % 4 = 3}) = start + compress_pad_tokens(start)
           /\ LET begin == start + compress_pad_tokens(start) + 1
              IN Min({q \in begin + Cells(g) .. begin + Cells(g) + 3 : q % 4 = 0})
                   = begin + Cells(g) + PadLast(g)
<1> DEFINE a == compress_pad_tokens(start)
           begin == start + a + 1
           e == (g.h + 1) \div 2
           z == e * (g.w + 1)
           beyond == begin + Cells(g) + PadLast(g)
<1>1. a \in 0 .. 3 /\ (start + a) % 4 = 3 /\ a = 3 - (start % 4)
  BY DEF compress_pad_tokens, CompressPadTo
<1>2. e \in Nat /\ g.h + (g.h % 2) = 2 * e
  <2>1. g.h \in Nat /\ g.h + 1 \in Nat
    OBVIOUS
  <2> DEFINE q == g.h \div 2
             m == g.h % 2
             k == (g.h + 1) % 2
  <2>2. q \in Nat /\ m \in 0 .. 1 /\ g.h = 2 * q + m
    BY <2>1, Halves
  <2>3. e \in Nat /\ k \in 0 .. 1 /\ g.h + 1 = 2 * e + k
    BY <2>1, Halves, Zenon
  <2> HIDE DEF q, m, k, e
  <2>4. g.h + m = 2 * e
    BY <2>2, <2>3
  <2> QED BY <2>3, <2>4 DEF m
<1>3. z \in Nat /\ Cells(g) = 2 * z
  <2> HIDE DEF e
  <2>1. z \in Nat
    BY <1>2
  <2>2. Cells(g) = 2 * e * (g.w + 1)
    BY <1>2 DEF Cells
  <2>3. 2 * e * (g.w + 1) = 2 * (e * (g.w + 1))
    BY <1>2
  <2> QED BY <2>1, <2>2, <2>3
<1>4. PadLast(g) = (z % 2) * 2
  BY DEF PadLast
<1> HIDE DEF a, z
<1>5. PadLast(g) \in Nat /\ Cells(g) \in Nat
  BY <1>3, <1>4
<1>6. Min({q \in start .. start + 3 : q % 4 = 3}) = start + a
  <2> DEFINE S == {q \in start .. start + 3 : q % 4 = 3}
  <2>1. S \in SUBSET Int /\ start + a \in S
    BY <1>1
  <2>2. \A q \in S : start + a <= q
    BY <1>1
  <2> HIDE DEF S
  <2>3. Min(S) = start + a
    BY <2>1, <2>2, MinIs
  <2> QED BY <2>3 DEF S
<1>7. Min({q \in begin + Cells(g) .. begin + Cells(g) + 3 : q % 4 = 0}) = beyond
  <2> DEFINE S == {q \in begin + Cells(g) .. begin + Cells(g) + 3 : q % 4 = 0}
  <2>1. begin \in Nat /\ begin % 4 = 0
    BY <1>1
  <2>2. z % 2 \in 0 .. 1 /\ z = 2 * (z \div 2) + (z % 2) /\ z \div 2 \in Nat
    BY <1>3, Halves
  <2> HIDE DEF begin
  <2>3. beyond \in Nat /\ beyond % 4 = 0 /\ beyond \in begin + Cells(g) .. begin + Cells(g) + 3
    BY <1>3, <1>4, <2>1, <2>2
  <2>4. S \in SUBSET Int /\ beyond \in S
    BY <1>5, <2>1, <2>3
  <2>5. \A q \in S : beyond <= q
    BY <1>3, <1>4, <2>1, <2>2
  <2> HIDE DEF S, beyond
  <2>6. Min(S) = beyond
    BY <2>4, <2>5, MinIs
  <2> QED BY <2>6 DEF S
<1>8. image_block_num_tokens(g, start) = a + 1 + Cells(g) + PadLast(g) + 1
  <2>1. image_block_num_tokens(g, start) = a + (Cells(g) + 2 + PadLast(g))
    BY DEF image_block_num_tokens, grid_tokens, Cells, a
  <2> QED BY <1>1, <1>5, <2>1
<1> QED BY <1>1, <1>5, <1>6, <1>7, <1>8 DEF a

\* A block has at each place what is wanted there.
LEMMA SlotIsWanted ==
    ASSUME NEW s \in Spanned, NEW p \in s.start .. s.start + s.len - 1
    PROVE  merge_one_image(s)[p - s.start + 1] = Wanted(s, p)
<1> DEFINE g == Grid[s.img]
           start == s.start
           a == compress_pad_tokens(start)
           begin == start + a + 1
           n == Cells(g)
           beyond == begin + n + PadLast(g)
           at(y, x) == begin + (y \div 2) * 2 * (g.w + 1) + 2 * x + (y % 2)
           i == p - start + 1
<1>1. s.img \in Images /\ start \in Nat /\ s.len = image_block_num_tokens(g, start)
  BY DEF Spanned
<1>2. g.h \in Nat /\ g.w \in Nat
  BY <1>1, GridOfImage
<1>3. /\ a \in 0 .. 3 /\ n \in Nat /\ PadLast(g) \in Nat
      /\ s.len = a + 1 + n + PadLast(g) + 1
      /\ Min({q \in start .. start + 3 : q % 4 = 3}) + 1 = begin
      /\ Min({q \in begin + n .. begin + n + 3 : q % 4 = 0}) = beyond
  <2> HIDE DEF g, start
  <2> QED BY <1>1, <1>2, Boundaries
<1>4. Wanted(s, p) =
        CASE p = begin - 1 -> Marker("start")
          [] p = beyond -> Marker("end")
          [] \E y \in 0 .. g.h - 1 : at(y, g.w) = p -> Marker("newline")
          [] \E y \in 0 .. g.h - 1, x \in 0 .. g.w - 1 : at(y, x) = p ->
               <<"image", CHOOSE c \in 0 .. g.h * g.w - 1 : at(c \div g.w, c % g.w) = p>>
          [] OTHER -> Marker("pad")
  BY <1>3 DEF Wanted, Cells
<1>5. merge_one_image(s)[i] = SlotAt(g, start, i) /\ i \in 1 .. s.len
  <2>1. i \in 1 .. s.len
    BY <1>1, <1>3
  <2>2. merge_one_image(s) = build_image_block(g, start)
    BY DEF merge_one_image
  <2> HIDE DEF g, start, i, a
  <2>3. \A j \in 1 .. image_block_num_tokens(g, start) :
           build_image_block(g, start)[j] = SlotAt(g, start, j)
    BY <1>1, <1>2, BlockSlots
  <2> QED BY <1>1, <2>1, <2>2, <2>3
<1>6. SlotAt(g, start, i) =
         IF i <= a THEN Marker("pad")
         ELSE IF i = a + 1 THEN Marker("start")
         ELSE IF i <= a + 1 + n THEN Cell(g, order(g, i - a - 2).row, order(g, i - a - 2).col)
         ELSE IF i <= a + 1 + n + PadLast(g) THEN Marker("pad")
         ELSE Marker("end")
  BY DEF SlotAt, Cells
<1>7. start \in Nat /\ p \in Nat /\ i \in Nat /\ p = start + i - 1 /\ begin \in Nat
  BY <1>1, <1>3
<1>8. ASSUME NEW y \in Nat, NEW x \in 0 .. g.w
      PROVE  at(y, x) = begin + Place(g, y, x) /\ Place(g, y, x) \in Nat
             /\ (y < g.h => Place(g, y, x) < n)
  <2> HIDE DEF g, begin, n
  <2>1. Place(g, y, x) \in Nat /\ (y < g.h => Place(g, y, x) < Cells(g))
        /\ y \div 2 \in Nat
    BY <1>2, PlaceType
  <2> DEFINE u == (y \div 2) * 2 * (g.w + 1)
  <2>2. y % 2 \in 0 .. 1 /\ u \in Nat
    BY <1>2, <2>1
  <2>3. at(y, x) = begin + u + 2 * x + (y % 2) /\ Place(g, y, x) = u + 2 * x + (y % 2)
    BY DEF Place
  <2> HIDE DEF u, at
  <2> QED BY <1>7, <2>1, <2>2, <2>3 DEF n
<1>9. /\ \A y \in 0 .. g.h - 1 : y \in Nat /\ y < g.h
      /\ g.w \in 0 .. g.w /\ \A x \in 0 .. g.w - 1 : x \in 0 .. g.w
  BY <1>2
<1>10. CASE i <= a + 1 \/ i > a + 1 + n
  <2>1. ASSUME NEW y \in 0 .. g.h - 1, NEW x \in 0 .. g.w PROVE at(y, x) # p
    <3>1. at(y, x) = begin + Place(g, y, x) /\ Place(g, y, x) \in 0 .. n - 1
      <4> HIDE DEF at, g, n
      <4> QED BY <1>3, <1>8, <1>9
    <3>2. i = p - start + 1
      OBVIOUS
    <3> HIDE DEF g, n, at, i
    <3> QED BY <1>3, <1>7, <1>10, <3>1, <3>2
  <2>2. /\ ~ \E y \in 0 .. g.h - 1 : at(y, g.w) = p
        /\ ~ \E y \in 0 .. g.h - 1, x \in 0 .. g.w - 1 : at(y, x) = p
    <3> HIDE DEF at, g
    <3> QED BY <1>9, <2>1
  <2>3. /\ p = begin - 1 <=> i = a + 1
        /\ p = beyond <=> i = a + 1 + n + PadLast(g) + 1
    <3> HIDE DEF n, g
    <3> QED BY <1>3, <1>7
  <2>4. Wanted(s, p) =
        CASE p = begin - 1 -> Marker("start")
          [] p = beyond -> Marker("end")
          [] OTHER -> Marker("pad")
    <3> HIDE DEF at, g, begin, beyond
    <3> QED BY <1>4, <2>2
  <2>5. SlotAt(g, start, i) =
          IF i = a + 1 THEN Marker("start")
          ELSE IF i = a + 1 + n + PadLast(g) + 1 THEN Marker("end") ELSE Marker("pad")
    <3> HIDE DEF i, n, a, g, start
    <3> QED BY <1>3, <1>5, <1>6, <1>10
  <2>6. a + 1 # a + 1 + n + PadLast(g) + 1
    <3> HIDE DEF n, a, g
    <3> QED BY <1>3
  <2> HIDE DEF i, n, a, g, start, beyond, begin
  <2>7. merge_one_image(s)[i] = Wanted(s, p)
    BY <1>5, <2>3, <2>4, <2>5, <2>6
  <2> QED BY <2>7 DEF i, start
<1>11. CASE i > a + 1 /\ i <= a + 1 + n
  <2> DEFINE k == i - a - 2
             row == order(g, k).row
             col == order(g, k).col
  <2>1. k \in Nat /\ p = begin + k /\ p # begin - 1 /\ p # beyond
        /\ SlotAt(g, start, i) = Cell(g, row, col)
    <3>1. k \in Nat /\ p = begin + k /\ p # begin - 1 /\ p # beyond
      <4> HIDE DEF n, g
      <4> QED BY <1>3, <1>7, <1>11
    <3>2. ~(i <= a) /\ i # a + 1
      BY <1>3, <1>7, <1>11
    <3> HIDE DEF n, g, start, i, a, begin, beyond
    <3> QED BY <1>6, <1>11, <3>1, <3>2
  <2>2. row \in Nat /\ col \in 0 .. g.w /\ Place(g, row, col) = k
    <3> HIDE DEF g, k
    <3> QED BY <1>2, <2>1, OrderIsPlaced
  <2> HIDE DEF row, col
  <2>3. ASSUME NEW y \in Nat, NEW x \in 0 .. g.w
        PROVE  at(y, x) = p <=> y = row /\ x = col
    <3>1. at(y, x) = begin + Place(g, y, x) /\ Place(g, y, x) \in Nat
      BY <1>8
    <3> HIDE DEF g, at, begin, k
    <3>2. at(y, x) = p <=> Place(g, y, x) = k
      BY <1>7, <2>1, <3>1
    <3>3. Place(g, y, x) = Place(g, row, col) => y = row /\ x = col
      BY <1>2, <2>2, PlaceIsUnique
    <3> QED BY <2>2, <3>2, <3>3
  <2>4. (\E y \in 0 .. g.h - 1 : at(y, g.w) = p) <=> row < g.h /\ col = g.w
    <3> HIDE DEF g, at
    <3> QED BY <1>2, <1>9, <2>2, <2>3
  <2>5. (\E y \in 0 .. g.h - 1, x \in 0 .. g.w - 1 : at(y, x) = p) <=> row < g.h /\ col < g.w
    <3> HIDE DEF g, at
    <3> QED BY <1>2, <1>9, <2>2, <2>3
  <2>6. ASSUME row < g.h, col < g.w
        PROVE  (CHOOSE c \in 0 .. g.h * g.w - 1 : at(c \div g.w, c % g.w) = p) = row * g.w + col
    <3> DEFINE C == 0 .. g.h * g.w - 1
    <3>1. row \in 0 .. g.h - 1 /\ col \in 0 .. g.w - 1
      BY <1>2, <2>2, <2>6
    <3>2. ASSUME NEW c \in C
          PROVE  at(c \div g.w, c % g.w) = p <=> c = row * g.w + col
      <4> HIDE DEF g, at
      <4>1. /\ c \div g.w \in 0 .. g.h - 1 /\ c % g.w \in 0 .. g.w - 1
            /\ c = (c \div g.w) * g.w + (c % g.w)
        BY <1>2, CellNumber
      <4>2. at(c \div g.w, c % g.w) = p <=> c \div g.w = row /\ c % g.w = col
        BY <1>9, <2>3, <4>1
      <4>3. c = row * g.w + col => c \div g.w = row /\ c % g.w = col
        <5> DEFINE q == c \div g.w
                   r == c % g.w
                   w == g.w
        <5>1. /\ q \in Nat /\ r \in 0 .. w - 1 /\ c = q * w + r /\ w \in Nat \ {0}
              /\ row \in Nat /\ col \in 0 .. w - 1
          BY <1>2, <2>2, <3>1, <4>1
        <5> HIDE DEF q, r, w
        <5>2. row * w + col = q * w + r => row = q /\ col = r
          BY <5>1, DivisionIsUnique
        <5>3. c = row * w + col => q = row /\ r = col
          BY <5>1, <5>2
        <5> QED BY <5>3 DEF q, r, w
      <4> QED BY <4>1, <4>2, <4>3
    <3>3. row * g.w + col \in C
      <4> HIDE DEF g
      <4> QED BY <1>2, <3>1, CellNumber
    <3> HIDE DEF C, g, at
    <3>4. (CHOOSE c \in C : at(c \div g.w, c % g.w) = p) = row * g.w + col
      BY <3>2, <3>3
    <3> QED BY <3>4 DEF C
  <2>7. Cell(g, row, col) = IF row >= g.h THEN Marker("pad")
                            ELSE IF col = g.w THEN Marker("newline")
                            ELSE <<"image", row * g.w + col>>
    <3> HIDE DEF g
    <3> QED BY <1>2, <2>2 DEF Cell
  <2>8. Wanted(s, p) =
        CASE row < g.h /\ col = g.w -> Marker("newline")
          [] row < g.h /\ col < g.w ->
               <<"image", CHOOSE c \in 0 .. g.h * g.w - 1 : at(c \div g.w, c % g.w) = p>>
          [] OTHER -> Marker("pad")
    <3> DEFINE C == CHOOSE c \in 0 .. g.h * g.w - 1 : at(c \div g.w, c % g.w) = p
    <3>1. Wanted(s, p) =
        CASE p = begin - 1 -> Marker("start")
          [] p = beyond -> Marker("end")
          [] \E y \in 0 .. g.h - 1 : at(y, g.w) = p -> Marker("newline")
          [] \E y \in 0 .. g.h - 1, x \in 0 .. g.w - 1 : at(y, x) = p -> <<"image", C>>
          [] OTHER -> Marker("pad")
      BY <1>4
    <3> HIDE DEF at, g, begin, beyond, C
    <3>2. Wanted(s, p) =
        CASE row < g.h /\ col = g.w -> Marker("newline")
          [] row < g.h /\ col < g.w -> <<"image", C>>
          [] OTHER -> Marker("pad")
      BY <2>1, <2>4, <2>5, <3>1
    <3> QED BY <3>2 DEF C
  <2> DEFINE C == CHOOSE c \in 0 .. g.h * g.w - 1 : at(c \div g.w, c % g.w) = p
  <2>9. Wanted(s, p) = CASE row < g.h /\ col = g.w -> Marker("newline")
                         [] row < g.h /\ col < g.w -> <<"image", C>>
                         [] OTHER -> Marker("pad")
    BY <2>8
  <2>10. row < g.h /\ col < g.w => C = row * g.w + col
    BY <2>6
  <2> HIDE DEF C, at, g, start, i, begin, beyond, k
  <2>11. /\ g.h \in Nat /\ g.w \in Nat /\ row \in Nat /\ col \in 0 .. g.w
    BY <1>2, <2>2
  <2>12. merge_one_image(s)[i] = Wanted(s, p)
    BY <1>5, <2>1, <2>7, <2>9, <2>10, <2>11
  <2> QED BY <2>12 DEF i, start
<1> QED BY <1>3, <1>7, <1>10, <1>11

\* A block has as many image slots as the aligner has rows: merge_one_image
\* never raises.
LEMMA SlotsMatchRows ==
    ASSUME NEW s \in Spanned
    PROVE  ~LayoutMismatch(s)
<1> DEFINE g == Grid[s.img]
           a == compress_pad_tokens(s.start)
           n == Cells(g)
           block == merge_one_image(s)
           C == 0 .. g.h * g.w - 1
           f == [c \in C |-> a + 2 + Place(g, c \div g.w, c % g.w)]
<1>1. s.img \in Images /\ s.start \in Nat
  BY DEF Spanned
<1>2. g.h \in Nat /\ g.w \in Nat
  BY <1>1, GridOfImage
<1>3. AlignerRows(Size[s.img]) = g.h * g.w
  <2>1. g = grid(Size[s.img].height, Size[s.img].width)
    BY <1>1 DEF Grid
  <2>2. /\ g.h = Ceil(Size[s.img].height \div Patch, Ratio)
        /\ g.w = Ceil(Size[s.img].width \div Patch, Ratio)
    BY <2>1 DEF grid
  <2> HIDE DEF g
  <2> QED BY <2>2 DEF AlignerRows
<1>4. /\ a \in 0 .. 3 /\ n \in Nat /\ PadLast(g) \in Nat
      /\ image_block_num_tokens(g, s.start) = a + 1 + n + PadLast(g) + 1
  <2> HIDE DEF g
  <2> QED BY <1>1, <1>2, Boundaries
<1> DEFINE len == a + 1 + n + PadLast(g) + 1
<1>5. /\ DOMAIN block = 1 .. len
      /\ \A k \in 1 .. len : block[k] =
         IF k <= a THEN Marker("pad")
         ELSE IF k = a + 1 THEN Marker("start")
         ELSE IF k <= a + 1 + n THEN Cell(g, order(g, k - a - 2).row, order(g, k - a - 2).col)
         ELSE IF k <= a + 1 + n + PadLast(g) THEN Marker("pad")
         ELSE Marker("end")
  <2>1. block = build_image_block(g, s.start)
    BY DEF merge_one_image
  <2> HIDE DEF g, a, block
  <2>2. /\ DOMAIN block = 1 .. image_block_num_tokens(g, s.start)
        /\ \A k \in 1 .. image_block_num_tokens(g, s.start) : block[k] = SlotAt(g, s.start, k)
    BY <1>1, <1>2, <2>1, BlockSlots
  <2> QED BY <1>4, <2>2 DEF SlotAt, Cells, a
<1>6. \A y \in Nat, x \in 0 .. g.w :
         /\ Place(g, y, x) \in Nat /\ (y < g.h => Place(g, y, x) < n)
         /\ order(g, Place(g, y, x)) = [row |-> y, col |-> x]
  <2> TAKE y \in Nat, x \in 0 .. g.w
  <2> HIDE DEF g
  <2>1. Place(g, y, x) \in Nat /\ (y < g.h => Place(g, y, x) < Cells(g))
    BY <1>2, PlaceType
  <2> DEFINE i == Place(g, y, x)
  <2>2. /\ order(g, i).row \in Nat /\ order(g, i).col \in 0 .. g.w
        /\ Place(g, order(g, i).row, order(g, i).col) = i
    <3> HIDE DEF i
    <3> QED BY <1>2, <2>1, OrderIsPlaced DEF i
  <2>3. order(g, i).row = y /\ order(g, i).col = x
    <3> DEFINE b == order(g, i).row
               d == order(g, i).col
    <3>1. b \in Nat /\ d \in 0 .. g.w /\ Place(g, b, d) = Place(g, y, x)
      BY <2>2
    <3> HIDE DEF b, d
    <3>2. b = y /\ d = x
      BY <1>2, <3>1, PlaceIsUnique
    <3> QED BY <3>2 DEF b, d
  <2>4. order(g, i) = [row |-> order(g, i).row, col |-> order(g, i).col]
    BY DEF order
  <2> QED BY <2>1, <2>3, <2>4 DEF n
<1>7. ASSUME NEW k \in 1 .. len, block[k][1] = "image"
      PROVE  \E y \in 0 .. g.h - 1, x \in 0 .. g.w - 1 : k = a + 2 + Place(g, y, x)
  <2>1. ~(k <= a) /\ k # a + 1 /\ k <= a + 1 + n
        /\ block[k] = Cell(g, order(g, k - a - 2).row, order(g, k - a - 2).col)
    <3> HIDE DEF block, a, n, g
    <3> QED BY <1>4, <1>5, <1>7 DEF Marker
  <2> DEFINE i == k - a - 2
  <2>2. i \in Nat /\ k = a + 2 + i
    <3> HIDE DEF a, n, g
    <3> QED BY <1>4, <2>1
  <2> DEFINE row == order(g, i).row
             col == order(g, i).col
  <2>3. row \in Nat /\ col \in 0 .. g.w /\ Place(g, row, col) = i
    <3> HIDE DEF g, i
    <3> QED BY <1>2, <2>2, OrderIsPlaced
  <2>4. Cell(g, row, col)[1] = "image"
    BY <1>7, <2>1
  <2> HIDE DEF row, col, g, i, a
  <2>5. row < g.h /\ col < g.w
    BY <1>2, <2>3, <2>4 DEF Cell, Marker
  <2>6. row \in 0 .. g.h - 1 /\ col \in 0 .. g.w - 1
    BY <1>2, <2>3, <2>5
  <2> QED BY <2>2, <2>3, <2>6
<1>8. ASSUME NEW y \in 0 .. g.h - 1, NEW x \in 0 .. g.w - 1
      PROVE  a + 2 + Place(g, y, x) \in ImageSlots(block)
  <2> DEFINE k == a + 2 + Place(g, y, x)
  <2>1. /\ y \in Nat /\ y < g.h /\ x \in 0 .. g.w /\ x < g.w
    BY <1>2
  <2>2. /\ Place(g, y, x) \in 0 .. n - 1
        /\ order(g, Place(g, y, x)) = [row |-> y, col |-> x]
    <3> HIDE DEF g
    <3> QED BY <1>4, <1>6, <2>1
  <2>3. k \in 1 .. len /\ ~(k <= a) /\ k # a + 1 /\ k <= a + 1 + n /\ k - a - 2 = Place(g, y, x)
    <3> HIDE DEF g, n, a
    <3> QED BY <1>4, <2>2
  <2>4. block[k] = Cell(g, y, x)
    <3> HIDE DEF block, len, a, n, g, k
    <3>1. block[k] = Cell(g, order(g, k - a - 2).row, order(g, k - a - 2).col)
      BY <1>5, <2>3
    <3> QED BY <2>2, <2>3, <3>1
  <2>5. Cell(g, y, x) = <<"image", y * g.w + x>>
    <3> HIDE DEF g
    <3> QED BY <1>2, <2>1 DEF Cell
  <2> HIDE DEF block, len, a, g, k
  <2>6. k \in ImageSlots(block)
    BY <1>5, <2>3, <2>4, <2>5 DEF ImageSlots
  <2> QED BY <2>6 DEF k
<1>9. \A c \in C : /\ c \div g.w \in 0 .. g.h - 1 /\ c % g.w \in 0 .. g.w - 1
                   /\ c = (c \div g.w) * g.w + (c % g.w)
  <2> HIDE DEF g
  <2> QED BY <1>2, CellNumber
<1>10. f \in [C -> ImageSlots(block)]
  <2> HIDE DEF g, block, a
  <2> QED BY <1>8, <1>9
<1>11. \A c, d \in C : f[c] = f[d] => c = d
  <2> TAKE c, d \in C
  <2> HAVE f[c] = f[d]
  <2> DEFINE cy == c \div g.w
             cx == c % g.w
             dy == d \div g.w
             dx == d % g.w
  <2>1. /\ cy \in Nat /\ cx \in 0 .. g.w /\ dy \in Nat /\ dx \in 0 .. g.w
        /\ c = cy * g.w + cx /\ d = dy * g.w + dx
    <3> HIDE DEF g
    <3> QED BY <1>2, <1>9, SMTT(30)
  <2>2. a + 2 + Place(g, cy, cx) = a + 2 + Place(g, dy, dx)
    OBVIOUS
  <2> HIDE DEF cy, cx, dy, dx, g, a, f, C
  <2>3. Place(g, cy, cx) \in Nat /\ Place(g, dy, dx) \in Nat
    BY <1>6, <2>1
  <2>4. Place(g, cy, cx) = Place(g, dy, dx)
    BY <1>4, <2>2, <2>3
  <2>5. cy = dy /\ cx = dx
    BY <1>2, <2>1, <2>4, PlaceIsUnique
  <2> QED BY <2>1, <2>5
<1>12. \A k \in ImageSlots(block) : \E c \in C : f[c] = k
  <2> TAKE k \in ImageSlots(block)
  <2>1. k \in 1 .. len /\ block[k][1] = "image"
    <3> HIDE DEF block, len
    <3> QED BY <1>5 DEF ImageSlots
  <2>2. PICK y \in 0 .. g.h - 1, x \in 0 .. g.w - 1 : k = a + 2 + Place(g, y, x)
    <3> HIDE DEF block, len, g, a
    <3> QED BY <1>7, <2>1
  <2> DEFINE c == y * g.w + x
  <2>3. c \in C
    <3> HIDE DEF g
    <3> QED BY <1>2, CellNumber
  <2> HIDE DEF c
  <2>4. c \div g.w = y /\ c % g.w = x
    <3> DEFINE q == c \div g.w
               r == c % g.w
               w == g.w
    <3>1. /\ q \in Nat /\ r \in 0 .. w - 1 /\ c = q * w + r /\ w \in Nat \ {0}
          /\ y \in Nat /\ x \in 0 .. w - 1 /\ c = y * w + x
      <4>1. q \in 0 .. g.h - 1 /\ r \in 0 .. g.w - 1 /\ c = q * w + r
        BY <1>9, <2>3
      <4>2. c = y * w + x
        BY DEF c
      <4> HIDE DEF g, q, r
      <4> QED BY <1>2, <4>1, <4>2
    <3> HIDE DEF q, r, w
    <3>2. q = y /\ r = x
      BY <3>1, DivisionIsUnique
    <3> QED BY <3>2 DEF q, r, w
  <2> HIDE DEF C
  <2>5. f[c] = k
    BY <2>2, <2>3, <2>4
  <2> QED BY <2>3, <2>5
<1>13. f \in Bijection(C, ImageSlots(block))
  <2> HIDE DEF f, C, block
  <2> QED BY <1>10, <1>11, <1>12 DEF Bijection, Injection, Surjection, IsInjective
<1>14. g.h * g.w \in Nat
  <2> HIDE DEF g
  <2> QED BY <1>2, CellNumber
<1>15. IsFiniteSet(C) /\ Cardinality(C) = g.h * g.w
  <2> DEFINE m == g.h * g.w
  <2> HIDE DEF m
  <2>1. IsFiniteSet(0 .. m - 1) /\ Cardinality(0 .. m - 1) = m
    <3>1. m \in Nat
      BY <1>14 DEF m
    <3>2. 0 \in Int /\ m - 1 \in Int
      BY <3>1
    <3>3. IsFiniteSet(0 .. m - 1) /\ Cardinality(0 .. m - 1) = IF 0 > m - 1 THEN 0 ELSE m - 1 - 0 + 1
      BY <3>2, FS_Interval
    <3> QED BY <3>1, <3>3
  <2> QED BY <2>1 DEF m
<1>16. Cardinality(ImageSlots(block)) = g.h * g.w
  <2> HIDE DEF f, C, block
  <2>1. ExistsBijection(C, ImageSlots(block))
    BY <1>13 DEF ExistsBijection
  <2> QED BY <1>15, <2>1, FS_Bijection
<1> QED BY <1>3, <1>16 DEF LayoutMismatch

-----------------------------------------------------------------------------
(* Sequences that list the slots of rows.                                  *)

\* What the slots of blocks are.
Slots == UNION {Range(merge_one_image(s)) : s \in Spanned}

\* A sequence of slots lists rows: in the order of the batch, it has for each
\* of them the slot that is wanted at its position.
Right(b, slot) == \E s \in SpanAt(chat[b.req], b.pos) : slot = Wanted(s, b.pos)
Lists(q, X) ==
    /\ q \in Seq(Slots) /\ IsFiniteSet(X) /\ Len(q) = Cardinality(X)
    /\ \A b \in X : b.req \in Nat /\ b.pos \in Nat /\ Right(b, q[Rank(b, X)])
Before(b, c) == b.req < c.req \/ (b.req = c.req /\ b.pos < c.pos)

\* A rank lies between 1 and the number of rows.
LEMMA RankType ==
    ASSUME NEW X, IsFiniteSet(X), \A b \in X : b.req \in Nat /\ b.pos \in Nat, NEW b \in X
    PROVE  Rank(b, X) \in 1 .. Cardinality(X) /\ Cardinality(X) \in Nat
<1>1. UpTo(b, X) \in SUBSET X /\ b \in UpTo(b, X)
  BY DEF UpTo
<1>2. IsFiniteSet(UpTo(b, X)) /\ Cardinality(UpTo(b, X)) <= Cardinality(X)
  BY <1>1, FS_Subset
<1>3. Cardinality(UpTo(b, X)) \in Nat /\ Cardinality(X) \in Nat
  BY <1>2, FS_CardinalityType
<1>4. Cardinality(UpTo(b, X)) # 0
  BY <1>1, <1>2, FS_EmptySet
<1> QED BY <1>2, <1>3, <1>4 DEF Rank

LEMMA NothingLists == Lists(<< >>, {})
BY FS_EmptySet DEF Lists

\* Two lists, one after the other, list the rows of both.
LEMMA ListsConcat ==
    ASSUME NEW p, NEW X, Lists(p, X), NEW q, NEW Y, Lists(q, Y),
           \A b \in X, c \in Y : Before(b, c)
    PROVE  Lists(p \o q, X \cup Y)
<1>1. /\ p \in Seq(Slots) /\ q \in Seq(Slots) /\ IsFiniteSet(X) /\ IsFiniteSet(Y)
      /\ Len(p) = Cardinality(X) /\ Len(q) = Cardinality(Y)
      /\ \A b \in X \cup Y : b.req \in Nat /\ b.pos \in Nat
  BY DEF Lists
<1>2. X \cap Y = {}
  BY <1>1 DEF Before
<1>3. Cardinality(X) \in Nat /\ Cardinality(Y) \in Nat
  BY <1>1, FS_CardinalityType
<1>4. IsFiniteSet(X \cup Y) /\ Cardinality(X \cup Y) = Cardinality(X) + Cardinality(Y)
  <2>1. Cardinality(X \cap Y) = 0
    BY <1>2, FS_EmptySet
  <2>2. /\ IsFiniteSet(X \cup Y)
        /\ Cardinality(X \cup Y) = Cardinality(X) + Cardinality(Y) - Cardinality(X \cap Y)
    BY <1>1, FS_Union
  <2> QED BY <1>3, <2>1, <2>2
<1>5. /\ p \o q \in Seq(Slots) /\ Len(p \o q) = Cardinality(X \cup Y)
      /\ \A k \in 1 .. Len(p) + Len(q) :
            (p \o q)[k] = IF k <= Len(p) THEN p[k] ELSE q[k - Len(p)]
  BY <1>1, <1>4
<1>6. ASSUME NEW b \in X PROVE Right(b, (p \o q)[Rank(b, X \cup Y)])
  <2>1. UpTo(b, X \cup Y) = UpTo(b, X)
    BY <1>1 DEF UpTo, Before
  <2>2. Rank(b, X) \in 1 .. Len(p)
    BY <1>1, RankType
  <2>3. (p \o q)[Rank(b, X)] = p[Rank(b, X)]
    BY <1>1, <1>3, <1>5, <2>2
  <2> QED BY <2>1, <2>3 DEF Lists, Rank
<1>7. ASSUME NEW b \in Y PROVE Right(b, (p \o q)[Rank(b, X \cup Y)])
  <2>1. UpTo(b, X \cup Y) = X \cup UpTo(b, Y)
    BY <1>1 DEF UpTo, Before
  <2>2. UpTo(b, Y) \in SUBSET Y
    BY DEF UpTo
  <2>3. IsFiniteSet(UpTo(b, Y))
    BY <1>1, <2>2, FS_Subset
  <2>4. Cardinality(X \cap UpTo(b, Y)) = 0
    BY <1>2, <2>2, FS_EmptySet
  <2>5. Rank(b, Y) \in 1 .. Len(q)
    BY <1>1, RankType
  <2>6. Rank(b, X \cup Y) = Len(p) + Rank(b, Y)
    <3>1. Cardinality(X \cup UpTo(b, Y)) = Cardinality(X) + Cardinality(UpTo(b, Y))
             - Cardinality(X \cap UpTo(b, Y))
      BY <1>1, <2>3, FS_Union
    <3>2. Rank(b, X \cup Y) = Cardinality(X \cup UpTo(b, Y)) /\ Rank(b, Y) = Cardinality(UpTo(b, Y))
      BY <2>1 DEF Rank
    <3> QED BY <1>1, <1>3, <2>4, <2>5, <3>1, <3>2
  <2>7. (p \o q)[Rank(b, X \cup Y)] = q[Rank(b, Y)]
    BY <1>1, <1>3, <1>5, <2>5, <2>6
  <2> QED BY <2>7 DEF Lists
<1> QED BY <1>1, <1>4, <1>5, <1>6, <1>7 DEF Lists

\* FlattenSeq lays sequences end to end.
IsFlattening(seqs, n, f) ==
    f = [i \in 1 .. n |-> IF i = 1 THEN seqs[i] ELSE f[i - 1] \o seqs[i]]

\* FlattenSeq is a function chosen by its recursion; one exists.
LEMMA FlatteningExists ==
    ASSUME NEW seqs, NEW n \in Nat
    PROVE  \E f : IsFlattening(seqs, n, f)
<1> DEFINE T == {m \in Nat : ~ \E f : IsFlattening(seqs, m, f)}
<1>1. SUFFICES ASSUME T # {} PROVE FALSE
  OBVIOUS
<1>2. PICK m \in T : \A k \in T : m <= k
  <2> HIDE DEF T
  <2>1. T \in SUBSET Nat
    BY DEF T
  <2> QED BY <1>1, <2>1, LeastNatural
<1>3. CASE m = 0
  <2>1. IsFlattening(seqs, 0, [i \in 1 .. 0 |-> seqs[i]])
    BY DEF IsFlattening
  <2> QED BY <1>2, <1>3, <2>1
<1>4. CASE m > 0
  <2>1. m - 1 \in Nat /\ m - 1 \notin T
    BY <1>2, <1>4
  <2>2. PICK f : IsFlattening(seqs, m - 1, f)
    BY <2>1
  <2> DEFINE g == [i \in 1 .. m |->
                     IF i # m THEN f[i] ELSE IF m = 1 THEN seqs[m] ELSE f[m - 1] \o seqs[m]]
  <2>3. ASSUME NEW i \in 1 .. m
        PROVE  g[i] = IF i = 1 THEN seqs[i] ELSE g[i - 1] \o seqs[i]
    <3>1. CASE i = m
      <4>1. g[m] = IF m = 1 THEN seqs[m] ELSE f[m - 1] \o seqs[m]
        BY <3>1
      <4>2. m # 1 => g[m - 1] = f[m - 1]
        BY <3>1
      <4> HIDE DEF g
      <4> QED BY <3>1, <4>1, <4>2
    <3>2. CASE i # m /\ i # 1
      <4>1. i \in 1 .. m - 1 /\ i - 1 \in 1 .. m - 1
        BY <3>2
      <4>2. f[i] = f[i - 1] \o seqs[i]
        BY <2>2, <3>2, <4>1 DEF IsFlattening
      <4>3. g[i] = f[i] /\ g[i - 1] = f[i - 1]
        BY <3>2, <4>1
      <4> HIDE DEF g
      <4> QED BY <3>2, <4>2, <4>3
    <3>3. CASE i # m /\ i = 1
      <4>1. 1 \in 1 .. m - 1
        BY <3>3
      <4>2. f[1] = seqs[1]
        BY <2>2, <4>1 DEF IsFlattening
      <4>3. g[1] = f[1]
        BY <3>3
      <4> HIDE DEF g
      <4> QED BY <3>3, <4>2, <4>3
    <3> QED BY <3>1, <3>2, <3>3
  <2>4. IsFlattening(seqs, m, g)
    <3>1. g = [i \in 1 .. m |-> g[i]]
      OBVIOUS
    <3> HIDE DEF g
    <3> QED BY <2>3, <3>1 DEF IsFlattening
  <2> HIDE DEF g
  <2> QED BY <1>2, <2>4
<1> QED BY <1>2, <1>3, <1>4

\* So FlattenSeq satisfies it.
LEMMA FlattenUnfolds ==
    ASSUME NEW seqs, Len(seqs) \in Nat \ {0}
    PROVE  \E f : /\ IsFlattening(seqs, Len(seqs), f)
                  /\ FlattenSeq(seqs) = f[Len(seqs)]
<1>1. \E f : IsFlattening(seqs, Len(seqs), f)
  BY FlatteningExists
<1> DEFINE f == CHOOSE g : IsFlattening(seqs, Len(seqs), g)
<1>2. IsFlattening(seqs, Len(seqs), f)
  BY <1>1
<1>3. FlattenSeq(seqs) = f[Len(seqs)]
  BY DEF FlattenSeq, IsFlattening
<1> QED BY <1>2, <1>3

\* Where each of a sequence of lists lists rows that come before those of the
\* next ones, all of them end to end list all the rows.
LEMMA ListsFlatten ==
    ASSUME NEW n \in Nat, NEW seqs, NEW rows,
           seqs = [i \in 1 .. n |-> seqs[i]],
           \A i \in 1 .. n : Lists(seqs[i], rows[i]),
           \A i, j \in 1 .. n : i < j => \A b \in rows[i], c \in rows[j] : Before(b, c)
    PROVE  Lists(FlattenSeq(seqs), UNION {rows[i] : i \in 1 .. n})
<1>1. Len(seqs) = n
  <2>1. \A i \in 1 .. n : seqs[i] \in Seq(Slots)
    BY DEF Lists
  <2>2. seqs \in Seq(Seq(Slots))
    BY <2>1
  <2> QED BY <2>2
<1>2. CASE n = 0
  <2>1. FlattenSeq(seqs) = seqs
    BY <1>1, <1>2 DEF FlattenSeq
  <2>2. seqs \in Seq(Slots) /\ Len(seqs) = 0
    BY <1>1, <1>2
  <2>3. UNION {rows[i] : i \in 1 .. n} = {}
    BY <1>2
  <2>4. IsFiniteSet({}) /\ Cardinality({}) = 0
    BY FS_EmptySet
  <2> QED BY <2>1, <2>2, <2>3, <2>4 DEF Lists
<1>3. CASE n # 0
  <2>1. PICK f : IsFlattening(seqs, n, f) /\ FlattenSeq(seqs) = f[n]
    BY <1>1, <1>3, FlattenUnfolds
  <2>2. \A i \in 1 .. n : f[i] = IF i = 1 THEN seqs[i] ELSE f[i - 1] \o seqs[i]
    BY <2>1 DEF IsFlattening
  <2> DEFINE upto(m) == UNION {rows[i] : i \in 1 .. m}
             T == {m \in 1 .. n : ~Lists(f[m], upto(m))}
  <2>3. T = {}
    <3>1. SUFFICES ASSUME T # {} PROVE FALSE
      OBVIOUS
    <3>2. PICK m \in T : \A k \in T : m <= k
      <4> HIDE DEF T
      <4>1. T \in SUBSET Nat
        BY DEF T
      <4> QED BY <3>1, <4>1, LeastNatural
    <3>3. CASE m = 1
      <4>1. upto(1) = rows[1]
        OBVIOUS
      <4> QED BY <2>2, <3>2, <3>3, <4>1
    <3>4. CASE m # 1
      <4>1. m - 1 \in 1 .. n /\ m - 1 \notin T
        <5> HIDE DEF upto
        <5>1. m \in 1 .. n /\ m - 1 \in 1 .. n /\ ~(m <= m - 1)
          BY <3>2, <3>4
        <5> HIDE DEF T
        <5> QED BY <3>2, <5>1
      <4>2. Lists(f[m - 1], upto(m - 1))
        BY <4>1
      <4>3. \A b \in upto(m - 1), c \in rows[m] : Before(b, c)
        BY <3>2, <4>1
      <4>4. upto(m) = upto(m - 1) \cup rows[m]
        BY <3>2, <4>1
      <4>5. Lists(f[m - 1] \o seqs[m], upto(m - 1) \cup rows[m])
        <5> HIDE DEF upto
        <5> QED BY <3>2, <4>2, <4>3, ListsConcat
      <4> QED BY <2>2, <3>2, <3>4, <4>4, <4>5
    <3> QED BY <3>3, <3>4
  <2>4. n \in 1 .. n
    BY <1>3
  <2> QED BY <2>1, <2>3, <2>4
<1> QED BY <1>2, <1>3

-----------------------------------------------------------------------------
(* What the runner gathers.                                                *)

\* The encoder cache holds blocks under the keys of their spans.
CacheInv ==
    \A k \in DOMAIN cache : \E s \in Spanned : k = Key(s) /\ cache[k] = merge_one_image(s)

\* A key tells blocks apart: the length of a block gives away its alignment.
LEMMA CachedBlock ==
    ASSUME CacheInv, NEW s \in Spanned, Key(s) \in DOMAIN cache
    PROVE  cache[Key(s)] = merge_one_image(s)
<1>1. PICK t \in Spanned : Key(s) = Key(t) /\ cache[Key(s)] = merge_one_image(t)
  BY DEF CacheInv
<1>2. s.img = t.img /\ s.len = t.len
  BY <1>1 DEF Key, salt_mm_image_hash
<1> DEFINE g == Grid[s.img]
<1>3. /\ s.img \in Images /\ s.start \in Nat /\ s.len = image_block_num_tokens(g, s.start)
      /\ t.start \in Nat /\ t.len = image_block_num_tokens(g, t.start)
  BY <1>2 DEF Spanned
<1>4. /\ grid_tokens(g) \in Nat
      /\ compress_pad_tokens(s.start) \in 0 .. 3 /\ compress_pad_tokens(t.start) \in 0 .. 3
  <2>1. g.h \in Nat /\ g.w \in Nat
    BY <1>3, GridOfImage
  <2> HIDE DEF g
  <2> QED BY <1>3, <2>1, BlockSlots
<1> HIDE DEF g
<1>5. compress_pad_tokens(s.start) = compress_pad_tokens(t.start)
  <2>1. /\ s.len = compress_pad_tokens(s.start) + grid_tokens(g)
        /\ s.len = compress_pad_tokens(t.start) + grid_tokens(g)
    BY <1>2, <1>3 DEF image_block_num_tokens
  <2> QED BY <1>4, <2>1
<1>6. build_image_block(g, s.start) = build_image_block(g, t.start)
  BY <1>5 DEF build_image_block
<1> QED BY <1>1, <1>2, <1>6 DEF merge_one_image, g

Row(r, p) == [req |-> r, pos |-> p, kind |-> KindAt(chat[r], p)]

Between(r, lo, hi) == {Row(r, p) : p \in lo .. hi}

\* An interval of positions has as many rows as positions.
LEMMA RowsInInterval ==
    ASSUME NEW r, NEW lo \in Nat, NEW hi \in Nat, lo <= hi
    PROVE  IsFiniteSet(Between(r, lo, hi)) /\ Cardinality(Between(r, lo, hi)) = hi - lo + 1
<1> DEFINE I == lo .. hi
           f == [p \in I |-> Row(r, p)]
           S == {Row(r, p) : p \in lo .. hi}
<1>1. IsFiniteSet(I) /\ Cardinality(I) = hi - lo + 1
  <2>1. IsFiniteSet(lo .. hi) /\ Cardinality(lo .. hi) = IF lo > hi THEN 0 ELSE hi - lo + 1
    BY FS_Interval
  <2> QED BY <2>1
<1>2. f \in Bijection(I, S)
  <2>1. \A p, q \in I : f[p] = f[q] => p = q
    BY DEF Row
  <2> QED BY <2>1 DEF Bijection, Injection, Surjection, IsInjective
<1> HIDE DEF f, I, S
<1>3. ExistsBijection(I, S)
  BY <1>2 DEF ExistsBijection
<1>4. IsFiniteSet(S) /\ Cardinality(S) = hi - lo + 1
  BY <1>1, <1>3, FS_Bijection
<1> QED BY <1>4 DEF S, Between

\* What was scheduled is there: the rows of each request follow what it has
\* computed, and the cache has the images among them.
Scheduled(take) ==
    /\ take \in [Active -> Nat]
    /\ batch = UNION {RowsOf(r, take[r]) : r \in Active}
    /\ \A r \in Active : \A s \in Overlap(r, done[r], done[r] + take[r]) :
          s.start < Prompt[chat[r]].len => Key(s) \in DOMAIN cache

\* The rows a request has in a span.
In(r, s) == {b \in batch : b.req = r /\ b.pos \in s.start .. s.start + s.len - 1}

\* The rows of a request in a batch are an interval that begins where it was done.
LEMMA RowsOfRequest ==
    ASSUME Held, NEW take, Scheduled(take), NEW r \in Active, Rows(r) # {}
    PROVE  \E hi \in Nat :
              /\ done[r] \in Nat /\ done[r] <= hi
              /\ hi < Prompt[chat[r]].len /\ hi < done[r] + take[r]
              /\ {b \in batch : b.req = r} = Between(r, done[r], hi)
              /\ Min(Rows(r)) = done[r] /\ Max(Rows(r)) = hi
<1> DEFINE n == take[r]
           len == Prompt[chat[r]].len
           lo == done[r]
           hi == IF lo + n <= len THEN lo + n - 1 ELSE len - 1
<1>1. n \in Nat /\ len \in Nat /\ lo \in Nat
  BY PromptType DEF Scheduled, Held, Active
<1>2. {b \in batch : b.req = r} = RowsOf(r, n)
  BY DEF Scheduled, RowsOf
<1>3. RowsOf(r, n) = {Row(r, p) : p \in {q \in lo .. lo + n - 1 : q < len}}
  BY DEF RowsOf, Row
<1> HIDE DEF n, len, lo
<1>4. {q \in lo .. lo + n - 1 : q < len} = lo .. hi
  BY <1>1
<1>5. Rows(r) = {b.pos : b \in {Row(r, p) : p \in lo .. hi}}
  BY <1>2, <1>3, <1>4 DEF Rows
<1>6. Rows(r) = lo .. hi
  <2> HIDE DEF hi
  <2>1. \A p : Row(r, p).pos = p
    BY DEF Row
  <2> QED BY <1>5, <2>1
<1>7. lo <= hi
  <2> HIDE DEF hi
  <2>1. \E x : x \in lo .. hi
    BY <1>6
  <2>2. hi \in Int
    BY <1>1 DEF hi
  <2> QED BY <1>1, <2>1, <2>2
<1>8. hi \in Nat /\ hi < len /\ hi < lo + n
  BY <1>1, <1>7
<1> HIDE DEF hi
<1>9. Min(Rows(r)) = lo
  <2> DEFINE S == lo .. hi
  <2>1. S \in SUBSET Int /\ lo \in S /\ \A q \in S : lo <= q
    BY <1>1, <1>7, <1>8
  <2> HIDE DEF S
  <2>2. Min(S) = lo
    BY <2>1, MinIs
  <2> QED BY <1>6, <2>2 DEF S
<1>10. Max(Rows(r)) = hi
  <2> DEFINE S == lo .. hi
  <2>1. S \subseteq 0 .. hi /\ S # {} /\ hi \in S
    BY <1>1, <1>7, <1>8
  <2> HIDE DEF S
  <2>2. Max(S) \in S /\ hi <= Max(S)
    BY <1>8, <2>1, LargestNatural
  <2>3. Max(S) = hi
    BY <1>1, <1>8, <2>2 DEF S
  <2> QED BY <1>6, <2>3 DEF S
<1> QED BY <1>1, <1>2, <1>3, <1>4, <1>7, <1>8, <1>9, <1>10 DEF lo, len, n, Between

\* A slice of a block has the slots wanted at the positions it covers.
LEMMA SliceOfBlock ==
    ASSUME NEW s \in Spanned, NEW u \in Nat, NEW v \in Nat, u <= v,
           s.start <= u, v < s.start + s.len
    PROVE  LET q == SubSeq(merge_one_image(s), u - s.start + 1, v - s.start + 1)
           IN /\ q \in Seq(Slots) /\ Len(q) = v - u + 1
              /\ \A p \in u .. v : q[p - u + 1] = Wanted(s, p)
<1> DEFINE block == merge_one_image(s)
           q == SubSeq(block, u - s.start + 1, v - s.start + 1)
<1>1. s.img \in Images /\ s.start \in Nat /\ s.len = image_block_num_tokens(Grid[s.img], s.start)
  BY DEF Spanned
<1>2. block \in Seq(Slots) /\ Len(block) = s.len /\ s.len \in Nat
  <2>1. block \in Seq(Range(block)) /\ Len(block) = s.len /\ s.len \in Nat
    BY <1>1, GridOfImage, BlockSlots DEF merge_one_image
  <2>2. Range(block) \subseteq Slots
    <3> HIDE DEF block
    <3> QED BY DEF Slots, block
  <2> HIDE DEF block
  <2> QED BY <2>1, <2>2
<1> HIDE DEF block
<1>3. /\ q \in Seq(Slots) /\ Len(q) = v - u + 1
      /\ \A j \in 1 .. v - u + 1 : q[j] = block[u - s.start + j]
  <2> DEFINE m == u - s.start + 1
             n == v - s.start + 1
  <2>1. m \in 1 .. s.len /\ n \in 1 .. s.len /\ m <= n /\ n - m + 1 = v - u + 1
    BY <1>1, <1>2, SMTT(30)
  <2>4. \A j \in 1 .. n - m + 1 : m + j - 1 = u - s.start + j
    BY <1>1, <1>2
  <2>2. q = SubSeq(block, m, n)
    OBVIOUS
  <2> HIDE DEF m, n, q
  <2>3. /\ q \in Seq(Slots) /\ Len(q) = n - m + 1
        /\ \A j \in 1 .. n - m + 1 : q[j] = block[m + j - 1]
    <3>1. \A i \in m .. n : block[i] \in Slots
      <4> TAKE i \in m .. n
      <4>1. i \in 1 .. s.len
        BY <1>2, <2>1
      <4> QED BY <1>2, <4>1
    <3>2. m \in Int /\ n \in Int /\ m <= n
      BY <1>2, <2>1
    <3>3. /\ SubSeq(block, m, n) \in Seq(Slots)
          /\ Len(SubSeq(block, m, n)) = IF m <= n THEN n - m + 1 ELSE 0
          /\ \A j \in 1 .. n - m + 1 : SubSeq(block, m, n)[j] = block[m + j - 1]
      BY <3>1, <3>2, SubSeqProperties
    <3> QED BY <2>2, <3>2, <3>3
  <2> QED BY <2>1, <2>3, <2>4
<1>4. ASSUME NEW p \in u .. v PROVE q[p - u + 1] = Wanted(s, p)
  <2>1. /\ p - u + 1 \in 1 .. v - u + 1 /\ u - s.start + (p - u + 1) = p - s.start + 1
        /\ p \in s.start .. s.start + s.len - 1
    BY <1>1, <1>2, SMTT(30)
  <2>2. q[p - u + 1] = block[p - s.start + 1]
    <3> HIDE DEF q
    <3> QED BY <1>3, <2>1
  <2> HIDE DEF q
  <2> QED BY <2>1, <2>2, SlotIsWanted DEF block
<1> QED BY <1>3, <1>4 DEF block

\* The part of a block that a piece covers lists the rows in its span.
LEMMA PartLists ==
    ASSUME Held, CacheInv, NEW take, Scheduled(take), NEW r \in Active, Rows(r) # {},
           NEW s \in Range(Prompt[chat[r]].spans)
    PROVE  Lists(Part(r, s), In(r, s))
<1> DEFINE len == Prompt[chat[r]].len
           lo == done[r]
<1>1. s \in Spanned /\ len \in Nat /\ lo \in Nat /\ r \in Nat
  <2>1. Prompt[chat[r]].spans \in Seq(Spanned) /\ len \in Nat /\ lo \in Nat
    BY PromptType DEF Held, Active
  <2> QED BY <2>1 DEF Range, Active, Requests
<1>2. s.start \in Nat /\ s.len \in Nat /\ s.len >= 1 /\ s.img \in Images
  <2> DEFINE g == Grid[s.img]
  <2>1. s.start \in Nat /\ s.len \in Nat /\ s.img \in Images
        /\ s.len = image_block_num_tokens(g, s.start)
    BY <1>1 DEF Spanned
  <2>2. g.h \in Nat /\ g.w \in Nat
    BY <2>1, GridOfImage
  <2> HIDE DEF g
  <2>3. /\ compress_pad_tokens(s.start) \in 0 .. 3 /\ Cells(g) \in Nat /\ PadLast(g) \in Nat
        /\ s.len = compress_pad_tokens(s.start) + 1 + Cells(g) + PadLast(g) + 1
    BY <2>1, <2>2, Boundaries
  <2> QED BY <2>1, <2>3
<1>3. PICK hi \in Nat :
              /\ lo <= hi /\ hi < len /\ hi < lo + take[r]
              /\ {b \in batch : b.req = r} = Between(r, lo, hi)
              /\ Min(Rows(r)) = lo /\ Max(Rows(r)) = hi
  BY RowsOfRequest
<1> HIDE DEF len, lo
<1>4. In(r, s) = {b \in {Row(r, p) : p \in lo .. hi} : b.pos \in s.start .. s.start + s.len - 1}
  BY <1>3 DEF In, Between
<1>5. CASE s \notin Overlap(r, lo, hi + 1)
  <2>1. ~(s.start < hi + 1 /\ lo < s.start + s.len)
    BY <1>5 DEF Overlap
  <2>2. In(r, s) = {}
    BY <1>1, <1>2, <1>4, <2>1 DEF Row
  <2>3. Part(r, s) = << >>
    BY <1>3, <1>5 DEF Part
  <2> QED BY <2>2, <2>3, NothingLists
<1>6. CASE s \in Overlap(r, lo, hi + 1)
  <2> DEFINE u == IF lo <= s.start THEN s.start ELSE lo
             v == IF hi <= s.start + s.len - 1 THEN hi ELSE s.start + s.len - 1
  <2>1. s.start < hi + 1 /\ lo < s.start + s.len
    BY <1>6 DEF Overlap
  <2>2. /\ u \in Nat /\ v \in Nat /\ u <= v /\ s.start <= u /\ v < s.start + s.len
        /\ \A p \in Int : (p \in lo .. hi /\ p \in s.start .. s.start + s.len - 1) <=> p \in u .. v
    <3>1. hi \in Nat /\ lo <= hi
      BY <1>3
    <3>2. u \in Nat /\ s.start <= u /\ lo <= u /\ (u = lo \/ u = s.start)
      BY <1>1, <1>2
    <3>3. v \in Int /\ v <= hi /\ v <= s.start + s.len - 1 /\ (v = hi \/ v = s.start + s.len - 1)
      BY <1>2, <3>1
    <3> HIDE DEF u, v
    <3>4. u <= v /\ v \in Nat /\ v < s.start + s.len
      BY <1>1, <1>2, <2>1, <3>1, <3>2, <3>3
    <3>5. \A p \in Int : (p \in lo .. hi /\ p \in s.start .. s.start + s.len - 1) <=> p \in u .. v
      BY <1>1, <1>2, <3>1, <3>2, <3>3
    <3> QED BY <3>2, <3>4, <3>5
  <2>3. cache[Key(s)] = merge_one_image(s)
    <3>1. s \in Overlap(r, lo, lo + take[r])
      <4>1. take[r] \in Nat
        BY DEF Scheduled
      <4> QED BY <1>1, <1>2, <1>3, <2>1, <4>1 DEF Overlap
    <3>2. s.start < len
      BY <1>1, <1>2, <1>3, <2>1
    <3>3. Key(s) \in DOMAIN cache
      BY <3>1, <3>2 DEF Scheduled, len, lo
    <3> QED BY <1>1, <3>3, CachedBlock
  <2>4. Len(merge_one_image(s)) = s.len
    <3>1. s.len = image_block_num_tokens(Grid[s.img], s.start)
      BY <1>1 DEF Spanned
    <3> QED BY <1>2, <3>1, GridOfImage, BlockSlots DEF merge_one_image
  <2>5. Max({lo - s.start, 0}) = u - s.start
    <3> DEFINE S == {lo - s.start, 0}
    <3>1. u - s.start \in S /\ \A q \in S : u - s.start >= q
      BY <1>1, <1>2
    <3>2. S \subseteq Int
      BY <1>1, <1>2
    <3> HIDE DEF S, u
    <3>3. \E x \in S : \A y \in S : x >= y
      BY <3>1
    <3>4. Max(S) \in S /\ \A y \in S : Max(S) >= y
      BY <3>3 DEF Max
    <3>5. Max(S) >= u - s.start /\ u - s.start >= Max(S) /\ Max(S) \in Int /\ u - s.start \in Int
      BY <3>1, <3>2, <3>4
    <3>6. Max(S) = u - s.start
      BY <3>5
    <3> QED BY <3>6 DEF S
  <2>6. Min({hi + 1 - s.start, s.len, s.len}) = v - s.start + 1
    <3> DEFINE S == {hi + 1 - s.start, s.len, s.len}
    <3>1. v - s.start + 1 \in S /\ \A q \in S : v - s.start + 1 <= q
      BY <1>2, <1>3
    <3>2. S \in SUBSET Int
      BY <1>2, <1>3
    <3> HIDE DEF S, v
    <3>3. Min(S) = v - s.start + 1
      BY <3>1, <3>2, MinIs
    <3> QED BY <3>3 DEF S
  <2> DEFINE q == SubSeq(merge_one_image(s), u - s.start + 1, v - s.start + 1)
  <2>7. Part(r, s) = q
    <3> HIDE DEF u, v
    <3> QED BY <1>3, <1>6, <2>3, <2>4, <2>5, <2>6 DEF Part
  <2> HIDE DEF u, v
  <2>8. /\ q \in Seq(Slots) /\ Len(q) = v - u + 1
        /\ \A p \in u .. v : q[p - u + 1] = Wanted(s, p)
    BY <1>1, <2>2, SliceOfBlock
  <2> HIDE DEF q
  <2>9. In(r, s) = {Row(r, p) : p \in u .. v}
    <3>1. \A p : Row(r, p).pos = p
      BY DEF Row
    <3>2. \A p \in lo .. hi : p \in Int
      BY <1>1, <1>3
    <3>3. \A p \in u .. v : p \in Int
      BY <2>2
    <3> HIDE DEF Row
    <3> QED BY <1>4, <2>2, <3>1, <3>2, <3>3
  <2>10. IsFiniteSet(In(r, s)) /\ Len(q) = Cardinality(In(r, s))
    <3>1. In(r, s) = Between(r, u, v)
      BY <2>9 DEF Between
    <3> QED BY <2>2, <2>8, <3>1, RowsInInterval
  <2>11. ASSUME NEW b \in In(r, s)
         PROVE  b.req \in Nat /\ b.pos \in Nat /\ Right(b, q[Rank(b, In(r, s))])
    <3>1. PICK p \in u .. v : b = Row(r, p)
      BY <2>9, <2>11
    <3>2. b.req = r /\ b.pos = p /\ p \in Nat /\ u <= p
      BY <2>2, <3>1 DEF Row
    <3>3. UpTo(b, In(r, s)) = {Row(r, x) : x \in u .. p}
      <4>1. \A x : Row(r, x).pos = x /\ Row(r, x).req = r
        BY DEF Row
      <4>2. \A x \in Int : x \in u .. v /\ x <= p <=> x \in u .. p
        BY <2>2, <3>1
      <4>3. \A x \in u .. v : x \in Int
        BY <2>2
      <4>4. \A x \in u .. p : x \in Int
        BY <2>2
      <4>5. \A c \in In(r, s) : c.req = r
        BY DEF In
      <4> HIDE DEF Row
      <4>6. UpTo(b, In(r, s)) = {c \in {Row(r, x) : x \in u .. v} : c.pos <= p}
        BY <1>1, <2>9, <3>2, <4>5 DEF UpTo
      <4> QED BY <4>1, <4>2, <4>3, <4>4, <4>6
    <3>4. Rank(b, In(r, s)) = p - u + 1
      <4>1. UpTo(b, In(r, s)) = Between(r, u, p)
        BY <3>3 DEF Between
      <4> QED BY <2>2, <3>2, <4>1, RowsInInterval DEF Rank
    <3>5. q[Rank(b, In(r, s))] = Wanted(s, b.pos)
      BY <2>8, <3>1, <3>2, <3>4
    <3>6. s \in SpanAt(chat[b.req], b.pos)
      BY <2>11, <3>2 DEF SpanAt, In
    <3> QED BY <1>1, <3>2, <3>5, <3>6 DEF Right
  <2> QED BY <2>7, <2>8, <2>10, <2>11 DEF Lists
<1> QED BY <1>5, <1>6

\* The image rows of a request.
RowsIn(r) == {b \in is_multimodal : b.req = r}

\* The parts of the spans of a request, one after the other, list its rows.
LEMMA PartsList ==
    ASSUME Held, CacheInv, NEW take, Scheduled(take), NEW r \in Requests
    PROVE  Lists(Parts(r), RowsIn(r))
<1>1. CASE Rows(r) = {}
  <2>1. RowsIn(r) = {}
    BY <1>1 DEF RowsIn, Rows, is_multimodal
  <2>2. Parts(r) = << >>
    BY <1>1 DEF Parts
  <2> QED BY <2>1, <2>2, NothingLists
<1>2. CASE Rows(r) # {}
  <2>1. r \in Active
    <3>1. PICK b \in batch : b.req = r
      BY <1>2 DEF Rows
    <3> QED BY <3>1 DEF Scheduled, RowsOf
  <2> DEFINE c == chat[r]
             spans == Prompt[c].spans
             n == Len(spans)
             seqs == [i \in 1 .. n |-> Part(r, spans[i])]
             rows == [i \in 1 .. n |-> In(r, spans[i])]
  <2>2. c \in DOMAIN Prompt
    BY <2>1 DEF Held
  <2>3. spans \in Seq(Spanned) /\ n \in Nat /\ DOMAIN spans = 1 .. n /\ InOrder(spans, Prompt[c].len)
    <3>1. spans \in Seq(Spanned) /\ InOrder(spans, Prompt[c].len)
      BY <2>2, PromptType
    <3> HIDE DEF spans
    <3> QED BY <3>1
  <2>4. \A i \in 1 .. n : Lists(seqs[i], rows[i])
    <3> TAKE i \in 1 .. n
    <3>1. spans[i] \in Range(spans)
      BY <2>3 DEF Range
    <3>2. seqs[i] = Part(r, spans[i]) /\ rows[i] = In(r, spans[i])
      OBVIOUS
    <3>3. Lists(Part(r, spans[i]), In(r, spans[i]))
      <4> DEFINE s == spans[i]
      <4>1. s \in Range(Prompt[chat[r]].spans)
        BY <3>1
      <4> HIDE DEF s, n, seqs, rows
      <4>2. Lists(Part(r, s), In(r, s))
        BY <1>2, <2>1, <4>1, PartLists
      <4> QED BY <4>2 DEF s
    <3> QED BY <3>2, <3>3
  <2>5. ASSUME NEW i \in 1 .. n, NEW j \in 1 .. n, i < j,
               NEW a \in rows[i], NEW b \in rows[j]
        PROVE  Before(a, b)
    <3>1. a \in In(r, spans[i]) /\ b \in In(r, spans[j])
      BY <2>5
    <3>2. spans[i].start + spans[i].len <= spans[j].start
      BY <2>3, <2>5 DEF InOrder
    <3>3. /\ spans[i].start \in Nat /\ spans[i].len \in Nat
          /\ spans[j].start \in Nat /\ spans[j].len \in Nat
      <4>1. spans[i] \in Spanned /\ spans[j] \in Spanned
        BY <2>3
      <4> QED BY <4>1 DEF Spanned
    <3> HIDE DEF spans, rows
    <3> QED BY <3>1, <3>2, <3>3, SMTT(30) DEF Before, In
  <2>6. Parts(r) = FlattenSeq(seqs)
    <3> HIDE DEF n
    <3> QED BY <1>2, <2>3 DEF Parts
  <2>7. UNION {rows[i] : i \in 1 .. n} = RowsIn(r)
    <3>1. \A b \in batch : b.req = r => b.kind = KindAt(c, b.pos)
      BY DEF Scheduled, RowsOf
    <3>2. \A b \in batch : b.req = r => (b.kind = "image" <=> SpanAt(c, b.pos) # {})
      BY <3>1 DEF KindAt
    <3>3. \A p : SpanAt(c, p) # {} <=>
                   \E i \in 1 .. n : p \in spans[i].start .. spans[i].start + spans[i].len - 1
      BY <2>3 DEF SpanAt, Range
    <3>4. \A i \in 1 .. n : rows[i] = In(r, spans[i])
      OBVIOUS
    <3> HIDE DEF rows, n, spans, c
    <3> QED BY <3>2, <3>3, <3>4 DEF In, RowsIn, is_multimodal
  <2>8. seqs = [i \in 1 .. n |-> seqs[i]]
    OBVIOUS
  <2> HIDE DEF seqs, rows, n
  <2>9. Lists(FlattenSeq(seqs), UNION {rows[i] : i \in 1 .. n})
    BY <2>3, <2>4, <2>5, <2>8, ListsFlatten, SMTT(30)
  <2> QED BY <2>6, <2>7, <2>9
<1> QED BY <1>1, <1>2

\* The gathered embeddings are the slots of the image rows, in their order.
LEMMA GatheredLists ==
    ASSUME Held, CacheInv, NEW take, Scheduled(take)
    PROVE  Lists(Gathered, is_multimodal)
<1> DEFINE seqs == [r \in Requests |-> Parts(r)]
           rows == [r \in Requests |-> RowsIn(r)]
<1>1. Places \in Nat /\ Requests = 1 .. Places
  BY ServingConstants DEF Requests
<1>2. \A r \in 1 .. Places : Lists(seqs[r], rows[r])
  <2> TAKE r \in 1 .. Places
  <2>1. r \in Requests
    BY <1>1
  <2>2. seqs[r] = Parts(r) /\ rows[r] = RowsIn(r)
    BY <2>1
  <2> QED BY <2>1, <2>2, PartsList
<1>3. \A i, j \in 1 .. Places : i < j => \A b \in rows[i], c \in rows[j] : Before(b, c)
  BY <1>1 DEF RowsIn, Before
<1>4. UNION {rows[r] : r \in 1 .. Places} = is_multimodal
  <2>1. \A b \in batch : b.req \in Requests
    BY DEF Scheduled, RowsOf, Active
  <2>2. \A r \in 1 .. Places : rows[r] = RowsIn(r)
    BY <1>1
  <2> HIDE DEF rows
  <2> QED BY <1>1, <2>1, <2>2 DEF RowsIn, is_multimodal
<1>5. seqs = [r \in 1 .. Places |-> seqs[r]]
  BY <1>1
<1> HIDE DEF rows
<1>6. Gathered = FlattenSeq(seqs)
  BY DEF Gathered
<1> HIDE DEF seqs
<1>7. Lists(FlattenSeq(seqs), UNION {rows[r] : r \in 1 .. Places})
  BY <1>1, <1>2, <1>3, <1>5, ListsFlatten
<1> QED BY <1>4, <1>6, <1>7

-----------------------------------------------------------------------------
(* Every row is given its slot.                                            *)

\* What is scheduled, cached and given is laid out as it should be.
SlotsInv ==
    /\ TypeInv /\ CacheInv /\ RowsMatchLayout
    /\ pc = "embed" => \E take : Scheduled(take)

LEMMA SpansAreSpanned ==
    ASSUME NEW c \in DOMAIN Prompt
    PROVE  /\ \A s \in Range(Prompt[c].spans) : s \in Spanned
           /\ \A s \in Range(Prompt[c].spans) : s.len = image_block_num_tokens(Grid[s.img], s.start)
<1>1. Prompt[c].spans \in Seq(Spanned)
  BY PromptType
<1>2. \A s \in Range(Prompt[c].spans) : s \in Spanned
  BY <1>1 DEF Range
<1> QED BY <1>2 DEF Spanned

\* A step that leaves the cache alone and schedules and gives nothing.
LEMMA QuietStep ==
    ASSUME SlotsInv, TypeInv', cache' = cache, pc' \notin {"raised", "context", "embed"}
    PROVE  SlotsInv'
<1>1. CacheInv'
  BY DEF SlotsInv, CacheInv
<1>2. \A r \in Active' : chat'[r] \in DOMAIN Prompt
  BY DEF TypeInv, Held
<1>3. RowsMatchLayout'
  BY <1>2, SpansAreSpanned DEF RowsMatchLayout
<1> QED BY <1>1, <1>3 DEF SlotsInv

\* After Schedule, what would be gathered lists the rows of the batch.
LEMMA ScheduleGathers ==
    ASSUME SlotsInv, TypeInv', Schedule
    PROVE  SlotsInv'
<1>1. Held /\ CacheInv
  BY DEF SlotsInv, TypeInv
<1>2. PICK take \in [Active -> {0} \cup Pieces] :
         LET spans == UNION {Overlap(r, done[r], done[r] + take[r]) : r \in Active}
             new   == {s \in spans : Key(s) \notin DOMAIN cache}
             keys  == {Key(s) : s \in new}
             held  == {Key(s) : s \in UNION {Overlap(r, done[r], Prompt[chat[r]].len) : r \in Active}}
         IN /\ batch' = UNION {RowsOf(r, take[r]) : r \in Active}
            /\ \E kept \in SUBSET DOMAIN cache :
                 /\ DOMAIN cache \cap held \subseteq kept
                 /\ \E filled \in [keys -> new] :
                      /\ \A k \in keys : Key(filled[k]) = k
                      /\ cache' = [k \in kept \cup keys |->
                                     IF k \in keys THEN merge_one_image(filled[k])
                                     ELSE cache[k]]
            /\ pc' = IF \E s \in new : LayoutMismatch(s) THEN "raised" ELSE "embed"
  BY ZenonT(30) DEF Schedule
<1> DEFINE spans == UNION {Overlap(r, done[r], done[r] + take[r]) : r \in Active}
           new   == {s \in spans : Key(s) \notin DOMAIN cache}
           keys  == {Key(s) : s \in new}
           held  == {Key(s) : s \in UNION {Overlap(r, done[r], Prompt[chat[r]].len) : r \in Active}}
<1>3. PICK kept \in SUBSET DOMAIN cache, filled \in [keys -> new] :
         /\ DOMAIN cache \cap held \subseteq kept
         /\ \A k \in keys : Key(filled[k]) = k
         /\ cache' = [k \in kept \cup keys |->
                        IF k \in keys THEN merge_one_image(filled[k]) ELSE cache[k]]
  BY <1>2
<1>4. UNCHANGED <<chat, done>>
  BY DEF Schedule
<1>5. new \subseteq Spanned
  <2>1. \A r \in Active : \A s \in Overlap(r, done[r], done[r] + take[r]) : s \in Spanned
    BY <1>1, SpansAreSpanned DEF Held, Overlap
  <2> QED BY <2>1
<1>6. CacheInv'
  <2>1. ASSUME NEW k \in DOMAIN cache'
        PROVE  \E s \in Spanned : k = Key(s) /\ cache'[k] = merge_one_image(s)
    <3>1. CASE k \in keys
      <4>1. filled[k] \in Spanned /\ Key(filled[k]) = k /\ cache'[k] = merge_one_image(filled[k])
        <5> HIDE DEF keys, new
        <5> QED BY <1>3, <1>5, <3>1
      <4> QED BY <4>1
    <3>2. CASE k \notin keys
      <4>1. k \in DOMAIN cache /\ cache'[k] = cache[k]
        <5> HIDE DEF keys, new
        <5> QED BY <1>3, <2>1, <3>2
      <4> QED BY <1>1, <4>1 DEF CacheInv
    <3> QED BY <3>1, <3>2
  <2> QED BY <2>1 DEF CacheInv, Key, salt_mm_image_hash
<1>7. \A s \in new : ~LayoutMismatch(s)
  BY <1>5, SlotsMatchRows
<1>8. pc' = "embed"
  BY <1>2, <1>7
<1>9. Scheduled(take)'
  <2>1. take \in [Active' -> Nat]
    <3>1. Active' = Active
      BY <1>4 DEF Active
    <3> QED BY <3>1, PiecesType
  <2>2. batch' = UNION {RowsOf(r, take[r]) : r \in Active}
    BY <1>2
  <2>3. (batch = UNION {RowsOf(r, take[r]) : r \in Active})'
    BY <1>4, <2>2 DEF RowsOf, Active
  <2>4. ASSUME NEW r \in Active, NEW s \in Overlap(r, done[r], done[r] + take[r]),
               s.start < Prompt[chat[r]].len
        PROVE  Key(s) \in DOMAIN cache'
    <3>1. DOMAIN cache' = kept \cup keys
      BY <1>3
    <3>2. CASE Key(s) \notin DOMAIN cache
      <4>1. s \in new
        BY <2>4, <3>2
      <4>2. Key(s) \in keys
        <5> HIDE DEF new
        <5> QED BY <4>1
      <4> QED BY <3>1, <4>2
    <3>3. CASE Key(s) \in DOMAIN cache
      <4>1. s \in Overlap(r, done[r], Prompt[chat[r]].len)
        BY <2>4 DEF Overlap
      <4>2. Key(s) \in held
        BY <4>1
      <4> HIDE DEF held, keys
      <4> QED BY <1>3, <3>1, <3>3, <4>2
    <3> QED BY <3>2, <3>3
  <2>5. (\A r \in Active : \A s \in Overlap(r, done[r], done[r] + take[r]) :
          s.start < Prompt[chat[r]].len => Key(s) \in DOMAIN cache)'
    BY <1>4, <2>4 DEF Overlap, Active, Key, salt_mm_image_hash
  <2> QED BY <2>1, <2>3, <2>5 DEF Scheduled
<1>10. \A r \in Active' : chat'[r] \in DOMAIN Prompt
  BY DEF TypeInv, Held
<1>11. RowsMatchLayout'
  BY <1>8, <1>10, SpansAreSpanned DEF RowsMatchLayout
<1> QED BY <1>6, <1>9, <1>11 DEF SlotsInv

\* embed_input_ids gives every row the slot listed at its rank.
LEMMA EmbedGives ==
    ASSUME SlotsInv, TypeInv', embed_input_ids
    PROVE  SlotsInv'
<1>1. Held /\ CacheInv
  BY DEF SlotsInv, TypeInv
<1>2. PICK take : Scheduled(take)
  BY DEF SlotsInv, embed_input_ids
<1>3. Lists(Gathered, is_multimodal)
  BY <1>1, <1>2, GatheredLists
<1>4. UNCHANGED <<chat, done, cache, batch>>
  BY DEF embed_input_ids
<1>5. CacheInv'
  BY <1>1, <1>4 DEF CacheInv, Key, salt_mm_image_hash
<1>6. Cardinality(is_multimodal) = Len(Gathered)
  BY <1>3 DEF Lists
<1>7. pc' = "context" /\ given' = [b \in batch |->
          IF b \in is_multimodal THEN Gathered[Rank(b, is_multimodal)] ELSE NoSlot]
  <2>1. CASE is_multimodal = {}
    BY <2>1 DEF embed_input_ids
  <2>2. CASE is_multimodal # {}
    BY <1>6, <2>2 DEF embed_input_ids
  <2> QED BY <2>1, <2>2
<1>8. \A b \in batch : IF b \in is_multimodal
                       THEN \E s \in SpanAt(chat[b.req], b.pos) : given'[b] = Wanted(s, b.pos)
                       ELSE given'[b] = NoSlot
  BY <1>3, <1>7 DEF Lists, Right
<1>9. is_multimodal' = is_multimodal
  BY <1>4 DEF is_multimodal
<1>10. \A r \in Active' : chat'[r] \in DOMAIN Prompt
  BY DEF TypeInv, Held
<1>11. (\A r \in Active : \A s \in Range(Prompt[chat[r]].spans) :
          s.len = image_block_num_tokens(Grid[s.img], s.start))'
  BY <1>10, SpansAreSpanned
<1>12. (\A b \in batch : IF b \in is_multimodal
                       THEN \E s \in SpanAt(chat[b.req], b.pos) : given[b] = Wanted(s, b.pos)
                       ELSE given[b] = NoSlot)'
  BY <1>4, <1>8, <1>9
<1>13. RowsMatchLayout'
  BY <1>7, <1>11, <1>12 DEF RowsMatchLayout
<1> QED BY <1>5, <1>7, <1>13 DEF SlotsInv

LEMMA SlotsStep == SlotsInv /\ [Next]_vars => SlotsInv'
<1> SUFFICES ASSUME SlotsInv, [Next]_vars PROVE SlotsInv'
  OBVIOUS
<1>0. TypeInv'
  BY TypeStep DEF SlotsInv
<1>1. ASSUME NEW r \in Requests, Arrive(r) PROVE SlotsInv'
  BY <1>0, <1>1, QuietStep DEF Arrive
<1>2. CASE Warmup
  <2>1. /\ cache' = cache /\ pc' = "context"
        /\ \A b \in batch' : b.kind # "image" /\ given'[b] = NoSlot
    BY <1>2 DEF Warmup
  <2>2. CacheInv'
    BY <2>1 DEF SlotsInv, CacheInv, Key, salt_mm_image_hash
  <2>3. \A r \in Active' : chat'[r] \in DOMAIN Prompt
    BY <1>0 DEF TypeInv, Held
  <2>4. RowsMatchLayout'
    BY <2>1, <2>3, SpansAreSpanned DEF RowsMatchLayout, is_multimodal
  <2> QED BY <1>0, <2>1, <2>2, <2>4 DEF SlotsInv
<1>3. CASE Schedule
  BY <1>0, <1>3, ScheduleGathers
<1>4. CASE embed_input_ids
  BY <1>0, <1>4, EmbedGives
<1>5. CASE NewContext
  BY <1>0, <1>5, QuietStep DEF NewContext
<1>6. CASE Replay
  BY <1>0, <1>6, QuietStep DEF Replay
<1>7. CASE RunGate
  BY <1>0, <1>7, QuietStep DEF RunGate
<1>8. CASE EndTarget
  BY <1>0, <1>8, QuietStep DEF EndTarget
<1>9. CASE BeginDraft
  BY <1>0, <1>9, QuietStep DEF BeginDraft
<1>10. CASE RunDraftGate
  BY <1>0, <1>10, QuietStep DEF RunDraftGate
<1>11. CASE Finish
  BY <1>0, <1>11, QuietStep DEF Finish
<1>12. CASE UNCHANGED vars
  <2>1. UNCHANGED <<chat, done, cache, batch, given, pc>>
    BY <1>12 DEF vars
  <2>2. CacheInv'
    BY <2>1 DEF SlotsInv, CacheInv, Key, salt_mm_image_hash
  <2>3. RowsMatchLayout'
    BY <2>1 DEF SlotsInv, RowsMatchLayout, Active, is_multimodal
  <2>4. pc = "embed" => \E take : Scheduled(take)
    BY DEF SlotsInv
  <2>5. ASSUME NEW take, Scheduled(take) PROVE Scheduled(take)'
    BY <2>1, <2>5 DEF Scheduled, Active, RowsOf, Overlap, Key, salt_mm_image_hash
  <2> QED BY <1>0, <2>1, <2>2, <2>3, <2>4, <2>5 DEF SlotsInv
<1> QED
  BY <1>1, <1>2, <1>3, <1>4, <1>5, <1>6, <1>7, <1>8, <1>9, <1>10, <1>11, <1>12 DEF Next

\* However prompts are cut into pieces, whatever the encoder cache kept and
\* whichever requests share a pass, every image row is given the slot its own
\* image has at its own position, and the lengths never disagree.
THEOREM RowsMatchLayoutCorrect == Spec => []RowsMatchLayout
<1>1. Init => SlotsInv
  <2>1. Init => CacheInv /\ pc = "warmup" /\ Active = {}
    BY DEF Init, CacheInv, Active
  <2> QED BY <2>1, TypeInit DEF SlotsInv, RowsMatchLayout
<1>2. SlotsInv => RowsMatchLayout
  BY DEF SlotsInv
<1> QED BY <1>1, <1>2, SlotsStep, PTL DEF Spec
=============================================================================
