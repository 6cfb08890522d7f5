--------------------------- MODULE VisionServing ----------------------------
(***************************************************************************)
(* Image requests through the Vision-Exp overlay of the inference server:  *)
(* the check of roles the hotfix injects into the encoder, the processor   *)
(* that lays out the blocks of image tokens (processor.py), the encoder    *)
(* cache keyed by the salted hash, embed_input_ids, which publishes the    *)
(* kind of the batch, and the gates, which consume it (apply.py).          *)
(*                                                                         *)
(* The scheduler, the encoder cache and the forward context are vLLM's:    *)
(* they are modelled from how the overlay uses them. A conversation is a   *)
(* sequence of messages, each of them one token of text, a quoted image    *)
(* token, or a structured image.                                           *)
(***************************************************************************)
EXTENDS VisionLayout, TLC

CONSTANTS Images, Height, Width,  \* images and their size in pixels
          Size,                   \* what pil_to_patches makes of each
          Places,                 \* how many requests the server holds
          Chats,                  \* the conversations they bring
          Pieces,                 \* sizes of a scheduled piece of a prompt
          CacheSize,              \* encoder outputs the cache holds
          Gates, DraftGates       \* gates of the model and of its draft model

ASSUME ServingConstants ==
    /\ Height \in [Images -> Nat \ {0}] /\ Width \in [Images -> Nat \ {0}]
    /\ \A c \in Chats : c \in Seq([role : STRING, part : Images \cup {"prose", "token"}])
    /\ "prose" \notin Images
    /\ Size = [i \in Images |-> pil_to_patches(Height[i], Width[i])]
    /\ Places \in Nat /\ CacheSize \in Nat
    /\ Gates \in Nat \ {0} /\ DraftGates \in Nat
    /\ Pieces \subseteq Nat \ {0}

VARIABLES chat,     \* the conversation of each request
          done,     \* how many tokens of its prompt are computed
          cache,    \* the encoder's outputs, by salted hash
          batch,    \* the rows of the pass: request, position, what it is
          given,    \* until the pass begins: the slot each row is given
          pc,       \* where the runner is
          cell,     \* _dspark_routing_kind_cell of the model
          memo,     \* the attribute on the current ForwardContext
          routed,   \* the routes of the gates that have run
          syncs,    \* waits for the device to classify the rows of this pass
          toolong   \* a request was refused for the length of a block

vars == <<chat, done, cache, batch, given, pc, cell, memo, routed, syncs, toolong>>

Requests == 1 .. Places

Free == "free"   \* no request in this place
None == "none"
NoSlot == Marker("text")   \* what a row of text is given
-----------------------------------------------------------------------------
\* _validate_no_image_sp_tokens: the text of tools is not looked at.
HasImage(msg) ==
    \/ msg.part \in Images
    \/ msg.part = "token" /\ msg.role \notin {"tool", "function"}
RolesAccepted(c) ==
    \A i \in DOMAIN c : c[i].role \in {"user", "developer"} \/ ~HasImage(c[i])

ImagesOf(c)     == {i \in DOMAIN c : c[i].part \in Images}
IsToken(c, i)   == c[i].part # "prose"
Placeholders(c) == {i \in DOMAIN c : IsToken(c, i)}

\* image_iter after the first n images.
NextImage(c, n) ==
    c[CHOOSE i \in ImagesOf(c) : Cardinality({j \in ImagesOf(c) : j < i}) = n].part

Grid == [i \in Images |-> grid(Size[i].height, Size[i].width)]

\* The loop of _call_hf_processor: each placeholder takes the next image and
\* grows by its block, whose length depends on the position it starts at.
Take(c, acc, i) ==
    IF ~IsToken(c, i) THEN [acc EXCEPT !.len = @ + 1]
    ELSE LET img == NextImage(c, Len(acc.spans))
             n   == Len(build_image_block(Grid[img], acc.len))
         IN [len   |-> acc.len + n,
             spans |-> Append(acc.spans, [img |-> img, start |-> acc.len, len |-> n])]
Laid(c) ==
    LET laid[i \in 0 .. Len(c)] ==
          IF i = 0 THEN [len |-> 0, spans |-> <<>>] ELSE Take(c, laid[i - 1], i)
    IN laid
Spans(c) == Laid(c)[Len(c)]

\* A prompt without images is not looked at. Too few images end in
\* StopIteration, too many in a ValueError, as does a block that is too long.
CountsMatch(c) == ImagesOf(c) = {} \/ Cardinality(ImagesOf(c)) = Cardinality(Placeholders(c))
Processed(c) == IF ImagesOf(c) = {} THEN [len |-> Len(c), spans |-> <<>>] ELSE Spans(c)
Prompt == [c \in {d \in Chats : RolesAccepted(d) /\ CountsMatch(d)} |-> Processed(c)]
Fits(c) == \A s \in Range(Prompt[c].spans) : s.len <= MaxTokens

SpanAt(c, p) == {s \in Range(Prompt[c].spans) : p \in s.start .. s.start + s.len - 1}
KindAt(c, p) == IF SpanAt(c, p) # {} THEN "image"
                ELSE IF ImagesOf(c) = {} /\ IsToken(c, p + 1) THEN "stray"
                ELSE "text"
\* Raw token ids reach the gates: a stray image token looks like an image.
ImageRows == {b \in batch : b.kind # "text"}
is_multimodal == {b \in batch : b.kind = "image"}

\* (The hash of the image alone, as before issue 172.)
ContentHash(img, len) == <<img, 0>>
salt_mm_image_hash(img, len) == <<img, len>>
Key(span) == salt_mm_image_hash(span.img, span.len)

Active == {r \in Requests : chat[r] # Free}
Left(r) == Prompt[chat[r]].len - done[r]
\* The images a piece of a prompt overlaps.
Overlap(r, from, to) == {s \in Range(Prompt[chat[r]].spans) :
                          s.start < to /\ from < s.start + s.len}
-----------------------------------------------------------------------------
Init == /\ chat = [r \in Requests |-> Free]
        /\ done = [r \in Requests |-> 0]
        /\ cache = << >> /\ batch = {} /\ given = << >> /\ routed = << >>
        /\ pc = "warmup"
        /\ cell = None /\ memo = None
        /\ syncs = 0 /\ toolong = FALSE

\* A pass over dummy tokens before the server is ready: nothing is embedded,
\* so nothing is published.
Warmup ==
    /\ pc = "warmup"
    /\ \E kinds \in {<<"text">>, <<"stray">>, <<"text", "stray">>} :
         /\ batch' = {[req |-> 0, pos |-> i, kind |-> kinds[i]] : i \in DOMAIN kinds}
         /\ given' = [b \in batch' |-> NoSlot]
    /\ pc' = "context"
    /\ UNCHANGED <<chat, done, cache, cell, memo, routed, syncs, toolong>>

\* A request arrives; a hit of the prefix cache may spare it some tokens.
Arrive(r) ==
    /\ pc = "idle" /\ chat[r] = Free
    /\ \E c \in Chats :
         /\ RolesAccepted(c)
         /\ IF CountsMatch(c) /\ Fits(c)
            THEN /\ chat' = [chat EXCEPT ![r] = c]
                 /\ \E n \in {0} \cup Pieces :
                      n < Prompt[c].len /\ done' = [done EXCEPT ![r] = n]
                 /\ UNCHANGED toolong
            ELSE /\ toolong' = (toolong \/ CountsMatch(c))
                 /\ UNCHANGED <<chat, done>>
    /\ UNCHANGED <<cache, batch, given, pc, cell, memo, routed, syncs>>

\* embed_multimodal and merge_one_image: the block, with its slots filled by
\* the rows of the aligner. It raises when there are not as many of them.
merge_one_image(span) == build_image_block(Grid[span.img], span.start)
ImageSlots(block) == {k \in DOMAIN block : block[k][1] = "image"}
LayoutMismatch(span) ==
    AlignerRows(Size[span.img]) # Cardinality(ImageSlots(merge_one_image(span)))

RowsOf(r, n) == {[req |-> r, pos |-> p, kind |-> KindAt(chat[r], p)] :
    p \in {q \in done[r] .. done[r] + n - 1 : q < Prompt[chat[r]].len}}

\* The scheduler takes a piece of each of some requests, and the encoder runs
\* for the images among them that are not in the cache.
Schedule ==
    /\ pc = "idle"
    /\ \E take \in [Active -> {0} \cup Pieces] :
         LET spans == UNION {Overlap(r, done[r], done[r] + take[r]) : r \in Active}
             new   == {s \in spans : Key(s) \notin DOMAIN cache}
             keys  == {Key(s) : s \in new}
             held  == {Key(s) : s \in UNION {Overlap(r, done[r], Prompt[chat[r]].len) : r \in Active}}
         IN /\ batch' = UNION {RowsOf(r, take[r]) : r \in Active}
            /\ batch' # {}
            /\ \E kept \in SUBSET DOMAIN cache :
                 /\ DOMAIN cache \cap held \subseteq kept
                 /\ kept = DOMAIN cache \/ Cardinality(DOMAIN cache \cup keys) > CacheSize
                 /\ \E filled \in [keys -> new] :
                      /\ \A k \in keys : Key(filled[k]) = k
                      /\ cache' = [k \in kept \cup keys |->
                                     IF k \in keys THEN merge_one_image(filled[k])
                                     ELSE cache[k]]
            /\ pc' = IF \E s \in new : LayoutMismatch(s) THEN "raised" ELSE "embed"
    /\ syncs' = 0
    /\ UNCHANGED <<chat, done, given, cell, memo, routed, toolong>>

\* The runner gathers, request by request, the part of each block that the
\* scheduled piece covers.
Rows(r) == {b.pos : b \in {c \in batch : c.req = r}}
Part(r, s) ==
    IF s \in Overlap(r, Min(Rows(r)), Max(Rows(r)) + 1)
    THEN SubSeq(cache[Key(s)], Max({Min(Rows(r)) - s.start, 0}) + 1,
                Min({Max(Rows(r)) + 1 - s.start, s.len, Len(cache[Key(s)])}))
    ELSE << >>
Parts(r) ==
    IF Rows(r) = {} THEN << >>
    ELSE FlattenSeq([i \in DOMAIN Prompt[chat[r]].spans |-> Part(r, Prompt[chat[r]].spans[i])])
Gathered == FlattenSeq([r \in Requests |-> Parts(r)])

\* The kind of a batch with these image rows among its rows: of the mask the
\* runner hands over, or of the tokens themselves when nothing was published.
routing_kind_from_mm(images) ==
    IF images = {} THEN "text" ELSE IF images = batch THEN "image" ELSE "mixed"
token_routing_kind == routing_kind_from_mm(ImageRows)

\* (Publishing only what nothing else has published.)
PublishFirst(kind) == IF cell = None THEN kind ELSE cell
Publish(kind) == kind

\* The number of a row among others, in the order of the batch.
UpTo(b, rows) == {c \in rows : c.req < b.req \/ (c.req = b.req /\ c.pos <= b.pos)}
Rank(b, rows) == Cardinality(UpTo(b, rows))

\* embed_input_ids: a kind is published on every path. The rows of the mask
\* take the gathered embeddings in order.
embed_input_ids ==
    /\ pc = "embed"
    /\ LET embeds == Gathered
           plain  == [b \in batch |-> NoSlot]
       IN IF is_multimodal = {}
          THEN /\ cell' = Publish("text") /\ given' = plain /\ pc' = "context"
               /\ UNCHANGED syncs
          ELSE /\ syncs' = syncs + 1
               /\ IF Cardinality(is_multimodal) # Len(embeds)
                  THEN /\ cell' = Publish("text") /\ given' = plain /\ pc' = "raised"
                  ELSE /\ cell' = Publish(routing_kind_from_mm(is_multimodal))
                       /\ given' = [b \in batch |->
                                       IF b \in is_multimodal THEN embeds[Rank(b, is_multimodal)] ELSE NoSlot]
                       /\ pc' = "context"
    /\ UNCHANGED <<chat, done, cache, batch, memo, routed, toolong>>

\* set_forward_context: what the last pass memoized is gone.
NewContext ==
    /\ pc = "context"
    /\ memo' = None /\ pc' = "target" /\ given' = << >>
    /\ UNCHANGED <<chat, done, cache, batch, cell, routed, syncs, toolong>>

\* A graph of a pure decode step is replayed: no gate runs in Python.
Replay ==
    /\ pc = "context"
    /\ ImageRows = {}
    /\ pc' = "sampled" /\ given' = << >>
    /\ UNCHANGED <<chat, done, cache, batch, cell, memo, routed, syncs, toolong>>

\* fused_topk_bias_split_vl: one call for the batch, or one for each part.
fused_topk_bias_split_vl(kind) ==
    [b \in batch |->
        CASE kind = "text"  -> "table"
          [] kind = "image" -> "vl"
          [] kind = "mixed" -> IF b \in ImageRows THEN "vl" ELSE "table"]

\* (Reading the published kind without consuming it, and not memoizing it.)
Peek(kind) == kind
Consume(kind) == None
Forget(kind) == None
Memoize(kind) == kind

\* current_routing_kind: the memo, else the published kind, which is consumed,
\* else a scan of the tokens. A gate of the draft model has no cell.
current_routing_kind(published) ==
    LET kind == IF memo # None THEN memo
                ELSE IF published # None THEN published ELSE token_routing_kind
    IN /\ memo' = Memoize(kind)
       /\ routed' = Append(routed, fused_topk_bias_split_vl(kind))
       /\ syncs' = IF memo = None /\ published = None THEN syncs + 1 ELSE syncs

RunGate ==
    /\ pc = "target" /\ Len(routed) < Gates
    /\ current_routing_kind(cell)
    /\ cell' = IF memo = None THEN Consume(cell) ELSE cell
    /\ UNCHANGED <<chat, done, cache, batch, given, pc, toolong>>

EndTarget ==
    /\ pc = "target" /\ Len(routed) = Gates
    /\ pc' = "sampled" /\ routed' = << >>
    /\ UNCHANGED <<chat, done, cache, batch, given, cell, memo, syncs, toolong>>

\* The draft model runs on the same rows in a context of its own.
BeginDraft ==
    /\ pc = "sampled"
    /\ pc' = "draft" /\ memo' = None /\ syncs' = 0
    /\ UNCHANGED <<chat, done, cache, batch, given, cell, routed, toolong>>

RunDraftGate ==
    /\ pc = "draft" /\ Len(routed) < DraftGates
    /\ current_routing_kind(None)
    /\ UNCHANGED <<chat, done, cache, batch, given, pc, cell, toolong>>

\* The pass is over; requests that are through leave.
Finish ==
    /\ pc = "draft" /\ Len(routed) = DraftGates
    /\ LET next == [r \in Requests |-> done[r] + Cardinality({b \in batch : b.req = r})]
           over == {r \in Active : next[r] = Prompt[chat[r]].len}
       IN /\ done' = [r \in Requests |-> IF r \in over THEN 0 ELSE next[r]]
          /\ chat' = [r \in Requests |-> IF r \in over THEN Free ELSE chat[r]]
    /\ pc' = "idle" /\ memo' = None /\ syncs' = 0
    /\ batch' = {} /\ routed' = << >>
    /\ UNCHANGED <<cache, given, cell, toolong>>

Next == \/ \E r \in Requests : Arrive(r)
        \/ Warmup \/ Schedule \/ embed_input_ids \/ NewContext \/ Replay
        \/ RunGate \/ EndTarget \/ BeginDraft \/ RunDraftGate \/ Finish

Spec == Init /\ [][Next]_vars
-----------------------------------------------------------------------------
\* The variables keep their types, a request in the server has tokens left,
\* and the first gate of a pass has consumed what was published for it.
TypeOK ==
    /\ chat \in [Requests -> Chats \cup {Free}]
    /\ \A r \in Active : done[r] \in 0 .. Prompt[chat[r]].len - 1
    /\ pc \in {"warmup", "idle", "embed", "context", "target", "sampled", "draft", "raised"}
    /\ cell \in {None, "text", "image", "mixed"}
    /\ memo \in {None, "text", "image", "mixed"}
    /\ pc = "target" /\ memo # None => cell = None
    /\ pc = "context" => DOMAIN given = batch

\* Where the slots of a block must be, said the other way round: the start
\* marker is the last of four positions, so that the grid begins on a
\* boundary; its cells lie column by column in pairs of rows; the block ends
\* on the first boundary behind them.
Wanted(span, p) ==
    LET g       == Grid[span.img]
        begin   == Min({q \in span.start .. span.start + 3 : q % 4 = 3}) + 1
        beyond  == Min({q \in begin + (g.h + (g.h % 2)) * (g.w + 1) ..
                             begin + (g.h + (g.h % 2)) * (g.w + 1) + 3 : q % 4 = 0})
        At(y, x) == begin + (y \div 2) * 2 * (g.w + 1) + 2 * x + (y % 2)
    IN CASE p = begin - 1 -> Marker("start")
         [] p = beyond -> Marker("end")
         [] \E y \in 0 .. g.h - 1 : At(y, g.w) = p -> Marker("newline")
         [] \E y \in 0 .. g.h - 1, x \in 0 .. g.w - 1 : At(y, x) = p ->
              <<"image", CHOOSE c \in 0 .. g.h * g.w - 1 : At(c \div g.w, c % g.w) = p>>
         [] OTHER -> Marker("pad")

\* However the prompts are cut into pieces, whatever the encoder cache kept
\* and whichever requests share the pass: every image row is given the slot
\* its own image has at its own position, and the lengths never disagree
\* (the hazard of issue 172).
RowsMatchLayout ==
    /\ pc # "raised"
    /\ \A r \in Active : \A s \in Range(Prompt[chat[r]].spans) :
          s.len = image_block_num_tokens(Grid[s.img], s.start)
    /\ pc = "context" =>
         \A b \in batch :
            IF b \in is_multimodal
            THEN \E s \in SpanAt(chat[b.req], b.pos) : given[b] = Wanted(s, b.pos)
            ELSE given[b] = NoSlot

\* No image is refused for the length of its block, of whatever size and at
\* whatever position: the resizing leaves room for the alignment.
EveryImageFits == ~toolong

\* Classifying a batch waits for the device at most once in a pass of either
\* model, and not at all in a step without images (issue 175).
ClassifiedOnce ==
    /\ syncs <= 1
    /\ pc = "target" /\ is_multimodal = {} /\ (\A b \in batch : b.req # 0) => syncs = 0

\* Every gate routes each row by what that row is: the published, consumed
\* and memoized kind is invisible.
Abstract == INSTANCE VisionRouting WITH
    rows   <- IF pc \in {"target", "draft"} THEN batch ELSE {},
    routed <- IF pc \in {"target", "draft"} THEN routed ELSE << >>
RoutesOwnRows == Abstract!Spec
=============================================================================
