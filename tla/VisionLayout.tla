---------------------------- MODULE VisionLayout ----------------------------
(***************************************************************************)
(* The arithmetic of the Vision-Exp image preprocessor: how many ViT       *)
(* patches an image becomes, how many tokens of the language model the     *)
(* aligned grid takes, and in which order the block of tokens lists them   *)
(* (image_processor.py; Aligner.forward of vision.py).                     *)
(*                                                                         *)
(* Square roots are taken exactly: sqrt(q) - 1/2 rounded down is the       *)
(* largest n with (n + 1/2)^2 - 1/4 <= q - 1/4, and so on; the rounding of *)
(* the code's floats at such a boundary is not modelled.                   *)
(***************************************************************************)
EXTENDS Integers, Sequences, FiniteSetsExt, SequencesExt

CONSTANTS Patch,       \* vision_patch_size
          Ratio,       \* vision_downsample_ratio
          MaxTokens,   \* vision_max_n_token
          MinPixels,   \* vision_min_pixels
          MaxWhRatio   \* vision_max_wh_ratio

\* A limit has room for the smallest grid, a pair of rows with its two ends, and
\* for its alignment (the configured one is 384).
ASSUME LayoutConstants ==
    /\ {Patch, Ratio, MaxTokens, MinPixels, MaxWhRatio} \subseteq Nat \ {0}
    /\ MaxTokens >= 9

CompressPadTo == 4

Ceil(a, b) == (a + b - 1) \div b

\* The largest number up to bound that satisfies Test, which some must.
Largest(bound, Test(_)) == Max({n \in 0 .. bound : Test(n)})

compress_pad_tokens(start) == CompressPadTo - 1 - (start % CompressPadTo)

grid(height, width) ==
    [h |-> Ceil(height \div Patch, Ratio), w |-> Ceil(width \div Patch, Ratio)]

\* Two rows and the end of line after each of them are folded into each
\* other, so an odd grid gets one row more, and the whole is filled up to a
\* multiple of four.
PadLast(g) == ((((g.h + 1) \div 2) * (g.w + 1)) % 2) * 2
grid_tokens(g) == (g.h + (g.h % 2)) * (g.w + 1) + 2 + PadLast(g)
image_block_num_tokens(g, start) == compress_pad_tokens(start) + grid_tokens(g)

Even(n) == n - (n % 2)

\* The three cases of an image that does not fit: a column, a row, a page.
solve_resize_ratio(height, width, budget) ==
    LET room == budget - 2
        maxW == Largest(room, LAMBDA n : n * (n + 1) * height <= room * width)
        maxH == Largest(room, LAMBDA n : n * (n * width + height) <= room * height)
        side == Patch * Ratio
        evenH == Even(maxH)
    IN IF maxW < 1
       THEN [height |-> Even(room \div 2) * side, width |-> side]
       ELSE IF maxH < 2
       THEN [height |-> 2 * side, width |-> (room \div 2 - 1) * side]
       ELSE [height |-> Min({evenH * Ratio, (maxW * Ratio * height) \div width}) * Patch,
             width  |-> Min({maxW * Ratio, (evenH * Ratio * width) \div height}) * Patch]

Tokens(size) == grid_tokens(grid(size.height, size.width))

\* What a block may take besides the tokens that align it. (All of it.)
LimitUnreserved == MaxTokens
Limit == MaxTokens - (CompressPadTo - 1)

\* The loop lowers the budget until the solution keeps to the limit.
safe_resize(height, width, best) ==
    LET solve(b) == solve_resize_ratio(height, width, b)
        budgets == {b \in 2 .. Limit : Tokens(solve(b)) <= Limit}
    IN IF Tokens(best) <= Limit THEN best ELSE solve(Max(budgets))

\* The size an image is brought to before it is cut into patches.
pil_to_patches(height, srcWidth) ==
    LET width == Min({srcWidth, height * MaxWhRatio})
        small == height * width < MinPixels
        up(a, b) == IF small
                    THEN Largest(MinPixels, LAMBDA n : n * n * b <= MinPixels * a)
                    ELSE a
        h     == up(height, width)
        w     == up(width, height)
    IN safe_resize(h, w, [height |-> Ceil(h, Patch) * Patch,
                          width  |-> Ceil(w, Patch) * Patch])
-----------------------------------------------------------------------------
\* Aligner.forward fills the patches up to whole squares of Ratio by Ratio:
\* as many rows come out as the grid has cells.
AlignerRows(size) ==
    Ceil(size.height \div Patch, Ratio) * Ceil(size.width \div Patch, Ratio)

\* A slot of the block: its type, and for an image slot the row of the
\* aligner that fills it.
Marker(type) == <<type, 0>>
Pad(n) == [i \in 1 .. n |-> Marker("pad")]

\* build_image_block: the grid with its ends of line, an empty row below an
\* odd one, read in pairs of rows, column by column.
Cell(g, row, col) ==
    CASE row >= g.h -> Marker("pad")
      [] row < g.h /\ col = g.w -> Marker("newline")
      [] row < g.h /\ col < g.w -> <<"image", row * g.w + col>>
order(g, i) ==
    LET rowLen == g.w + 1
        pair   == i \div (2 * rowLen)
        within == i % (2 * rowLen)
    IN [row |-> 2 * pair + (within % 2), col |-> within \div 2]
build_image_block(g, start) ==
    Pad(compress_pad_tokens(start)) \o <<Marker("start")>>
    \o [k \in 1 .. (g.h + (g.h % 2)) * (g.w + 1) |->
            LET at == order(g, k - 1) IN Cell(g, at.row, at.col)]
    \o Pad(PadLast(g)) \o <<Marker("end")>>
=============================================================================
