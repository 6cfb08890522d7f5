-------------------------- MODULE MCVisionServing ---------------------------
EXTENDS VisionServing

\* Grids of one cell and of an odd row of two, and a picture whose block of
\* 14 tokens fits only where it needs no alignment: it is made smaller.
MCImages == {"dot", "wide", "tall"}
MCHeight == [dot |-> 4, wide |-> 4, tall |-> 12]
MCWidth  == [dot |-> 4, wide |-> 7, tall |-> 8]
MCSize   == [i \in MCImages |-> pil_to_patches(MCHeight[i], MCWidth[i])]

User(p) == [role |-> "user", part |-> p]
Tool(p) == [role |-> "tool", part |-> p]
MCChats == {
    <<User("dot"), User("prose")>>,
    <<User("prose"), User("dot"), User("wide")>>,
    <<User("tall"), User("prose")>>,
    <<Tool("token"), User("prose")>>,
    <<Tool("token"), User("dot")>>,
    <<Tool("dot"), User("prose")>>}
=============================================================================
