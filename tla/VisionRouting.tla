--------------------------- MODULE VisionRouting ----------------------------
(***************************************************************************)
(* What routing by modality promises (issues 172 and 175 in apply.py): in  *)
(* every forward pass every gate routes every row by what that row is, and *)
(* by nothing else. A row that gets an image embedding takes the expert    *)
(* bias of the vision tower, a row of text the table of its token; of a    *)
(* row that spells the image token without an image nothing is promised.   *)
(***************************************************************************)
EXTENDS Sequences

VARIABLES rows,    \* the rows of the pass, with their kinds; {} between passes
          routed   \* for each gate that has run, the route of each row

vars == <<rows, routed>>

Kinds  == {"text", "image", "stray"}
Routes == {"table", "vl"}

Right(kind, route) == /\ kind = "image" => route = "vl"
                      /\ kind = "text" => route = "table"

Init == rows = {} /\ routed = << >>

Begin == /\ rows = {} /\ rows' # {}
         /\ \A b \in rows' : b.kind \in Kinds
         /\ routed' = << >>

Gate == /\ rows # {} /\ rows' = rows
        /\ \E route \in [rows -> Routes] :
             /\ \A b \in rows : Right(b.kind, route[b])
             /\ routed' = Append(routed, route)

End == rows # {} /\ rows' = {} /\ routed' = << >>

Next == Begin \/ Gate \/ End

Spec == Init /\ [][Next]_vars
=============================================================================
