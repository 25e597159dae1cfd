---------------------------- MODULE MCCurveEdit -----------------------------
EXTENDS CurveEdit

(* Short lists over the corners of the range and beyond it, and long ones    *)
(* (more than POINTS points) piled up against the 100 ceiling.               *)
MCCorners == {0, 50, 99, 100, 130} \X {0, 30, 130}
MCPile == {<<50, 30>>, <<98, 20>>, <<100, 90>>}
MCInputs ==
    UNION {[1 .. n -> MCCorners] : n \in 0 .. 2} \cup UNION {[1 .. n -> MCPile] : n \in {2, 6}}
MCMoves == {<<10, 100>>, <<100, 20>>}
=============================================================================
