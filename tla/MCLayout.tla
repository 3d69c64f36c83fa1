------------------------------- MODULE MCLayout -------------------------------
(***************************************************************************)
(* Layouts of three people: strangers, a pair and a stranger, a row, a     *)
(* triangle.                                                               *)
(***************************************************************************)
EXTENDS Layout

MCSprings == {<<>>, <<<<1, 2>>>>, <<<<1, 2>>, <<3, 2>>>>,
              <<<<1, 2>>, <<3, 2>>, <<1, 3>>>>}

\* Two in one place, side by side, at the length of a spring and beyond.
MCPlacements == {0, 1, 3}

\* The loop does not run; it ends when two points have got moving; it ends
\* when all are at their top speed, or not at all.
MCThresholds == {0, 17, 49}
=============================================================================
