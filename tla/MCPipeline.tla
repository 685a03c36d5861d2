----------------------------- MODULE MCPipeline -----------------------------
\* A small instance of Pipeline for TLC: two columns of three rows, of which
\* two cells of the first column move, or a screen of one cell.
EXTENDS Pipeline

CONSTANTS e1, e2, o1

MCEven     == {e1, e2}
MCOdd      == {o1}
MCSizes    == {<<2, 2, 3>>, <<1, 1, 1>>}
MCCell     == (0 .. 1) \X (0 .. 2)
MCMoving   == {<<0, 0>>, <<0, 2>>}
MCBackdrop == [even |-> e1, odd |-> o1]

=============================================================================
