--------------------------- MODULE MCDiffDetector ---------------------------
\* A small instance of DiffDetector for TLC.
EXTENDS DiffDetector, TLC

CONSTANTS c1, c2, e1, e2, o1

MCCell  == {c1, c2}
MCGrids == {{c1}, {c1, c2}}
MCEven  == {e1, e2}
MCOdd   == {o1}

=============================================================================
