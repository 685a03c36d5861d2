--------------------------- MODULE MCStreamSession ---------------------------
\* Small instances of StreamSession for TLC.
EXTENDS StreamSession, TLC

CONSTANTS c1, c2, e1, o1, small, large

MCCell == {c1, c2}
MCSize == {small, large}
MCGrid == (small :> {c1}) @@ (large :> {c1, c2})
MCEven == {e1}
MCOdd  == {o1}

=============================================================================
