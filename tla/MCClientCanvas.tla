--------------------------- MODULE MCClientCanvas ---------------------------
\* Small instances of ClientCanvas for TLC.
EXTENDS ClientCanvas, TLC

CONSTANTS c1, c2, small

MCCell == {c1, c2}
MCSize == {small}

=============================================================================
