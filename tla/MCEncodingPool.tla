--------------------------- MODULE MCEncodingPool ---------------------------
\* Small instances of EncodingPool for TLC.  One worker gives both channels
\* two slots: five tiles are the most such a pool takes before collecting.
EXTENDS EncodingPool, TLC

CONSTANTS t1, t2, t3, t4, t5, t6, w1

MCTile3   == {t1, t2, t3}
MCTile6   == {t1, t2, t3, t4, t5, t6}
MCWorker  == {w1}

=============================================================================
