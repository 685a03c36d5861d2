----------------------------- MODULE MCTileWire -----------------------------
(* Frames that do not divide evenly: a wider last column, a lower last row, a *)
(* frame narrower than its columns.  Two images of 3988 bytes just fill a     *)
(* packet, 7989 is too long for any, 65527 gives the length 65535.            *)
EXTENDS TileWire

MCFrames == {<<2, 5, 8>>, <<2, 3, 5>>, <<3, 4, 4>>, <<4, 3, 2>>}
MCWebpLen == {100, 3988, 7989, 65527}

=============================================================================
