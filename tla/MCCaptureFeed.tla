---------------------------- MODULE MCCaptureFeed ----------------------------
(* Two output sizes, a linear and a tiled DMA-BUF format, two screen changes: *)
(* enough for a resize in the middle of a capture and another after it.       *)
EXTENDS CaptureFeed

=============================================================================
