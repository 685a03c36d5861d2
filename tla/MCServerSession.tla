--------------------------- MODULE MCServerSession ---------------------------
(* One fault: enough for a page that reconnects while an offer of its lost  *)
(* socket is still being answered, for a renegotiation on the same socket   *)
(* and for each timeout.                                                    *)
EXTENDS ServerSession

=============================================================================
