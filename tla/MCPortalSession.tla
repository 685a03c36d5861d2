--------------------------- MODULE MCPortalSession ---------------------------
(* Two threads on one connection; the second call of a slot is a retry that *)
(* meets what the first left in the portal and in the queue.                *)
EXTENDS PortalSession

=============================================================================
