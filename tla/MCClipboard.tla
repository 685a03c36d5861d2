----------------------------- MODULE MCClipboard -----------------------------
(* Three texts and two sessions: a copy on each side, pushes that cross, and *)
(* a session that starts with what the first left behind.                    *)
EXTENDS Clipboard

=============================================================================
