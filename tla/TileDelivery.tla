----------------------------- MODULE TileDelivery -----------------------------
(***************************************************************************)
(* What a streaming session promises of each cell of the screen, without   *)
(* its two threads, queues, epochs and sequence numbers: the newest        *)
(* content sent for the cell is always in exactly one place,               *)
(*                                                                         *)
(*   travelling   between the pipeline and the client                      *)
(*   awaiting     sent, its ACK outstanding                                *)
(*   acked        acknowledged                                             *)
(*   reported     given up, the pipeline not yet told                      *)
(*   armed        to be sent again by the next frame                       *)
(*   swallowed    was armed, and the send throttle ate the re-send         *)
(*                                                                         *)
(* and it moves between them only as below: content is acknowledged only   *)
(* after it was sent, what is not acknowledged is reported, what is        *)
(* reported is armed, and nothing leaves the cycle but by the throttle.    *)
(* StreamSession implements it.                                            *)
(***************************************************************************)
CONSTANT Cell

VARIABLES live,    \* the session's send loop runs
          place    \* the cells of the current grid and where each one is

vars == <<live, place>>

Place == {"travelling", "awaiting", "acked", "reported", "armed", "swallowed"}

Init == live = TRUE /\ place = [c \in {} |-> "armed"]

\* Where a frame that does not carry a cell can leave it.
Passed(p) ==
  CASE p = "armed"     -> {"armed", "swallowed", "reported"}
    [] p = "swallowed" -> {"swallowed", "armed"}
    [] p = "reported"  -> {"reported", "armed"}
    [] OTHER           -> {p}

\* A frame carries newer content of the cells T, and passes the others by.
Frame(T) ==
  /\ \A c \in T : place'[c] = "travelling"
  /\ \A c \in DOMAIN place \ T : place'[c] \in Passed(place[c])

\* Where a pass of the send loop can leave a cell.
Settled(p) ==
  CASE p = "travelling" -> {"travelling", "awaiting"}
    [] p = "awaiting"   -> {"awaiting", "acked", "reported", "armed"}
    [] p = "swallowed"  -> {"swallowed", "reported"}
    [] OTHER            -> {p}

\* The send loop settles what the client answered or did not, and sends.
SendPass == \A c \in DOMAIN place : place'[c] \in Settled(place[c])

\* The pipeline learns of every loss at once.
Rearm == \A c \in DOMAIN place :
           place'[c] = IF place[c] = "reported" THEN "armed" ELSE place[c]

SameGrid == live' = live /\ DOMAIN place' = DOMAIN place

\* A frame of another resolution starts over with all of its cells.
Resize == /\ live' = live
          /\ \E grid \in (SUBSET Cell) \ {{}} : place' = [c \in grid |-> "travelling"]

Over == live' = FALSE /\ place' = [c \in {} |-> "armed"]

Next ==
  /\ live
  /\ \/ SameGrid /\ \E T \in SUBSET DOMAIN place : Frame(T)
     \/ SameGrid /\ SendPass
     \/ SameGrid /\ Rearm
     \/ Resize
     \/ Over

Spec == Init /\ [][Next]_vars

=============================================================================
