------------------------------ MODULE DiffCell ------------------------------
(***************************************************************************)
(* What diff.rs does to ONE cell of the tile grid.  Pure operators: the    *)
(* state machines DiffDetector and StreamSession apply them to every cell. *)
(*                                                                         *)
(* Abstractions.                                                           *)
(*  - The pixels of a cell are a record [even, odd]: its even rows (the    *)
(*    only ones hash_tile_half reads) and its odd rows.  A hash is what it *)
(*    hashes: hash_tile is the whole record, hash_tile_half its "even"     *)
(*    field (collisions are not modelled).                                 *)
(*  - NoHash is the 0 that "never hashed" and "force re-detection" store.  *)
(*  - frame_count and last_sent_frame are only ever compared with the send *)
(*    intervals, so frame_count and the age frame_count - last_sent_frame  *)
(*    saturate at the larger interval.  last_sent_frame = 0 is ~sent; the  *)
(*    age is then frame_count itself.                                      *)
(***************************************************************************)
EXTENDS Integers

CONSTANTS Cell,             \* every grid index any screen size can use
          Even, Odd,        \* what the even / the odd rows of a cell can show
          NoHash,           \* the stored hash 0
          StaticInterval,   \* target_fps / static_tile_fps
          DynamicInterval   \* target_fps / dynamic_tile_fps

\* Config's fps are NonZeroU64; the integer quotients may be 0.
ASSUME IntervalAssumption ==
  /\ StaticInterval \in Nat
  /\ DynamicInterval \in Nat

ASSUME NoHashAssumption ==
  /\ NoHash \notin [even : Even, odd : Odd]
  /\ NoHash \notin Even

Pixels == [even : Even, odd : Odd]

MaxInterval == IF StaticInterval > DynamicInterval
               THEN StaticInterval ELSE DynamicInterval

Saturate(n) == IF n > MaxInterval THEN MaxInterval ELSE n

\* One element of prev_hashes, prev_prev_hashes, force_redetect, tile_metadata.
CellState ==
  [prev     : Pixels \cup {NoHash},
   prevPrev : Pixels \cup {NoHash},
   half     : Even \cup {NoHash},      \* prev_half_hash
   sent     : BOOLEAN,                 \* last_sent_frame > 0
   age      : 0 .. MaxInterval,        \* frame_count - last_sent_frame
   dyn      : BOOLEAN,                 \* last_sent_as_dynamic
   changed  : BOOLEAN,                 \* newest entry of change_history
   force    : BOOLEAN]                 \* force_redetect

\* vec![0; n] and TileMetadata::default().
Blank ==
  [prev |-> NoHash, prevPrev |-> NoHash, half |-> NoHash, sent |-> FALSE,
   age |-> 0, dyn |-> FALSE, changed |-> FALSE, force |-> FALSE]

\* The damage skip is not lifted (mutant).
ForceRedetect_NoForce(m) ==
  [m EXCEPT !.half = NoHash, !.sent = FALSE, !.prev = NoHash, !.prevPrev = NoHash]

\* last_sent_frame survives the reset (mutant).
ForceRedetect_KeepsLastSent(m) ==
  [m EXCEPT !.half = NoHash, !.prev = NoHash, !.prevPrev = NoHash, !.force = TRUE]

\* force_redetect_tile: the four fields that must move together.
ForceRedetect(m) ==
  [m EXCEPT !.half = NoHash, !.sent = FALSE, !.prev = NoHash,
            !.prevPrev = NoHash, !.force = TRUE]

\* An unchanged half hash stands for an unchanged tile.
FullHash(m, p) == IF p.even = m.half THEN m.prev ELSE p

\* Damage was reported and does not touch the cell ("outside").
DamageSkips(m, first, outside) == outside /\ ~first /\ ~m.force

Changes(m, first, p, outside) ==
  /\ ~DamageSkips(m, first, outside)
  /\ first \/ FullHash(m, p) # m.prev

IsDynamic(m, first, p) ==
  /\ ~first
  /\ m.sent
  /\ m.prevPrev # m.prev
  /\ m.prev # FullHash(m, p)

\* frames_since_last, with count the frame_count of the frame being processed.
SinceSent(m, count) == IF m.sent THEN Saturate(m.age + 1) ELSE count

ShouldSend(m, first, count, p) ==
  \/ first
  \/ ~m.dyn /\ IsDynamic(m, first, p)
  \/ SinceSent(m, count) >= IF IsDynamic(m, first, p)
                            THEN DynamicInterval ELSE StaticInterval

Sends(m, first, count, p, outside) ==
  Changes(m, first, p, outside) /\ ShouldSend(m, first, count, p)

\* Changed, but held back by the FPS interval (changed_unsent).
Holds(m, first, count, p, outside) ==
  Changes(m, first, p, outside) /\ ~ShouldSend(m, first, count, p)

\* The cell after it was sent: the bookkeeping pass over tile_hashes_vec.
AfterSend(m, first, p) ==
  [prev |-> FullHash(m, p), prevPrev |-> m.prev, half |-> p.even, sent |-> TRUE,
   age |-> 0, dyn |-> IsDynamic(m, first, p), changed |-> TRUE, force |-> FALSE]

\* A throttled cell is marked as if it had been sent static (mutant).
AfterHold_MarksStatic(m, count, p) ==
  [m EXCEPT !.prev = FullHash(m, p), !.prevPrev = m.prev, !.half = p.even, !.dyn = FALSE,
            !.age = SinceSent(m, count), !.changed = TRUE, !.force = FALSE]

\* The cell after it was held back: the baseline advances all the same.
AfterHold(m, count, p) ==
  [m EXCEPT !.prev = FullHash(m, p), !.prevPrev = m.prev, !.half = p.even,
            !.age = SinceSent(m, count), !.changed = TRUE, !.force = FALSE]

\* The cell after a frame that left it alone.
AfterSame(m, count) ==
  [m EXCEPT !.age = SinceSent(m, count), !.changed = FALSE, !.force = FALSE]

\* The cell after one detect_changes over pixels p.
Detected(m, first, count, p, outside) ==
  CASE Sends(m, first, count, p, outside) -> AfterSend(m, first, p)
    [] Holds(m, first, count, p, outside) -> AfterHold(m, count, p)
    [] OTHER -> AfterSame(m, count)

=============================================================================
