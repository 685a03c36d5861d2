------------------------------ MODULE Pipeline ------------------------------
(***************************************************************************)
(* pipeline.rs: one Pipeline::process per captured frame - resize, 1 s     *)
(* refresh, change detection (DiffCell), merging (TileMerging), the choice *)
(* between cached bytes and a fresh encode, the update of the cache - with *)
(* Pipeline::invalidate between frames and the bandwidth controller that   *)
(* scales the quality from the send loop's side.                           *)
(*                                                                         *)
(* Abstractions.                                                           *)
(*  - An encoded image is its pixels and its quality.  A quality is the    *)
(*    reason it is below the full one: "dynamic" when a changed cell of    *)
(*    the tile was sent as dynamic (the average is then below the full     *)
(*    quality), "congested" when only quality_scale lowered it.            *)
(*  - Frames carry no damage information; DiffDetector has damage.         *)
(*  - Every encode succeeds; EncodingPool has failing and late workers.    *)
(*    Tile order (priority) only changes the order of sending.             *)
(*  - The scale moves in steps of RECOVER_STEP.                            *)
(***************************************************************************)
EXTENDS DiffCell, TileMerging

CONSTANTS Sizes,                 \* screen sizes: <<columns, width, height>>
          Moving,                \* bound: the only cells whose pixels vary,
          Backdrop,              \* ... the others showing these
          MinScale, MaxScale,    \* MIN_SCALE and 1.0
          Backoff, Recover,      \* BACKOFF_STEP, RECOVER_STEP
          RecoverAfter           \* RECOVER_AFTER

ASSUME SizesAssumption ==
  /\ \A s \in Sizes : /\ s[1] \in Nat /\ s[2] \in Nat /\ s[3] \in Nat
                      /\ CellsOf(NewGrid(s[1], s[2], s[3])) \subseteq Cell
  /\ Moving \subseteq Cell /\ Backdrop \in Pixels

\* encoder.rs has 4.
ASSUME MaxMergeAssumption == MaxMerge > 1

ASSUME ScaleAssumption ==
  /\ {MinScale, MaxScale} \subseteq Nat
  /\ MinScale <= MaxScale
  /\ {Backoff, Recover, RecoverAfter} \subseteq Nat \ {0}

VARIABLES
  screen,   \* screen_size, NoSize before the first frame
  det,      \* cell -> CellState (prev_hashes, ..., tile_metadata)
  count,    \* frame_count, saturated
  due,      \* last_full_refresh.elapsed() >= FULL_REFRESH_INTERVAL
  cache,    \* cell -> cached_encoded (its quality: "sharp", "dynamic" or
            \* "congested") and what cached_hash stands for, or None
  frame,    \* pixels of the last frame processed
  batch,    \* the tiles of the last EncodedFrame and what their bytes show
  scale, streak,   \* the bandwidth controller
  shown,    \* ghost: cell -> what the page shows once every batch has arrived:
            \* pixels, quality, and own: that image was encoded when the cell
            \* itself was sent as dynamic, or for the cell alone
  level,    \* ghost: the last sample of buffered_amount
  calm      \* ghost: clear samples in a row, saturated

pipeVars == <<screen, det, count, due, cache, frame, batch, shown>>
bwVars   == <<scale, streak, level, calm>>
vars     == <<pipeVars, bwVars>>

NoSize == <<>>
None   == [pix |-> NoHash, q |-> "none"]

Grid(size) == NewGrid(size[1], size[2], size[3])

Screens ==
  [s \in Sizes |->
     LET G == CellsOf(Grid(s))
     IN  {[c \in G |-> IF c \in Moving THEN p[c] ELSE Backdrop] :
            p \in [G \cap Moving -> Pixels]}]

Empty == [c \in {} |-> None]

Init ==
  /\ screen = NoSize
  /\ det = Empty /\ cache = Empty /\ frame = Empty /\ shown = Empty
  /\ count = 0
  /\ due = FALSE
  /\ batch = {}
  /\ scale = MaxScale /\ streak = 0
  /\ level = "low" /\ calm = 0

-----------------------------------------------------------------------------
\* The refresh re-arms cells and leaves their cached bytes (mutant).
RefreshedCache_Keeps == cache

\* invalidate_cache, first half: no cached bytes survive a refresh.
RefreshedCache == [c \in DOMAIN cache |-> None]

\* The refresh only drops the cached bytes (mutant).
RefreshedCells_None == det

\* invalidate_cache, second half: cells last sent as dynamic are re-armed.
RefreshedCells ==
  [c \in DOMAIN det |-> IF det[c].dyn THEN ForceRedetect(det[c]) ELSE det[c]]

\* The bytes of one cell stand in for a merged tile (mutant).
Hit_AnyTile(g, kept, hash, t) ==
  LET r == Representative(g, t)
  IN  kept[r] # None /\ kept[r].pix = hash[r]

\* The cached bytes of the tile's representative cell are sent again.  A cell
\* that is sent has just been hashed in full, so its hash stands for its pixels.
Hit(g, kept, hash, t) ==
  LET r == Representative(g, t)
  IN  IsSingleCell(g, t) /\ kept[r] # None /\ kept[r].pix = hash[r]

\* Tile::quality: the average over the changed cells of a tile (base quality
\* times scale); a chunk of bridged cells alone gets the full 10.0.
TileQuality(cells, changed, dynamic) ==
  IF cells \cap dynamic # {} THEN "dynamic"
  ELSE IF cells \cap changed # {} /\ scale < MaxScale THEN "congested"
  ELSE "sharp"

\* What is sent for tile t: the cells it covers, those its image shows, and the
\* quality.
Encoded(g, kept, hash, changed, dynamic, t) ==
  LET r == Representative(g, t)
      C == Covered(g, t)
  IN  IF Hit(g, kept, hash, t)
      THEN [cells |-> C, image |-> {r}, cached |-> TRUE, q |-> kept[r].q]
      ELSE [cells |-> C, image |-> C, cached |-> FALSE,
            q |-> TileQuality(C, changed, dynamic)]

\* Everything after the choice of the baseline: detect_changes, merge, encode,
\* cache update.  first: prev_hashes is empty.
Sent(g, old, kept, first, n, pix) ==
  LET G       == CellsOf(g)
      changed == {c \in G : Sends(old[c], first, n, pix[c], FALSE)}
      of(c)   == CHOOSE e \in batch' : c \in e.image
      drawn   == UNION {e.image : e \in batch'}
  IN  /\ det' = [c \in G |-> Detected(old[c], first, n, pix[c], FALSE)]
      /\ LET hash    == [c \in G |-> det'[c].prev]
             dynamic == {c \in changed : det'[c].dyn}
         IN  batch' = {Encoded(g, kept, hash, changed, dynamic, t) : t \in Merge(changed, g)}
      /\ shown' = [c \in G |-> IF c \in drawn
                               THEN [pix |-> IF of(c).cached THEN kept[c].pix ELSE pix[c],
                                     q |-> of(c).q, own |-> of(c).cached \/ (c \in changed /\ det'[c].dyn)]
                               ELSE shown[c]]
      /\ cache' = [c \in G |-> IF c \in drawn /\ of(c).cells = {c}
                               THEN [pix |-> shown'[c].pix, q |-> of(c).q]
                               ELSE kept[c]]

\* A frame of a new size: reset, header, first frame of its grid.  The refresh
\* timer starts again.
ProcessResized(size, pix) ==
  LET G == CellsOf(Grid(size))
  IN  /\ size # screen
      /\ screen' = size
      /\ frame' = pix
      /\ count' = Saturate(1)
      /\ due' = FALSE
      /\ UNCHANGED bwVars
      /\ Sent(Grid(size), [c \in G |-> Blank], [c \in G |-> None], TRUE, Saturate(1), pix)

\* A frame of the same size: a full refresh when one is due.
ProcessFrame(pix) ==
  /\ screen # NoSize
  /\ frame' = pix
  /\ count' = Saturate(count + 1)
  /\ due' = FALSE
  /\ UNCHANGED <<screen, bwVars>>
  /\ Sent(Grid(screen), IF due THEN RefreshedCells ELSE det,
          IF due THEN RefreshedCache ELSE cache, FALSE, Saturate(count + 1), pix)

\* Pipeline::invalidate for the current epoch; StreamSession has the others.
Invalidate(S) ==
  /\ det' = [c \in DOMAIN det |-> IF c \in S THEN ForceRedetect(det[c]) ELSE det[c]]
  /\ cache' = [c \in DOMAIN cache |-> IF c \in S THEN None ELSE cache[c]]
  /\ UNCHANGED <<screen, count, due, frame, batch, shown, bwVars>>

-----------------------------------------------------------------------------
(* BandwidthController::sample *)

Lower(s) == IF s - Backoff < MinScale THEN MinScale ELSE s - Backoff
Raise(s) == Least(s + Recover, MaxScale)

Congested ==
  /\ streak' = 0 /\ scale' = Lower(scale)
  /\ level' = "high" /\ calm' = 0

Clear ==
  /\ IF streak + 1 >= RecoverAfter
     THEN streak' = 0 /\ scale' = Raise(scale)
     ELSE streak' = streak + 1 /\ UNCHANGED scale
  /\ level' = "low" /\ calm' = Least(calm + 1, RecoverAfter)

\* A sample between the watermarks leaves the streak alone (mutant).
Between_KeepsStreak ==
  /\ UNCHANGED <<streak, scale>>
  /\ level' = "between" /\ calm' = 0

Between ==
  /\ streak' = 0 /\ UNCHANGED scale
  /\ level' = "between" /\ calm' = 0

Sample == (Congested \/ Clear \/ Between) /\ UNCHANGED pipeVars

\* A second has passed since the last refresh.
RefreshFallsDue ==
  /\ screen # NoSize /\ ~due
  /\ due' = TRUE
  /\ UNCHANGED <<screen, det, count, cache, frame, batch, shown, bwVars>>

Next ==
  \/ \E size \in Sizes : \E pix \in Screens[size] : ProcessResized(size, pix)
  \/ screen # NoSize /\ \E pix \in Screens[screen] : ProcessFrame(pix)
  \/ RefreshFallsDue
  \/ \E S \in (SUBSET (Moving \cap DOMAIN det)) \ {{}} : Invalidate(S)
  \/ Sample

Spec == Init /\ [][Next]_vars

\* Time passes, frames keep coming at target_fps - so a refresh that is due
\* happens -, and the send loop samples on every turn.
FairSpec ==
  /\ Spec
  /\ WF_vars(RefreshFallsDue)
  /\ WF_due(due /\ due' = FALSE)
  /\ WF_vars(Sample)

-----------------------------------------------------------------------------
\* Whatever mix of cached and fresh bytes a frame is made of, every cell its
\* ack_indices name shows that frame once the batch has arrived: no encode of
\* an earlier frame, or of a differently merged tile, is sent as current.
BytesAreCurrent ==
  \A e \in batch : \A c \in e.cells : shown[c].pix = frame[c]

\* A cell the page shows at low quality because it was itself sent as dynamic
\* is one the next refresh re-arms (last_sent_as_dynamic): no cached image of a
\* moving cell is ever taken for its full-quality re-send.  Blur a cell got from
\* its neighbours in a merged tile, or from a congested link, is outside the
\* property: nothing re-arms it.
BlurIsRearmed ==
  \A c \in DOMAIN shown : shown[c].q = "dynamic" /\ shown[c].own => det[c].dyn

\* A still screen over a clear link ends up sharp, through merges, throttling,
\* cache hits and re-sends - except for cells blurred by a neighbour's tile or
\* by a congestion that has passed.
StillGetsSharp ==
  (<>[][UNCHANGED <<screen, frame>>]_vars /\ <>[](scale = MaxScale))
    => <>[](\A c \in DOMAIN shown :
              shown[c].q = "dynamic" => ~shown[c].own)

\* A link that keeps oscillating around the high watermark, without ever
\* RecoverAfter clear samples in a row, ends at the lowest quality and stays
\* there: recovery never keeps pace with backoff.
FlakyLinkTrendsDown ==
  ([]<>(level = "high") /\ <>[](calm < RecoverAfter)) => <>[](scale = MinScale)

=============================================================================
