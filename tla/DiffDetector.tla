---------------------------- MODULE DiffDetector ----------------------------
(***************************************************************************)
(* diff.rs: the change detector as an object with four mutating methods -  *)
(* detect_changes, invalidate_tiles, invalidate_cache and reset - called   *)
(* in any order, the way Pipeline::process and Pipeline::invalidate may    *)
(* interleave them.                                                        *)
(*                                                                         *)
(* det = the empty function stands for prev_hashes.is_empty(): the next    *)
(* frame is a first frame.                                                 *)
(***************************************************************************)
EXTENDS DiffCell

CONSTANT Grids              \* the cell sets the supported screen sizes give

ASSUME GridsAssumption == \A G \in Grids : G \subseteq Cell /\ G # {}

VARIABLES
  det,      \* cell -> CellState; empty before the first frame
  count,    \* frame_count, saturated
  frame,    \* pixels of the last frame processed (the screen, to the detector)
  sent,     \* cells detect_changes returned for the last frame
  shown,    \* ghost: cell -> pixels of the last tile sent for it
  still     \* ghost: the screen has stopped changing for good

vars == <<det, count, frame, sent, shown, still>>

Empty == [c \in {} |-> Blank]

FirstFrame == DOMAIN det = {}

TypeOK ==
  /\ \E G \in Grids \cup {{}} : /\ det \in [G -> CellState]
                                /\ frame \in [G -> Pixels]
                                /\ shown \in [G -> Pixels]
                                /\ sent \subseteq G
  /\ count \in 0 .. MaxInterval
  /\ still \in BOOLEAN

Init ==
  /\ det = Empty
  /\ count = 0
  /\ frame = Empty
  /\ sent = {}
  /\ shown = Empty
  /\ still = FALSE

\* detect_changes on a frame of the given pixels.  dmg is the set of cells the
\* frame's damage regions touch; a frame without damage information has dmg =
\* the whole grid, which skips nothing either.  The compositor promises that
\* every pixel that differs from the previous frame is inside the damage.
DetectChanges(G, pix, dmg) ==
  LET first == FirstFrame
      old   == IF first THEN [c \in G |-> Blank] ELSE det
      n     == Saturate(count + 1)
      out   == {c \in G : Sends(old[c], first, n, pix[c], c \notin dmg)}
  IN  /\ first \/ G = DOMAIN det
      /\ ~first => \A c \in G : pix[c] # frame[c] => c \in dmg
      /\ still => pix = frame
      /\ count' = n
      /\ det' = [c \in G |-> Detected(old[c], first, n, pix[c], c \notin dmg)]
      /\ sent' = out
      /\ shown' = [c \in G |-> IF c \in out THEN pix[c] ELSE shown[c]]
      /\ frame' = pix
      /\ UNCHANGED still

\* invalidate_tiles: cells of a batch lost in transit.  Indices past the end
\* of the metadata are ignored.
InvalidateTiles(S) ==
  /\ det' = [c \in DOMAIN det |-> IF c \in S THEN ForceRedetect(det[c]) ELSE det[c]]
  /\ UNCHANGED <<count, frame, sent, shown, still>>

\* The refresh drops cached encodes but re-arms nothing (mutant).
InvalidateCache_NoRearm == UNCHANGED vars

\* invalidate_cache, every FULL_REFRESH_INTERVAL: cells last sent as dynamic.
InvalidateCache ==
  /\ det' = [c \in DOMAIN det |-> IF det[c].dyn THEN ForceRedetect(det[c]) ELSE det[c]]
  /\ UNCHANGED <<count, frame, sent, shown, still>>

\* reset, on a resolution change.
Reset ==
  /\ ~still
  /\ det' = Empty
  /\ count' = 0
  /\ frame' = Empty
  /\ sent' = {}
  /\ shown' = Empty
  /\ UNCHANGED still

\* The environment: the user stops touching the screen.
Freeze ==
  /\ ~FirstFrame
  /\ ~still
  /\ still' = TRUE
  /\ UNCHANGED <<det, count, frame, sent, shown>>

NextFrame ==
  \E G \in Grids : \E pix \in [G -> Pixels], dmg \in SUBSET G : DetectChanges(G, pix, dmg)

Next ==
  \/ NextFrame
  \/ \E S \in SUBSET Cell : InvalidateTiles(S)
  \/ InvalidateCache
  \/ Reset
  \/ Freeze

Spec == Init /\ [][Next]_vars

\* The processing loop keeps handing frames to the detector (wlr-screencopy
\* captures at target_fps whether or not anything changed), and the 1 s refresh
\* timer keeps firing.
FairSpec == Spec /\ WF_vars(NextFrame) /\ WF_vars(InvalidateCache)

-----------------------------------------------------------------------------
\* A cell whose forced re-send was consumed without a send: it was armed
\* (last_sent_frame zeroed), yet its hash baseline has advanced again.
Swallowed(c) == ~det[c].sent /\ det[c].prev # NoHash

\* The half hash and the full hash of a cell always describe the same pixels,
\* whatever mix of forced resets, throttled frames and skips it went through:
\* a half hash left behind by a reset would make the zero-copy shortcut answer
\* "unchanged" for a cell that must be re-sent.
HashesInLockstep ==
  \A c \in DOMAIN det :
    /\ det[c].prev = NoHash <=> det[c].half = NoHash
    /\ det[c].prev # NoHash => det[c].prev.even = det[c].half

\* A cell armed for re-detection stays exempt from the damage skip until a
\* frame has compared it: no order of invalidations and frames leaves a cell
\* with a zeroed baseline that damage can hide.
ArmedCellIsForced ==
  \A c \in DOMAIN det : det[c].prev = NoHash => det[c].force

\* Unless a cell is armed, the baseline the next frame is compared with agrees,
\* on the rows the half hash sees, with the last frame - through damage skips,
\* throttled frames and the zero-copy shortcut.
BaselineFollowsFrame ==
  \A c \in DOMAIN det :
    det[c].prev # NoHash => det[c].prev.even = frame[c].even

\* When the baseline has moved past what was last sent (throttling), the cell
\* is one the 1 s refresh re-arms (last_sent_as_dynamic), so the client does
\* not keep the old pixels for good - except for swallowed re-sends.
HeldCellIsRefreshed ==
  \A c \in DOMAIN det :
    \/ det[c].prev = NoHash
    \/ det[c].prev = shown[c]
    \/ det[c].dyn
    \/ Swallowed(c)

\* Once frame_count has reached the static interval, the first frame after a
\* cell was armed sends that cell, whatever its pixels, the damage and the
\* throttle say.
ArmedCellIsSent ==
  [][\A c \in DOMAIN det :
       (/\ det[c].prev = NoHash
        /\ c \in DOMAIN det'
        /\ det'[c].prev # NoHash
        /\ count' >= StaticInterval) => c \in sent']_vars

\* When the screen stops changing, what was last sent for every cell ends up
\* agreeing with the screen on the rows the half hash sees, in spite of
\* throttling: no update is held back for ever, except by a swallowed re-send.
StillScreenIsShown ==
  still ~> \A c \in DOMAIN det : shown[c].even = frame[c].even \/ Swallowed(c)

=============================================================================
