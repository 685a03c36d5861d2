---------------------------- MODULE ClientCanvas ----------------------------
(***************************************************************************)
(* The browser's end of the "screen" DataChannel (client.html), with the   *)
(* server's sending side (transport.rs) as the source of its messages.     *)
(*                                                                         *)
(* The channel is reliable and unordered (webrtc_connection.rs): each      *)
(* message is delivered once, in any order, unless the channel closes.  A  *)
(* batch is a header if the resolution changed, a marker that names the    *)
(* batch and counts its tiles, and the tiles in one or more packets.       *)
(*                                                                         *)
(* JavaScript is single threaded, so each callback is one step; decodes    *)
(* (createImageBitmap) complete in any order.  A cell is a position on the *)
(* screen; of a tile's pixels only the batch it belongs to matters.        *)
(***************************************************************************)
EXTENDS Integers, Sequences, FiniteSets, FiniteSetsExt, SequencesExt

CONSTANTS Cell,         \* positions of tiles
          Size,         \* resolutions
          NoSize,       \* no resolution yet
          MaxBatches,   \* bound: batches the server sends, over all sessions
          MaxChannels,  \* bound: times the channel is set up
          MaxFailed,    \* bound: tiles that fail to decode
          MaxLag        \* bound: messages a new batch can overtake

ASSUME ClientAssumption ==
  /\ IsFiniteSet(Cell) /\ Cell # {}
  /\ NoSize \notin Size
  /\ MaxBatches \in Nat /\ MaxChannels \in Nat /\ MaxFailed \in Nat /\ MaxLag \in Nat

VARIABLES
  \* the server and the channel
  batches,      \* every batch sent: its session, seq, size and cells
  wire,         \* messages sent and not yet delivered: their kind ("header",
                \* "marker", "tiles"), their batch and their cells
  \* the client
  session,      \* how often the channel was set up
  channelOpen,  \* dataChannel is set and its readyState is "open"
  screen,       \* screenW, screenH; NoSize: no offscreen canvas
  entry,        \* ackPending: number of the batch whose marker came last, 0: null
  remaining,    \* remaining of every batch entry created by a marker
  attributed,   \* tile whose decode was started -> its ackEntry
  pending,      \* decoded bitmaps waiting to be drawn
  rafId,        \* renderFrame is scheduled
  modeDue,      \* applyMode is scheduled
  canvas,       \* cell -> number of the batch drawn there last, 0: blank
  \* ghosts
  decoded, undecoded,  \* tiles that were decoded, that failed to be
  framed,       \* the batch whose header came last, 0: none
  overtook,     \* tiles drawn while a header they belong under was on its way
  acked         \* ACKs sent: by which entry, in which session

decodeVars == <<decoded, undecoded>>
headerVars == <<framed, overtook>>
canvasVars == <<batches, wire, session, channelOpen, screen, entry, remaining, attributed,
          pending, rafId, modeDue, canvas, decoded, undecoded, framed, overtook, acked>>

\* A tile is a batch number and a cell of the batch.
TilesOf(k) == {k} \X batches[k].cells

Decoding == (DOMAIN attributed \ decoded) \ undecoded

CanvasInit ==
  /\ batches = <<>> /\ wire = {}
  /\ session = 0 /\ channelOpen = FALSE
  /\ screen = NoSize
  /\ entry = 0
  /\ remaining = [k \in {} |-> 0]
  /\ attributed = [t \in {} |-> 0]
  /\ pending = <<>>
  /\ rafId = FALSE /\ modeDue = FALSE
  /\ canvas = [c \in Cell |-> 0]
  /\ decoded = {} /\ undecoded = {}
  /\ framed = 0 /\ overtook = {}
  /\ acked = {}

-----------------------------------------------------------------------------
(* Sessions. *)

\* ondatachannel after an offer: an older channel, if there is one, is closed
\* with whatever was under way on it.  Neither ackPending nor the decodes that
\* still run are reset.
OpenChannel ==
  /\ session < MaxChannels
  /\ session' = session + 1
  /\ channelOpen' = TRUE
  /\ wire' = {}
  /\ UNCHANGED <<batches, screen, entry, remaining, attributed, pending, rafId,
                 modeDue, canvas, decodeVars, headerVars, acked>>

\* onclose.
CloseChannel ==
  /\ channelOpen
  /\ channelOpen' = FALSE
  /\ wire' = {}
  /\ UNCHANGED <<batches, session, screen, entry, remaining, attributed, pending,
                 rafId, modeDue, canvas, decodeVars, headerVars, acked>>

\* The batches of the current session.
Current == {k \in DOMAIN batches : batches[k].session = session}

\* A session's first frame and each change of resolution carry a header and
\* cover the whole screen.
NeedsHeader(size) == Current = {} \/ Last(batches).size # size

\* send_header and send_tiles.  The tiles share a packet, or each has its own.
Send(size, cells, packets) ==
  LET k == Len(batches) + 1
  IN  /\ channelOpen
      /\ k <= MaxBatches
      /\ Cardinality(wire) <= MaxLag
      /\ NeedsHeader(size) => cells = Cell
      /\ batches' = Append(batches, [session |-> session,
                                     seq |-> Cardinality(Current) + 1,
                                     size |-> size, cells |-> cells])
      /\ wire' = wire
           \cup (IF NeedsHeader(size)
                 THEN {[kind |-> "header", batch |-> k, cells |-> {}]} ELSE {})
           \cup {[kind |-> "marker", batch |-> k, cells |-> {}]}
           \cup {[kind |-> "tiles", batch |-> k, cells |-> p] : p \in packets}
      /\ UNCHANGED <<session, channelOpen, screen, entry, remaining, attributed, pending,
                     rafId, modeDue, canvas, decodeVars, headerVars, acked>>

-----------------------------------------------------------------------------
(* dataChannel.onmessage. *)

\* The resized canvas is not drawn again (mutant).
ReceiveHeader_NoRedraw(msg) ==
  /\ msg.kind = "header"
  /\ wire' = wire \ {msg}
  /\ screen' = batches[msg.batch].size
  /\ canvas' = [c \in Cell |-> 0]
  /\ framed' = msg.batch
  /\ UNCHANGED <<batches, session, channelOpen, entry, remaining, attributed, pending,
                 rafId, modeDue, decodeVars, overtook, acked>>

\* initFrame: a new, blank canvas - whatever was drawn on the old one is gone -
\* and applyMode on the next frame.
ReceiveHeader(msg) ==
  /\ msg.kind = "header"
  /\ wire' = wire \ {msg}
  /\ screen' = batches[msg.batch].size
  /\ canvas' = [c \in Cell |-> 0]
  /\ framed' = msg.batch
  /\ modeDue' = TRUE
  /\ UNCHANGED <<batches, session, channelOpen, entry, remaining, attributed, pending,
                 rafId, decodeVars, overtook, acked>>

\* The marker is counted as a tile (mutant).
ReceiveMarker_OneMore(msg) ==
  /\ msg.kind = "marker"
  /\ wire' = wire \ {msg}
  /\ entry' = msg.batch
  /\ remaining' = [k \in DOMAIN remaining \cup {msg.batch} |->
                     IF k = msg.batch THEN Cardinality(batches[k].cells) + 1
                     ELSE remaining[k]]
  /\ UNCHANGED <<batches, session, channelOpen, screen, attributed, pending, rafId,
                 modeDue, canvas, decodeVars, headerVars, acked>>

\* ackPending becomes a new entry.
ReceiveMarker(msg) ==
  /\ msg.kind = "marker"
  /\ wire' = wire \ {msg}
  /\ entry' = msg.batch
  /\ remaining' = [k \in DOMAIN remaining \cup {msg.batch} |->
                     IF k = msg.batch THEN Cardinality(batches[k].cells)
                     ELSE remaining[k]]
  /\ UNCHANGED <<batches, session, channelOpen, screen, attributed, pending, rafId,
                 modeDue, canvas, decodeVars, headerVars, acked>>

\* Every tile of the packet starts to decode, with ackPending as its entry.
ReceiveTiles(msg) ==
  LET tiles == {msg.batch} \X msg.cells
  IN  /\ msg.kind = "tiles"
      /\ wire' = wire \ {msg}
      /\ attributed' = [t \in DOMAIN attributed \cup tiles |->
                          IF t \in tiles THEN entry ELSE attributed[t]]
      /\ UNCHANGED <<batches, session, channelOpen, screen, entry, remaining, pending,
                     rafId, modeDue, canvas, decodeVars, headerVars, acked>>

Receive ==
  \E msg \in wire : ReceiveHeader(msg) \/ ReceiveMarker(msg) \/ ReceiveTiles(msg)

-----------------------------------------------------------------------------
(* Decodes and rendering. *)

\* The shared ackPending at the time the decode completes (mutant).
EntryOf_Latest(t) == entry

\* The entry the tile's decode was started with.
EntryOf(t) == attributed[t]

\* maybeAck(null) does nothing; otherwise the entry is counted down, and
\* acknowledged on the channel there is now.
MaybeAck(e) ==
  IF e = 0 THEN UNCHANGED <<remaining, acked>>
  ELSE /\ remaining' = [remaining EXCEPT ![e] = @ - 1]
       /\ acked' = IF remaining[e] <= 1 /\ channelOpen
                   THEN acked \cup {[by |-> e, session |-> session]} ELSE acked

\* createImageBitmap(...).then(...)
DecodeDone(t) ==
  /\ decoded' = decoded \cup {t}
  /\ pending' = Append(pending, t)
  /\ rafId' = TRUE
  /\ MaybeAck(EntryOf(t))
  /\ UNCHANGED <<batches, wire, session, channelOpen, screen, entry, attributed,
                 modeDue, canvas, undecoded, headerVars>>

\* createImageBitmap(...).catch(...)
DecodeFails(t) ==
  /\ Cardinality(undecoded) < MaxFailed
  /\ undecoded' = undecoded \cup {t}
  /\ UNCHANGED <<batches, wire, session, channelOpen, screen, entry, remaining,
                 attributed, pending, rafId, modeDue, canvas, decoded, headerVars, acked>>

\* What cell c shows once everything pending is drawn over it in turn.
Drawn(c) ==
  LET over == {i \in DOMAIN pending : pending[i][2] = c}
  IN  IF over = {} THEN canvas[c] ELSE pending[Max(over)][1]

\* A header of tile t's batch, or of one before it, is still to come.
HeaderToCome(t) == \E m \in wire : m.kind = "header" /\ m.batch <= t[1]

\* Everything pending is drawn.
DrawPending ==
  /\ pending' = <<>>
  /\ canvas' = [c \in Cell |-> Drawn(c)]
  /\ overtook' = overtook \cup {t \in ToSet(pending) : HeaderToCome(t)}

\* pending is emptied although there is no canvas yet (mutant).
RenderFrame_DropsEarly ==
  /\ rafId
  /\ rafId' = FALSE
  /\ IF screen = NoSize THEN pending' = <<>> /\ UNCHANGED <<canvas, overtook>>
     ELSE DrawPending
  /\ UNCHANGED <<batches, wire, session, channelOpen, screen, entry, remaining,
                 attributed, modeDue, decodeVars, framed, acked>>

\* renderFrame: without a canvas the bitmaps wait; otherwise all of them are
\* drawn in the order they were decoded.
RenderFrame ==
  /\ rafId
  /\ rafId' = FALSE
  /\ IF screen = NoSize THEN UNCHANGED <<pending, canvas, overtook>> ELSE DrawPending
  /\ UNCHANGED <<batches, wire, session, channelOpen, screen, entry, remaining,
                 attributed, modeDue, decodeVars, framed, acked>>

\* applyMode, on a visible viewport.
ApplyMode ==
  /\ modeDue
  /\ modeDue' = FALSE
  /\ rafId' = (rafId \/ screen # NoSize)
  /\ UNCHANGED <<batches, wire, session, channelOpen, screen, entry, remaining,
                 attributed, pending, canvas, decodeVars, headerVars, acked>>

Decode == \E t \in Decoding : DecodeDone(t) \/ DecodeFails(t)

CanvasNext ==
  \/ OpenChannel
  \/ CloseChannel
  \/ \E size \in Size, cells \in (SUBSET Cell) \ {{}} :
       \E packets \in {{cells}, {{c} : c \in cells}} : Send(size, cells, packets)
  \/ Receive
  \/ Decode
  \/ RenderFrame
  \/ ApplyMode

CanvasSpec == CanvasInit /\ [][CanvasNext]_canvasVars

\* An open channel delivers, decodes terminate, animation frames fire.
CanvasFairSpec ==
  /\ CanvasSpec
  /\ WF_canvasVars(Receive)
  /\ WF_canvasVars(Decode)
  /\ WF_canvasVars(RenderFrame)
  /\ WF_canvasVars(ApplyMode)

-----------------------------------------------------------------------------
\* Entry k counted a tile that is not of its batch.
Mixed(k) == \E t \in decoded : attributed[t] = k /\ t[1] # k

\* The count of a batch is honest: an ACK that the batch's own entry sent in
\* the batch's own session, and whose entry no other batch's tile was counted
\* on, says that every tile of the batch was decoded, however decodes of
\* several batches interleave.  What the unordered channel breaks is only the
\* attribution.
UnmixedAckIsHonest ==
  \A a \in acked : a.session = batches[a.by].session /\ ~Mixed(a.by)
                     => TilesOf(a.by) \subseteq decoded

\* No decoded tile is lost - it may already be acknowledged: it waits to be drawn,
\* or its place on the canvas is filled, by itself or by what was drawn over it.
\* A header blanks the canvas, and that loses no tile of an earlier batch, whose
\* place is sent again with the header's own.  The exception is a tile that
\* overtook a header: drawn on the canvas there was while a header of its batch,
\* or of one before, was still on its way, it is wiped when that header comes.
DecodedIsNotLost ==
  \A t \in decoded :
    \/ t \in ToSet(pending) \/ canvas[t[2]] # 0
    \/ t[1] < framed /\ t[2] \in batches[framed].cells
    \/ t \in overtook

\* Batch k came in order: each of its tiles after its marker and before the
\* next one.
CameInOrder(k) ==
  /\ k \in DOMAIN batches
  /\ \A t \in TilesOf(k) : t \in DOMAIN attributed /\ attributed[t] = k

\* Batch k was acknowledged, or need not be any more.
Settled(k) ==
  /\ k \in DOMAIN batches
  /\ \/ [by |-> k, session |-> batches[k].session] \in acked
     \/ TilesOf(k) \cap undecoded # {}
     \/ session # batches[k].session
     \/ ~channelOpen

\* A batch that came in order is acknowledged, unless a tile fails to decode or
\* the channel goes.
CompleteIsAcked == \A k \in 1 .. MaxBatches : CameInOrder(k) ~> Settled(k)

\* Decoded tiles are drawn once there is a canvas, also when the header that
\* makes it comes after them and nothing else ever comes.
DecodedIsDrawn == (pending # <<>> /\ screen # NoSize) ~> pending = <<>>

\* transport.rs: the client ACKs a batch only after decoding every tile in it.
AckMeansDecoded ==
  \A a \in acked : \A k \in DOMAIN batches :
    batches[k].session = a.session /\ batches[k].seq = batches[a.by].seq
      => TilesOf(k) \subseteq decoded

\* webrtc_connection.rs: the ACK system handles staleness.  When nothing is
\* under way any more, a cell whose newest batch was acknowledged - by its own
\* entry, with no other batch's tile counted on it - shows that batch: what was
\* acknowledged and is not shown, the server will not send again.  It fails when
\* an older tile is decoded after a newer one, and when a tile that overtook its
\* header onto the canvas of an earlier session or size is wiped by the header.
AcknowledgedIsShown ==
  (wire = {} /\ Decoding = {} /\ pending = <<>>) =>
    \A a \in acked : \A c \in batches[a.by].cells :
      \/ a.session # session \/ batches[a.by].session # session
      \/ Mixed(a.by)
      \/ \E j \in Current : j > a.by /\ c \in batches[j].cells
      \/ canvas[c] = a.by

=============================================================================
