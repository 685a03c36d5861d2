---------------------------- MODULE StreamSession ----------------------------
(***************************************************************************)
(* One streaming session (stream.rs), with the pipeline's control state    *)
(* (pipeline.rs) and the ACK tracker (transport.rs):                       *)
(*                                                                         *)
(*   processing thread   drain lost cells -> take a frame -> process       *)
(*                       -> blocking_send the encoded frame                *)
(*   send loop (async)   drain ACKs -> expire batches -> report lost cells *)
(*                       -> send one encoded frame as a tracked batch      *)
(*                                                                         *)
(* They share the bounded channel of encoded frames and the unbounded      *)
(* channel of lost cells.  The network and the browser are the             *)
(* environment: an ACK arrives for any batch sent, at any time, several    *)
(* times, or never.  Time is abstracted: a batch that is in flight becomes *)
(* overdue (older than ACK_TIMEOUT) by a step of its own.                  *)
(*                                                                         *)
(* Unbounded channels that are always drained whole and whose order does   *)
(* not matter to the receiver (ACKs, lost cells) are sets.                 *)
(***************************************************************************)
EXTENDS DiffCell, Sequences

CONSTANTS Size,             \* screen resolutions
          Grid,             \* resolution -> set of cells of its tile grid
          QueueCap,         \* capacity of the encoded-frame channel (4)
          MaxFrames         \* bound: non-empty frames the pipeline produces

ASSUME SessionAssumption ==
  /\ Grid \in [Size -> (SUBSET Cell) \ {{}}]
  /\ QueueCap \in Nat \ {0}
  /\ MaxFrames \in Nat

CONSTANT NoSize             \* screen_size = None, header = None
ASSUME NoSizeAssumption == NoSize \notin Size

VARIABLES
  \* processing thread: Pipeline
  pc,          \* "drain", "recv", "send" or "done"
  screenSize, epoch,
  det, count,  \* DiffDetector: cell states (empty: no frame yet), frame_count
  out,         \* the encoded frame being handed over: a sequence of length <= 1
  \* shared
  encoded,     \* channel of encoded frames
  lost,        \* channel of lost cells
  open,        \* the send loop runs; FALSE: it ended and dropped its channel ends
  \* send loop: AckTracker and the DataChannel
  nextSeq, inFlight,
  acks,        \* ACKs received and not yet drained
  \* ghosts
  newest,      \* cell -> number of the newest frame that carries it, this epoch
  produced,    \* number of non-empty frames produced
  acked        \* numbers of the frames whose ACK the tracker accepted

pipelineVars == <<pc, screenSize, epoch, det, count, out, newest, produced>>
senderVars   == <<nextSeq, inFlight, acked>>
vars == <<pc, screenSize, epoch, det, count, out, newest, produced,
          encoded, lost, open, nextSeq, inFlight, acks, acked>>

EncodedFrame == [header : Size \cup {NoSize}, cells : SUBSET Cell, epoch : Nat,
                 no : Nat, grid : Size]
LostCells    == [epoch : Nat, cells : SUBSET Cell]
InFlight     == [seq : Nat, epoch : Nat, cells : SUBSET Cell, no : Nat,
                 grid : Size, late : BOOLEAN]

TypeOK ==
  /\ pc \in {"drain", "recv", "send", "done"}
  /\ screenSize \in Size \cup {NoSize}
  /\ epoch \in Nat
  /\ det \in [IF screenSize = NoSize THEN {} ELSE Grid[screenSize] -> CellState]
  /\ count \in 0 .. MaxInterval
  /\ out \in Seq(EncodedFrame) /\ Len(out) = IF pc = "send" THEN 1 ELSE 0
  /\ encoded \in Seq(EncodedFrame) /\ Len(encoded) <= QueueCap
  /\ lost \subseteq LostCells
  /\ open \in BOOLEAN
  /\ nextSeq \in Nat
  /\ inFlight \subseteq InFlight
  /\ acks \subseteq Nat
  /\ newest \in [DOMAIN det -> Nat]
  /\ produced \in Nat
  /\ acked \subseteq Nat

Init ==
  /\ pc = "drain"
  /\ screenSize = NoSize
  /\ epoch = 0
  /\ det = [c \in {} |-> Blank]
  /\ count = 0
  /\ out = <<>>
  /\ encoded = <<>>
  /\ lost = {}
  /\ open = TRUE
  /\ nextSeq = 0
  /\ inFlight = {}
  /\ acks = {}
  /\ newest = [c \in {} |-> 0]
  /\ produced = 0
  /\ acked = {}

-----------------------------------------------------------------------------
(* The processing thread. *)

\* Pipeline::invalidate of everything in the lost channel: cells reported
\* under another epoch are dropped, indices past the grid ignored.
Invalidated ==
  LET due == UNION {l.cells : l \in {x \in lost : x.epoch = epoch}}
  IN  [c \in DOMAIN det |-> IF c \in due THEN ForceRedetect(det[c]) ELSE det[c]]

\* The reports are received but not applied (mutant).
Drain_LosesReports ==
  /\ pc = "drain"
  /\ open
  /\ pc' = "recv"
  /\ lost' = {}
  /\ UNCHANGED <<screenSize, epoch, det, count, out, newest, produced, encoded,
                 open, acks, senderVars>>

Drain ==
  /\ pc = "drain"
  /\ open
  /\ pc' = "recv"
  /\ lost' = {}
  /\ det' = Invalidated
  /\ UNCHANGED <<screenSize, epoch, count, out, newest, produced, encoded,
                 open, acks, senderVars>>

\* while !encoded_tx.is_closed(): the loop head sees the session's end.
ProcessingStops ==
  /\ pc = "drain"
  /\ ~open
  /\ pc' = "done"
  /\ UNCHANGED <<screenSize, epoch, det, count, out, newest, produced, encoded,
                 lost, open, acks, senderVars>>

\* recv_timeout: no frame came within a frame duration.
RecvTimeout ==
  /\ pc = "recv"
  /\ pc' = "drain"
  /\ UNCHANGED <<screenSize, epoch, det, count, out, newest, produced, encoded,
                 lost, open, acks, senderVars>>

\* The capture thread died and dropped its end of the frame channel.
CaptureDisconnected ==
  /\ pc = "recv"
  /\ pc' = "done"
  /\ UNCHANGED <<screenSize, epoch, det, count, out, newest, produced, encoded,
                 lost, open, acks, senderVars>>

\* A resize keeps the epoch (mutant).
EpochAfter_NoBump(size) == epoch

\* The first frame has epoch 0; each later change of resolution bumps it.
EpochAfter(size) ==
  IF size # screenSize /\ screenSize # NoSize THEN epoch + 1 ELSE epoch

\* Pipeline::process on a frame of resolution size with pixels pix whose damage
\* touches dmg (the whole grid: no damage information); refresh says that
\* FULL_REFRESH_INTERVAL has passed, which a resize just restarted.  Changed
\* cells are merged into tiles, which may bridge a gap over unchanged cells:
\* ack_indices, covered, is every cell the tiles cover.
Process(size, pix, dmg, refresh, covered) ==
  LET resized == size # screenSize
      base    == IF resized THEN [c \in Grid[size] |-> Blank]
                 ELSE IF refresh THEN [c \in Grid[size] |->
                        IF det[c].dyn THEN ForceRedetect(det[c]) ELSE det[c]]
                 ELSE det
      n       == Saturate((IF resized THEN 0 ELSE count) + 1)
      changed == {c \in Grid[size] : Sends(base[c], resized, n, pix[c], c \notin dmg)}
  IN  /\ pc = "recv"
      /\ produced < MaxFrames
      /\ resized => ~refresh
      /\ changed \subseteq covered
      /\ changed = {} => covered = {}
      /\ screenSize' = size
      /\ epoch' = EpochAfter(size)
      /\ count' = n
      /\ det' = [c \in Grid[size] |->
                   Detected(base[c], resized, n, pix[c], c \notin dmg)]
      /\ IF changed = {} /\ ~resized
         THEN /\ pc' = "drain"
              /\ UNCHANGED <<out, newest, produced>>
         ELSE /\ pc' = "send"
              /\ produced' = produced + 1
              /\ out' = <<[header |-> IF resized THEN size ELSE NoSize,
                           cells  |-> covered,
                           epoch  |-> EpochAfter(size),
                           no     |-> produced + 1,
                           grid   |-> size]>>
              /\ newest' = [c \in Grid[size] |->
                              IF c \in covered THEN produced + 1 ELSE newest[c]]
      /\ UNCHANGED <<encoded, lost, open, acks, senderVars>>

\* encoded_tx.blocking_send: waits for room.
Enqueue ==
  /\ pc = "send"
  /\ open
  /\ Len(encoded) < QueueCap
  /\ encoded' = encoded \o out
  /\ out' = <<>>
  /\ pc' = "drain"
  /\ UNCHANGED <<screenSize, epoch, det, count, newest, produced, lost, open,
                 acks, senderVars>>

\* ... or fails because the send loop is gone.
EnqueueFails ==
  /\ pc = "send"
  /\ ~open
  /\ out' = <<>>
  /\ pc' = "done"
  /\ UNCHANGED <<screenSize, epoch, det, count, newest, produced, encoded, lost,
                 open, acks, senderVars>>

\* A blocking_send that does not notice the receiver is gone (mutant).
Handover_IgnoresClose == Enqueue

Handover == Enqueue \/ EnqueueFails

-----------------------------------------------------------------------------
(* The send loop.  Every pass starts by draining ACKs, then expiring.      *)

Expired   == {b \in inFlight : b.seq \notin acks /\ b.late}
Remaining == {b \in inFlight : b.seq \notin acks /\ ~b.late}

\* What the client did not acknowledge is dropped without a report (mutant).
DrainAcksAndExpire_Silent ==
  /\ acks' = {}
  /\ acked' = acked \cup {b.no : b \in {x \in inFlight : x.seq \in acks}}
  /\ UNCHANGED lost

DrainAcksAndExpire ==
  /\ acks' = {}
  /\ acked' = acked \cup {b.no : b \in {x \in inFlight : x.seq \in acks}}
  /\ lost' = lost \cup {[epoch |-> b.epoch, cells |-> b.cells] : b \in Expired}

\* The ticker drains ACKs but only frames expire batches (mutant).
Tick_NoExpiry ==
  /\ open
  /\ acks' = {}
  /\ acked' = acked \cup {b.no : b \in {x \in inFlight : x.seq \in acks}}
  /\ inFlight' = {b \in inFlight : b.seq \notin acks}
  /\ UNCHANGED <<pipelineVars, encoded, lost, open, nextSeq>>

\* The 50 ms ticker fired.
Tick ==
  /\ open
  /\ DrainAcksAndExpire
  /\ inFlight' = Remaining
  /\ UNCHANGED <<pipelineVars, encoded, open, nextSeq>>

\* An encoded frame arrived: header first, then - unless it has no tiles -
\* the batch is registered and sent.
SendFrame ==
  /\ open
  /\ encoded # <<>>
  /\ DrainAcksAndExpire
  /\ encoded' = Tail(encoded)
  /\ LET f == Head(encoded)
     IN  IF f.cells = {}
         THEN /\ inFlight' = Remaining
              /\ UNCHANGED nextSeq
         ELSE /\ nextSeq' = nextSeq + 1
              /\ inFlight' = Remaining \cup
                   {[seq |-> nextSeq + 1, epoch |-> f.epoch, cells |-> f.cells,
                     no |-> f.no, grid |-> f.grid, late |-> FALSE]}
  /\ UNCHANGED <<pipelineVars, open>>

\* send_header or send_tiles failed: the session ends with an error and drops
\* its receiver, with whatever frames it still held.
SendFails ==
  /\ open
  /\ encoded # <<>>
  /\ DrainAcksAndExpire
  /\ inFlight' = Remaining
  /\ encoded' = <<>>
  /\ open' = FALSE
  /\ UNCHANGED <<pipelineVars, nextSeq>>

\* The server drops the session's future: the client closed its WebSocket.
Cancelled ==
  /\ open
  /\ open' = FALSE
  /\ encoded' = <<>>
  /\ UNCHANGED <<pipelineVars, lost, acks, senderVars>>

\* recv() returned None: the processing thread is gone and the channel empty.
StreamEnds ==
  /\ open
  /\ pc = "done"
  /\ encoded = <<>>
  /\ open' = FALSE
  /\ UNCHANGED <<pipelineVars, encoded, lost, acks, senderVars>>

-----------------------------------------------------------------------------
(* The environment. *)

\* More than ACK_TIMEOUT passes since batch b was sent.
BecomesOverdue(b) ==
  /\ ~b.late
  /\ inFlight' = (inFlight \ {b}) \cup {[b EXCEPT !.late = TRUE]}
  /\ UNCHANGED <<pipelineVars, encoded, lost, open, nextSeq, acks, acked>>

\* The browser acknowledges batch seq (again, perhaps).
AckArrives(seq) ==
  /\ open
  /\ acks' = acks \cup {seq}
  /\ UNCHANGED <<pipelineVars, encoded, lost, open, senderVars>>

NextFrame ==
  /\ pc = "recv"
  /\ produced < MaxFrames
  /\ \E size \in Size : \E pix \in [Grid[size] -> Pixels], dmg \in SUBSET Grid[size] :
       \E refresh \in BOOLEAN, covered \in SUBSET Grid[size] :
         Process(size, pix, dmg, refresh, covered)

Recv == NextFrame \/ RecvTimeout \/ CaptureDisconnected

Next ==
  \/ Drain
  \/ ProcessingStops
  \/ Recv
  \/ Handover
  \/ Tick
  \/ SendFrame
  \/ SendFails
  \/ StreamEnds
  \/ Cancelled
  \/ \E b \in inFlight : BecomesOverdue(b)
  \/ \E seq \in 1 .. nextSeq : AckArrives(seq)

Spec == Init /\ [][Next]_vars

\* Both loops keep running; the ticker keeps firing; time passes; frames keep
\* coming (a receive that can return a frame does not time out for ever).
FairSpec ==
  /\ Spec
  /\ WF_vars(Drain) /\ WF_vars(ProcessingStops) /\ WF_vars(Recv) /\ SF_vars(NextFrame)
  /\ WF_vars(Handover)
  /\ WF_vars(Tick) /\ WF_vars(SendFrame \/ SendFails) /\ WF_vars(StreamEnds)
  /\ WF_vars(\E b \in inFlight : BecomesOverdue(b))

-----------------------------------------------------------------------------
\* A re-send that was due was throttled and its baseline advanced all the same.
Swallowed(c) == ~det[c].sent /\ det[c].prev # NoHash

\* A frame or batch carries the newest content sent for cell c.
Carries(f, c) == f.no = newest[c] /\ c \in f.cells /\ f.epoch = epoch

InHandover(c) ==
  \/ \E i \in 1 .. Len(out) : Carries(out[i], c)
  \/ \E i \in 1 .. Len(encoded) : Carries(encoded[i], c)

AwaitsAck(c) == \E b \in inFlight : Carries(b, c)

ReportedLost(c) == \E l \in lost : l.epoch = epoch /\ c \in l.cells

Armed(c) == det[c].prev = NoHash

\* No cell is forgotten: while the session lives, the newest batch that
\* carries a cell has been acknowledged, or the cell is still on its way to
\* the client, or its loss is on its way back to the pipeline, or it is armed
\* for re-sending.  It holds across resizes, late and repeated ACKs, frames
\* overtaken in the queue and refreshes; only a swallowed re-send escapes it.
NoCellForgotten ==
  open => \A c \in DOMAIN det :
    \/ newest[c] \in acked
    \/ InHandover(c)
    \/ AwaitsAck(c)
    \/ ReportedLost(c)
    \/ Armed(c)
    \/ Swallowed(c)

\* Where the newest content of cell c is, in TileDelivery's terms.
PlaceOf(c) ==
  IF newest[c] \in acked THEN "acked"
  ELSE IF InHandover(c) THEN "travelling"
  ELSE IF AwaitsAck(c) THEN "awaiting"
  ELSE IF Armed(c) THEN "armed"
  ELSE IF ReportedLost(c) THEN "reported"
  ELSE "swallowed"

PlaceMap == IF open THEN [c \in DOMAIN det |-> PlaceOf(c)] ELSE [c \in {} |-> "armed"]

Delivery == INSTANCE TileDelivery WITH live <- open, place <- PlaceMap

\* The session delivers every cell: content that was sent is acknowledged,
\* reported and armed, or on its way, and moves between these only in that
\* order, whatever happens to batches, ACKs and the resolution.
DeliversEveryCell == Delivery!Spec

\* Whatever carries the current epoch - queued, in flight or reported lost -
\* speaks of the current grid, so an invalidation never lands on a cell that
\* only shares its index with the cell that was lost.
EpochNamesGrid ==
  /\ \A i \in 1 .. Len(out) : out[i].epoch = epoch => out[i].grid = screenSize
  /\ \A i \in 1 .. Len(encoded) : encoded[i].epoch = epoch => encoded[i].grid = screenSize
  /\ \A b \in inFlight : b.epoch = epoch => b.grid = screenSize
  /\ \A l \in lost : l.epoch = epoch => l.cells \subseteq DOMAIN det

\* force_redetect_tile's comment and docs/DEVELOPMENT.md: the cells of a lost
\* batch are re-sent on the next frame, regardless of whether their pixels
\* changed - the throttle never eats a forced re-send.
ForcedResendHappens == \A c \in DOMAIN det : ~Swallowed(c)

Unacknowledged(c, n) ==
  /\ open
  /\ pc # "done"
  /\ produced < MaxFrames
  /\ c \in DOMAIN det
  /\ newest[c] = n
  /\ n \notin acked

\* A cell whose newest batch is never acknowledged is sent again (or the
\* resolution changes, which starts over, or the session ends) - unless the
\* re-send is swallowed: in the first StaticInterval frames after a start or a
\* resize the throttle eats it, and as the cell counts as never sent, no refresh
\* makes up for that.
LostCellIsResent ==
  \A c \in Cell, n \in 1 .. MaxFrames :
    Unacknowledged(c, n) ~> (~Unacknowledged(c, n) \/ Swallowed(c))

\* The two halves end together, whichever ends first.
HalvesEndTogether == (~open \/ pc = "done") ~> (~open /\ pc = "done")

=============================================================================
