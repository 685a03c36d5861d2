----------------------------- MODULE CaptureFeed -----------------------------
(***************************************************************************)
(* The wlr-screencopy capture thread (capture/wlr.rs): per frame it asks   *)
(* the compositor for a capture, waits for the buffer hints, has the frame *)
(* copied into a DMA-BUF - or, when that is impossible or rejected, into   *)
(* shared memory - and offers the result to the session's one-place        *)
(* channel, dropping it when the place is taken.                           *)
(*                                                                         *)
(* The compositor and the session's processing thread are the environment. *)
(* `fi' is WlrState.frame_info, which the compositor's events fill in and  *)
(* only reset_frame clears; it belongs to the thread, not to one frame     *)
(* object.  The screen is a content number and a size.                     *)
(***************************************************************************)
EXTENDS Integers

CONSTANTS Size,        \* output sizes
          Format,      \* DRM formats the compositor may hint
          Linear,      \* those it supports with the LINEAR modifier
          None,        \* no buffer, no hint, no frame
          MaxChanges   \* bound: how often the screen changes

ASSUME FeedAssumption ==
  /\ Linear \subseteq Format
  /\ None \notin Size
  /\ MaxChanges \in Nat

Content == 0 .. MaxChanges
Picture == [content : Content, size : Size]
DmaHint == [size : Size, fmt : Format]

VARIABLES
  pc,         \* where run() is
  fi,         \* frame_info
  shmBuf,     \* the shared-memory buffer: its size and what was copied into it
  dmaBuf,     \* the DMA-BUF, likewise, with its format
  slot,       \* the session's frame channel
  taken,      \* the frame the processing thread took last
  stopFlag,   \* the stop flag
  gone,       \* the receiving half was dropped
  screen,     \* the output
  gpu,        \* linux_dmabuf and a GBM device are there
  shmOffered, \* the compositor hints shared-memory buffers
  \* ghosts
  live,       \* frame objects created and not destroyed
  copies,     \* copy requests sent for the current frame object
  since       \* the screen's content when the current frame was asked for

feedVars == <<pc, fi, shmBuf, dmaBuf, slot, taken, stopFlag, gone, screen, gpu,
              shmOffered, live, copies, since>>
bufs  == <<shmBuf, dmaBuf>>
feed  == <<slot, taken, stopFlag, gone>>
world == <<screen, gpu, shmOffered>>
feedGhosts == <<live, copies, since>>

AwaitsFrame == {"hint", "rehint", "dmacopy", "shmcopy"}

FeedTypeOK ==
  /\ pc \in {"top", "shm", "sleep", "ended"} \cup AwaitsFrame
  /\ fi \in [shm : Size \cup {None}, dma : DmaHint \cup {None},
             done : BOOLEAN, ready : BOOLEAN, failed : BOOLEAN]
  /\ shmBuf \in [size : Size, content : Content \cup {None}] \cup {None}
  /\ dmaBuf \in [size : Size, fmt : Format, content : Content \cup {None}] \cup {None}
  /\ slot \in Picture \cup {None}
  /\ taken \in Picture \cup {None}
  /\ stopFlag \in BOOLEAN /\ gone \in BOOLEAN
  /\ screen \in Picture /\ gpu \in BOOLEAN /\ shmOffered \in BOOLEAN
  /\ live \in Int /\ copies \in Nat
  /\ since \in Content

Clear == [shm |-> None, dma |-> None, done |-> FALSE, ready |-> FALSE, failed |-> FALSE]

FeedInit ==
  /\ pc = "top" /\ fi = Clear
  /\ shmBuf = None /\ dmaBuf = None
  /\ slot = None /\ taken = None
  /\ stopFlag = FALSE /\ gone = FALSE
  /\ screen \in [content : {0}, size : Size]
  /\ gpu \in BOOLEAN /\ shmOffered \in BOOLEAN
  /\ live = 0 /\ copies = 0 /\ since = 0

-----------------------------------------------------------------------------
(* The capture thread. *)

\* An earlier frame's `ready' stays (mutant).
CaptureOutput_KeepsReady(at) ==
  /\ pc' = at
  /\ fi' = [Clear EXCEPT !.ready = fi.ready]
  /\ copies' = 0
  /\ since' = screen.content

\* reset_frame and capture_output: a fresh frame object.
CaptureOutput(at) ==
  /\ pc' = at
  /\ fi' = Clear
  /\ copies' = 0
  /\ since' = screen.content

\* The loop's head.
Capture ==
  /\ pc = "top" /\ ~stopFlag
  /\ CaptureOutput("hint")
  /\ live' = live + 1
  /\ UNCHANGED <<bufs, feed, world>>

Stopped ==
  /\ pc = "top" /\ stopFlag
  /\ pc' = "ended"
  /\ UNCHANGED <<fi, bufs, feed, world, feedGhosts>>

\* destroy the frame and return FrameFailed.
FrameFailed ==
  /\ pc' = "ended"
  /\ live' = live - 1
  /\ UNCHANGED <<fi, bufs, feed, world, copies, since>>

HintFailed == pc \in {"hint", "rehint"} /\ fi.failed /\ FrameFailed

TryDma == gpu /\ fi.dma # None /\ fi.dma.fmt \in Linear

\* A DMA-BUF is made once and kept (mutant).
DmaFits_Always == dmaBuf # None

\* ! needs_resize
DmaFits == dmaBuf # None /\ dmaBuf.size = fi.dma.size /\ dmaBuf.fmt = fi.dma.fmt

\* DmaBuf::try_new, which gbm, the descriptor or mmap may fail.
NewDma == {None, [size |-> fi.dma.size, fmt |-> fi.dma.fmt, content |-> None]}

HintForDma ==
  /\ pc = "hint" /\ fi.done /\ ~fi.failed /\ TryDma
  /\ dmaBuf' \in IF DmaFits THEN {dmaBuf} ELSE NewDma
  /\ IF dmaBuf' # None THEN pc' = "dmacopy" /\ copies' = copies + 1
                       ELSE pc' = "shm" /\ UNCHANGED copies
  /\ UNCHANGED <<fi, shmBuf, feed, world, live, since>>

HintForShm ==
  /\ \/ pc = "hint" /\ ~TryDma
     \/ pc = "rehint"
  /\ fi.done /\ ~fi.failed
  /\ pc' = "shm"
  /\ UNCHANGED <<fi, bufs, feed, world, feedGhosts>>

\* No shared-memory hint: at once, without a sleep, the next capture.
NoShm ==
  /\ pc = "shm" /\ fi.shm = None
  /\ pc' = "top"
  /\ live' = live - 1
  /\ UNCHANGED <<fi, bufs, feed, world, copies, since>>

ShmFits == shmBuf # None /\ shmBuf.size = fi.shm

ShmCopy ==
  /\ pc = "shm" /\ fi.shm # None
  /\ shmBuf' = IF ShmFits THEN shmBuf ELSE [size |-> fi.shm, content |-> None]
  /\ pc' = "shmcopy"
  /\ copies' = copies + 1
  /\ UNCHANGED <<fi, dmaBuf, feed, world, live, since>>

\* A consumer that went away is not noticed (mutant).
SendFrame_IgnoresGone(pic) ==
  /\ pc' = "sleep"
  /\ slot' = IF slot = None THEN pic ELSE slot

\* send_frame: a full channel drops the frame, a closed one ends the capture.
SendFrame(pic) ==
  IF gone THEN pc' = "ended" /\ UNCHANGED slot
  ELSE /\ pc' = "sleep"
       /\ slot' = IF slot = None THEN pic ELSE slot

\* The copy is complete: convert what the buffer holds, destroy, send.
Deliver(buf) ==
  /\ fi.ready
  /\ SendFrame([content |-> buf.content, size |-> buf.size])
  /\ live' = live - 1
  /\ UNCHANGED <<fi, bufs, taken, stopFlag, gone, world, copies, since>>

DmaReady == pc = "dmacopy" /\ Deliver(dmaBuf)
ShmReady == pc = "shmcopy" /\ Deliver(shmBuf)

\* The rejected frame object is used again for the copy into shared memory
\* (mutant).
DmaRejected_SameFrame ==
  /\ pc = "dmacopy" /\ fi.failed /\ ~fi.ready
  /\ dmaBuf' = None
  /\ pc' = "shm"
  /\ fi' = [fi EXCEPT !.failed = FALSE]
  /\ UNCHANGED <<shmBuf, feed, world, feedGhosts>>

\* The compositor refused the DMA-BUF: destroy the frame, capture once more.
DmaRejected ==
  /\ pc = "dmacopy" /\ fi.failed /\ ~fi.ready
  /\ dmaBuf' = None
  /\ CaptureOutput("rehint")
  /\ UNCHANGED <<shmBuf, feed, world, live>>   \* one destroyed, one created

ShmFailed == pc = "shmcopy" /\ fi.failed /\ ~fi.ready /\ FrameFailed

\* The next capture waits until the screen was damaged (mutant).
Wake_OnDamage ==
  /\ pc = "sleep" /\ screen.content # since
  /\ pc' = "top"
  /\ UNCHANGED <<fi, bufs, feed, world, feedGhosts>>

\* Still screen or not, the next capture follows.
Wake ==
  /\ pc = "sleep"
  /\ pc' = "top"
  /\ UNCHANGED <<fi, bufs, feed, world, feedGhosts>>

\* blocking_dispatch or flush reports a dead connection; its objects die with it.
ConnectionLost ==
  /\ pc \in AwaitsFrame
  /\ pc' = "ended"
  /\ live' = 0
  /\ UNCHANGED <<fi, bufs, feed, world, copies, since>>

CaptureRun == \/ Capture \/ Stopped \/ HintFailed \/ HintForDma \/ HintForShm \/ NoShm
       \/ ShmCopy \/ DmaReady \/ ShmReady \/ DmaRejected \/ ShmFailed \/ Wake

-----------------------------------------------------------------------------
(* The compositor. *)

Answering(at) == pc \in at /\ ~fi.done /\ ~fi.failed
Copying == pc \in {"dmacopy", "shmcopy"} /\ ~fi.ready /\ ~fi.failed

\* Buffer, LinuxDmabuf and BufferDone, for the output as it is now.
Hints ==
  /\ Answering({"hint", "rehint"})
  /\ fi' \in [shm  : {IF shmOffered THEN screen.size ELSE None},
              dma  : {None} \cup [size : {screen.size}, fmt : Format],
              done : {TRUE}, ready : {fi.ready}, failed : {FALSE}]
  /\ UNCHANGED <<pc, bufs, feed, world, feedGhosts>>

HintsRefused ==
  /\ Answering({"hint", "rehint"})
  /\ fi' = [fi EXCEPT !.failed = TRUE]
  /\ UNCHANGED <<pc, bufs, feed, world, feedGhosts>>

\* `copy' is answered at once, whether or not the screen changed.
CopyReady ==
  /\ Copying
  /\ (IF pc = "dmacopy" THEN dmaBuf ELSE shmBuf).size = screen.size
  /\ fi' = [fi EXCEPT !.ready = TRUE]
  /\ IF pc = "dmacopy"
     THEN dmaBuf' = [dmaBuf EXCEPT !.content = screen.content] /\ UNCHANGED shmBuf
     ELSE shmBuf' = [shmBuf EXCEPT !.content = screen.content] /\ UNCHANGED dmaBuf
  /\ UNCHANGED <<pc, feed, world, feedGhosts>>

CopyRefused ==
  /\ Copying
  /\ fi' = [fi EXCEPT !.failed = TRUE]
  /\ UNCHANGED <<pc, bufs, feed, world, feedGhosts>>

ScreenChanges(size) ==
  /\ screen.content < MaxChanges
  /\ screen' = [content |-> screen.content + 1, size |-> size]
  /\ UNCHANGED <<pc, fi, bufs, feed, gpu, shmOffered, feedGhosts>>

-----------------------------------------------------------------------------
(* The session. *)

Take ==
  /\ ~gone /\ slot # None
  /\ taken' = slot
  /\ slot' = None
  /\ UNCHANGED <<pc, fi, bufs, stopFlag, gone, world, feedGhosts>>

\* The processing loop ended; the frame in the channel goes with it.
ConsumerGone ==
  /\ ~gone /\ gone' = TRUE
  /\ slot' = None
  /\ UNCHANGED <<pc, fi, bufs, taken, stopFlag, world, feedGhosts>>

StopCapture ==
  /\ ~stopFlag /\ stopFlag' = TRUE
  /\ UNCHANGED <<pc, fi, bufs, slot, taken, gone, world, feedGhosts>>

FeedNext ==
  \/ CaptureRun \/ ConnectionLost
  \/ Hints \/ HintsRefused \/ CopyReady \/ CopyRefused
  \/ \E size \in Size : ScreenChanges(size)
  \/ Take \/ ConsumerGone \/ StopCapture

FeedSpec == FeedInit /\ [][FeedNext]_feedVars

\* The thread runs, the compositor answers every request one way or the other,
\* the processing thread keeps taking frames while it lives.
FeedFairSpec ==
  /\ FeedSpec
  /\ WF_feedVars(CaptureRun) /\ WF_feedVars(Take)
  /\ WF_feedVars(Hints \/ HintsRefused) /\ WF_feedVars(CopyReady \/ CopyRefused)

-----------------------------------------------------------------------------
\* The wlr-screencopy protocol: a frame object is sent at most one copy, also
\* across the DMA-BUF fallback in the middle of a frame, and is destroyed on
\* every way round the loop and out of it.
FrameProtocol ==
  /\ copies <= 1
  /\ live = IF pc \in {"shm"} \cup AwaitsFrame THEN 1 ELSE 0

\* A buffer kept from earlier frames fits what the compositor hinted for this
\* one, after a resize, a change of format and a fallback too: a copy into
\* another buffer is a protocol error.  (ShmCapBuf does not compare formats.)
BufferFitsHints ==
  /\ pc = "shmcopy" => shmBuf.size = fi.shm
  /\ pc = "dmacopy" => dmaBuf.size = fi.dma.size /\ dmaBuf.fmt = fi.dma.fmt

\* What reaches the session was on the screen after that capture was asked for:
\* through refusals, the fallback and buffers kept from frame to frame, neither
\* the `ready' an earlier frame left in frame_info nor what a kept buffer held
\* before passes for a copy.
FreshlyCopied ==
  [][slot' \notin {slot, None} => slot'.content \in since .. screen.content]_feedVars

\* A frame dropped at the full channel is made up for: what a still screen shows
\* reaches the processing thread, unless the capture ends first or the
\* compositor only offers buffers that cannot be made.
StillScreenIsSeen ==
  \A p \in Picture : (screen = p) ~> \/ taken = p \/ screen # p
                                     \/ pc = "ended" \/ gone \/ ~shmOffered

\* A stop request ends the thread, and so does the end of the session - as soon
\* as there is a frame to send, so not while no buffer can be made.
CaptureEnds == (stopFlag \/ (gone /\ shmOffered)) ~> pc = "ended"

=============================================================================
