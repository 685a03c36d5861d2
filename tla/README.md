# Ring-2Zero: TLA+ models and proofs

Ring-2Zero streams a Wayland screen to a browser over a WebRTC DataChannel and
can inject the browser's keyboard and mouse into the compositor.  This
directory models the program's concurrent and stateful parts in TLA+, checks
them with TLC and proves the properties that matter most with TLAPS.

Paths are those of the repository; `src/...` is the Rust crate, `src_c/...` its
C part, `client.html` is `docs/client-examples/client.html`.

## Inventory

| Part | State | Operations | Hard behaviour | What makes it correct |
|---|---|---|---|---|
| Change detector (`diff.rs`) | two hashes, half hash, last send and force flag per grid cell; frame counter | `detect_changes`, `invalidate_tiles`, `invalidate_cache`, `reset` | damage skip, half-hash shortcut and throttle all may suppress a send; resets must move four fields together | no change is suppressed for good; forced cells are really sent |
| Pipeline (`pipeline.rs`) | screen size, epoch, refresh timer, encode cache | `process`, `invalidate` | resize while losses travel back; cached bytes and their quality | current bytes for every tile; blur is temporary; an epoch names one grid |
| Encoding pool (`encoding_pool.rs`) | two bounded channels, worker threads | submit, collect | all submits precede the first collect; 5 s timeout | a frame gets through, with its own bytes |
| Stream session (`stream.rs`, `transport.rs`) | encoded-frame channel (4), lost-cell channel, in-flight batches | processing loop, send loop | lost, late, repeated ACKs; two threads ending each other | no lost cell is forgotten; both halves end |
| Bandwidth controller (`bandwidth.rs`) | scale, clear streak | `sample` | oscillation around a watermark | recovery only after sustained clear samples |
| Geometry and merging (`tile.rs`, `encoder.rs`) | none (pure) | grid, spans, runs, chunks | boundaries and remainders | every changed cell is covered exactly once |
| Wire protocol (`protocol.rs`, client) | none (pure) | pack, parse | limits, markers | messages fit; the page reads what was sent |
| Browser client (`client.html`) | canvas, pending bitmaps, current batch entry, input capture | `onmessage`, decode completion, ACK, DOM events | unordered reliable channel, asynchronous decodes, reconnects | an ACK means the batch was decoded; what is decoded is drawn |
| Remote control (`input.rs`, `client.html`) | held keys, buttons, locks on both sides; event queue | inject, release_all, attach, detach; key, mouse and touch handlers | disconnect mid-keypress, overlapping modifiers, lost focus, long presses | nothing stays pressed; modifiers match the keys |
| Clipboard (`clipboard.rs`, client) | last-seen text on each side | poll, receive, write | crossing and failing updates | no echo; silence means agreement |
| Server (`server.rs`, `signaling.rs`, `auth.rs`) | session number, socket, peer connection, worker threads | authenticate, negotiate, stream, tear down | stale answers, client gone at any step, bounded joins | attempts are kept apart; no worker is left untold; a stream comes in the end |
| Capture, wlr (`capture/wlr.rs`) | frame info, two buffers, one-slot channel | capture, copy, fallback, `try_send` | a refused DMA-BUF, resizes, a busy or gone consumer | the protocol is kept; a still screen is seen |
| Capture, portal (`capture/pipewire.rs`, `src_c/pw_capture.c`) | portal session, shared D-Bus connection | portal requests, stream, close | late or foreign answers, stop at any time | every session is closed once; no answer is missed |

Interactions: a capture thread hands frames to the processing thread through a
channel of one slot; the processing thread (Pipeline) hands encoded frames to
the asynchronous send loop through a channel of four; the send loop returns the
cells of unacknowledged batches through an unbounded channel; the processing
thread feeds the encoding pool through two bounded channels; DataChannel
callbacks feed the send loop (ACKs), the injector thread (input events) and the
clipboard task; the server task starts all of them for one client and ends them.

## Modules

| Module | Models | Kind |
|---|---|---|
| `DiffCell` | what `detect_changes` and `force_redetect_tile` do to one cell | pure operators |
| `DiffDetector` | the detector as an object, methods called in any order | state machine over all cells |
| `TileDelivery` | what a session promises of each cell | abstract specification |
| `StreamSession` | processing thread + send loop + ACK tracker, with the detector's cells | composition (uses `DiffCell`, refines `TileDelivery`) |
| `EncodingPool` | `Pipeline::process` submitting to and collecting from the workers | state machine |
| `TileMerging` | the grid, spans, covered cells and `TileMerger` | pure operators |
| `TileWire` | a frame's cells through merging, packing and the page's parser | state machine (uses `TileMerging`) |
| `Pipeline` | `process` with merging, encode cache, quality, refresh; bandwidth controller | composition (uses `DiffCell`, `TileMerging`) |
| `ClientCanvas` | the browser's screen channel: markers, decodes, ACKs, canvas, with `transport.rs` sending | state machine |
| `InputSession` | DataChannel handler, queue, injector thread, `HeldState`, the compositor's view | state machine |
| `RemoteControl` | the person, the page's input capture, the channel and `InputSession` | composition (refines `InputSession`) |
| `ServerSession` | the page's `connect()` and the server task of every socket | composition of two sides |
| `CaptureFeed` | the wlr-screencopy thread, the compositor, the consumer | state machine |
| `PortalSession` | several capture threads on one D-Bus connection, the portal | state machine |
| `Clipboard` | both polling peers over the channel | state machine |
| `MC*` | small instances of the above | TLC |
| `Tiles_proofs` | what the operators of `DiffCell` and `TileMerging` do, for every cell and grid | TLAPS (lemmas) |
| `DiffDetector_proofs`, `StreamSession_proofs`, `InputSession_proofs`, `ServerSession_proofs` | theorems of the module (the third also of `RemoteControl`) | TLAPS |
| `Encoding_proofs` | theorems of `EncodingPool`, `Pipeline` and `TileWire` | TLAPS |
| `Capture_proofs` | theorems of `PortalSession` and `CaptureFeed` | TLAPS |
| `Browser_proofs` | theorems of `Clipboard` and `ClientCanvas` | TLAPS |

An operator whose comment ends in "(mutant)" is a plausible bug in the definition
below it.  It is used by no specification; exchanging it for that definition
makes TLC report the property it belongs to, which shows that the property
depends on the code.

### DiffCell and DiffDetector

`det[c]` is the record of everything the detector keeps about cell `c`
(`prev_hashes[c]`, `prev_prev_hashes[c]`, `prev_half_hash`, `last_sent_frame`,
`last_sent_as_dynamic`, `force_redetect[c]`, the newest `change_history` entry);
`det` empty is `prev_hashes.is_empty()`.  A hash is what it hashes, so
collisions are not modelled; a cell's pixels are its even rows (all the half
hash sees) and its odd rows.  `frame_count` and the age of the last send are
compared only with the two intervals and saturate there.  `DetectChanges` is
the whole of `detect_changes`: hashing, the three suppressions, the three
bookkeeping passes and the clearing of `force_redetect`.  Its environment
assumption is the Wayland one, that damage covers every difference to the
previous frame.

A consequence visible in the model: the half hash is blind to odd rows, so a
cell that changes only there is not seen; the convergence and baseline
properties therefore speak of the even rows.

`docs/DEVELOPMENT.md` calls a tile dynamic if its hash changed on both of the last
two frames.  The code compares the cell's last two distinct hashes, which always
differ (a conjunct of `Consistent` in `Tiles_proofs`), so any change of a cell
sent before is dynamic, even an isolated one.  `IsDynamic` follows the code; the
effect is confined to the quality of the first send.

### StreamSession and TileDelivery

`pc` is the processing thread's place in `processing_loop`; `out` the encoded
frame it hands over; `encoded`, `lost` the two channels; `inFlight` the
tracker's table.  A pass of the send loop is `Tick` or `SendFrame` and always
starts with draining ACKs and expiring batches, as the code does.  `open` is the
life of the receiver; `SendFails`, `StreamEnds` and `Cancelled` (the server
drops the session's future when the client closes its WebSocket) end the session
from one side, `CaptureDisconnected` from the other.  The client is the
environment: any batch ever sent may be acknowledged at any time, repeatedly or
never.  `newest`, `produced` and `acked` are ghosts.  Tiles are sets of cells;
merging may bridge unchanged cells, so a batch covers any superset of the changed
cells.  Time is one step, `BecomesOverdue`, per batch.  Encoding takes no time
here; it is `EncodingPool`'s subject.

`TileDelivery` forgets threads, queues, epochs and sequence numbers.  For every
cell of the current grid it knows one place: the cell's newest content is
travelling, awaiting its ACK, acknowledged, reported lost, armed for re-sending,
or swallowed by the throttle.  The refinement mapping computes the place from the
session's state (`PlaceOf`: `acked`, then the queues, then `inFlight`, then the
detector's hash, then `lost`); a session that ended maps to no cells.
`DeliversEveryCell` is the abstract specification under this mapping.

### EncodingPool

The processing thread's three phases (submit, collect, finish), the workers'
three (take, encode, deliver) and the two channels of `2 * num_workers`.  Cached
tiles start with bytes.  `age` says whether bytes were made from the frame being
processed.  `SlowWorkers` allows the 5 s timeout of `collect_results`; the ghost
`skew` counts the results such timeouts gave up on, which stay in the pool for
the frames after.

### TileMerging and TileWire

`TileMerging` is arithmetic on cells `<<column, row>>` and pixel rectangles:
`NewGrid` (widths rounded down, rows rounded up), `XEnd` and `YEnd` with the
remainders of the last column and row, `Covered` (which cells a rectangle's
pixels belong to), `ColumnRuns` row by row as in `column_runs`, and `Merge`.
`column_runs` looks at the gap before it looks at the current row, so the row
being looked at counts: a gap of 0 tolerates one still row and a gap of `MergeGap`
tolerates `MergeGap + 1`.  `MergeIsExact` states the rule the code follows.

`TileWire` takes a frame through `Detect`, `MergeTiles`, `Send` (any order, as
priority only orders; any lengths) and `Receive`.  `PackTile` is the loop body of
`pack_tiles`, `PackedUpTo` its state after each tile;
`Parse` is the page's handler, which tells messages apart by their first `u16`.
For a tile packet this is the low half of a length, so a first tile of 65535 or
65534 bytes modulo 65536 is read as a header or a marker.  `PageReadsBatch` names
this exception; every other batch is read in full.

### Pipeline

`Sent` is `process` after the choice of the baseline: `detect_changes` through
`DiffCell`, `Merge` through `TileMerging`, `Hit` (the encode cache, which only a
tile of one cell uses, validated by the cell's hash), the quality, and the
update of the cache.  `ProcessResized` and `ProcessFrame` differ in the baseline;
a refresh that is due drops every cached encode and re-arms the cells last sent
as dynamic.  `Sample` is the bandwidth controller, whose `scale` is the quality
factor the next frames see.

An image is its pixels and the reason why its quality is below the full one.
`shown` is what the page shows of a cell when every batch has arrived, and `own`
whether that image was made for the cell as a dynamic one.  `RefreshedCells`
looks only at `last_sent_as_dynamic`.  A cell that is blurred because its
neighbour in the merged tile was dynamic, or because the link was congested, is
not dynamic, so it is not re-sent when it stays still; the comment at
`pipeline.rs:36` promises a high-quality re-send within about a second.
`BlurIsRearmed` and `StillGetsSharp` hold with exactly this exception.

Left to other modules: damage (`DiffDetector`), failing and late encodes
(`EncodingPool`), epochs and lost batches in flight (`StreamSession`).

### ClientCanvas

`wire` is the unordered channel: a set of messages from which any one is
delivered next.  `entry` is `ackPending`; `remaining` holds the count of every
entry object a marker created, `attributed` the `ackEntry` each tile's decode
captured, so a decode can count on an entry that is no longer current.  `session`
numbers the channels; a reconnect resets neither entries nor running decodes, as
in the code.  `pending`, `rafId` and `modeDue` are the bitmaps waiting to be drawn
and the two animation-frame callbacks.  A canvas cell shows the number of the
batch drawn there last.  Cells are screen positions and every resolution uses the
same ones, so a tile of an older resolution lands on one cell of the newer.
`applyMode` is modelled on a visible viewport.

`initFrame` replaces the canvas with a blank one.  Tiles of earlier batches are no
loss: a header's batch covers the whole screen.  But a tile may arrive before the
header of its own batch, or of one before it; if the page still has the canvas of
an earlier session or resolution, the tile is drawn there, acknowledged, and wiped
when the header comes.  `framed` is the batch of the last header, `overtook` the
tiles drawn while such a header was on its way; `DecodedIsNotLost` says that
nothing else is ever wiped or dropped.

`StreamSession` sees this module's
client as an environment that may acknowledge any batch at any time, which
includes every ACK sent here.

### InputSession and RemoteControl

`thread` is `run_injector`'s place; `keys`, `buttons`, `locked` are `HeldState`;
`host*` is what the compositor was told.  A failed flush breaks the connection;
nothing is claimed of the host afterwards, as the compositor then drops the
virtual devices itself.  Detaching drops the only sender of the queue; events
already queued are still injected before the thread ends.  The 2 s bound on the
join in `detach` is not modelled.

`RemoteControl` puts the page in front of it: what the person really holds down
(`downKeys`, `downButtons`, fingers `on` the canvas and `off` it), what the page
believes (`heldKeys`, `heldButtons`), the long press of a touch (`timer`,
`pending`, `fired`; `orphan` is a timer whose handle a second touch overwrote),
and the ordered channel `wire`.  The same composition admits a client that is not
the page and sends anything, which is what `InputSession`'s properties are about;
`ServerIsInputSession` says that either way the server's variables behave as
`InputSession` does.  `HostHoldsWhatIsHeld` is about the page: once everything it
sent was injected, the host holds nothing the person does not hold.  One
exception is recorded in the history variable `aside`: `onTouchEnd`
(`client.html:1030`) waits for the last finger on the page, so a finger lifted
from the canvas while another rests beside it leaves the long press armed or the
right button down until the next touch, blur or disable.

### ServerSession

The page side is the globals of `connect()` (`page`) and the asynchronous offer
handlers under way (`handlers`), which after each await go on with whatever the
globals hold by then.  The server side is one task per socket, `srv[k].at` its
place from `upgrade` to `closed`.  `link`, `up` and `down` are the sockets and
their two FIFO directions.  The server looks at the first bytes of a connection
once (`server.rs:43`, `:89`): a request head whose Upgrade header comes later is
answered with the HTML page, which for the browser is a failed WebSocket
(`UpgradeFails`).  An attempt is a socket and the session number its offer is
tagged with.  `threads` are the capture, injector and clipboard workers, with the
attempt they serve and whether they were told to stop; `Join` does not wait for
them, which is how a worker that misses its bounded join overlaps with the next
stream.  `forwarders` are the tasks that send the server's candidates, one per
attempt; each holds the sending half of the socket until its peer connection is
closed, so the socket is closed only after the last of them (`Hangup`).

Session numbers start at 1 on every socket, so a handler that began on a lost
socket can answer the next one under a matching tag.  `AppliedIsOwnOrOlder` says
that this is the only confusion there is, and that no stream comes of it;
`EventuallyStreams` says that the server's timeout and the next offer repair it.
The page does not look at the tag of a candidate (`client.html:742`); the last
conjunct of `AppliedIsOwnOrOlder` says what order alone guarantees: its connection
is given no candidate of another socket and none before that candidate's offer.

### CaptureFeed

`pc` is the place in `run()`; `fi` is `WlrState.frame_info`, one record for all
frame objects, which the compositor's events fill in and `reset_frame` clears.
`shmBuf` and `dmaBuf` are the buffers kept from frame to frame; `slot` is the
channel of one frame.  A refused DMA-BUF destroys the frame object and captures
again for shared memory (`rehint`).  `live`, `copies` and `since` are ghosts.  The
code asks for `copy` rather than `copy_with_damage`, which the compositor answers
whether or not the screen changed, so a dropped frame is made up for by the next
one and its damage list is always empty.

`ShmCapBuf` compares only the size (`wlr.rs:385`); a compositor that changes the
shared-memory format between frames of one size is not modelled.

### PortalSession

`at` and `step` are a thread's place in `pw_capture_start` and the portal call it
is in; `queue` and `matches` belong to the one connection `dbus_bus_get` returns
to every thread of the process.  `wait_for_response` pops whatever is there and
drops what is not its own: `stolen` records whose answer that was, and
`NoAnswerMissed` says it is the only way an answer gets lost.

The comment at `close_portal_session` promises one Close for every session
created.  A call that gives up waiting for `CreateSession` knows no session path
and closes none, although the portal may have created it: `NoSessionLingers` is
the comment's claim, which does not hold; `ClosedExactlyOnce` is what does.

The stream has a main loop (`loop`) and a thread that polls the stop flag and quits
the loop (`watcher`).  Creating the watcher, its `pw_main_loop_quit`, the start of
`pw_main_loop_run` and the join are steps of their own.  If the flag is set by the
time the watcher starts, its quit can come before the loop is marked running
(`"early"`); PipeWire may then overwrite it (`"lost"`), and the watcher is gone.
`on_process` looks at the flag too, so the next frame ends the stream; on a still
screen there is none.  `StopIsHonoured` says both: a stop ends the call unless the
quit was lost, and always if frames come.  That `pthread_create` fails, whose
result the code does not look at, is not modelled.

### Clipboard

A text is the number of the copy it came from.  The host's task handles a tick or
a message at a time; the page's poll and its message handler interleave at their
awaits (`poll`, `writes`).  `clipboardLastSeen` outlives sessions, `last_seen` does
not.  Two pushes that cross swap the texts for good, and a write that fails for
want of focus is not repeated: `crossed` and `failed` record these, and
`QuietMeansSame` excepts them.

## Runs

| Run | Shows | Bounds |
|---|---|---|
| `DiffDetector` | armed cells are forced and sent, throttled ones refreshed; a still screen ends up sent, except for swallowed re-sends | 2 cells in 2 grids, 2 even and 1 odd contents, intervals 3 (the default) and 2: long enough for throttling |
| `StreamSession` | no cell forgotten, epochs name grids, the refinement of `TileDelivery`; lost cells are sent again unless swallowed, the halves end together | 2 cells, 2 resolutions, queue of 1 (a full queue is reached), 3 frames: one lost, one overtaking, one re-send; intervals 3 and 1, the defaults, with which the first re-sends can be swallowed; one content |
| `EncodingPool` | conservation, fresh bytes until a timeout, `process` returns | 1 worker with timeouts, 3 tiles, frames that together with the remainder hold at most 5 items, the exact capacity; unboundedly many frames |
| `PoolDeadlock` | (violated) one tile more never returns | 1 worker, 6 tiles, no timeouts |
| `ClientCanvas` | unmixed ACKs are honest, no decoded tile is lost but to a header it overtook; batches that come in order are acknowledged, decoded tiles get drawn | 2 cells, 2 batches, 2 channels, 1 failed decode, a batch overtakes at most 1 message: tiles arrive under another marker decodes outlive their channel, and tiles overtake the header of the second |
| `InputSession` | host matches `HeldState`, nothing stuck, nothing held that the person does not hold; detach ends the thread | both shifts, caps lock, a letter, an invalid code, 2 buttons, 2 fingers, queue of 1, a handler sends once the channel is empty |
| `ServerSession` | attempts are kept apart, no untold worker; a stream comes, a gone client is noticed | 1 fault anywhere, hence up to 3 sockets: a reconnect during an answer, a renegotiation, every timeout |
| `PortalSession` | sessions closed once, no answer missed; stop ends the call, with a frame's help if the quit was lost | 2 threads, 2 calls: both at once, or a retry that meets the first call's leftovers |
| `CaptureFeed` | frame protocol, fresh copies; a still screen is seen, the capture ends | 2 sizes, a linear and a tiled format, 2 screen changes: a resize during a capture and another after |
| `Clipboard` | silence means agreement; the exchange falls silent | 3 copies, 2 sessions |
| `TileWire` | merging, packing and parsing are exact | 4 frame shapes (a wider last column, a lower last row, fewer pixels than columns), every set of changed cells; merges of 2 by 2, gap 1; packets of 8000 bytes and lengths on either side of the limit and of a marker; frames of at most 3 tiles are packed |
| `Pipeline` | current bytes, blur re-armed; a still screen gets sharp, a flaky link trends down | 2 columns of 3 rows with 2 moving cells, or 1 cell; merges of 3, gap 0; intervals 2 and 1, so the throttle holds still cells back (with the default 3 the run passes too, in 731,000 states and 4 minutes); 2 scales, recovery after 2 samples |

Bounds by name: `MaxFrames` (frames the pipeline produces), `QueueCap` (the code
has 4), `MaxHeld` (a frame's encodes plus what the pool still holds from earlier
ones), `MaxQueue` (waiting input events), `MaxBehind` (events on the channel when
a handler sends), `MaxBatches`, `MaxChannels`, `MaxFailed`, `MaxLag` (batches
sent to a client, channels opened, failed decodes, messages a new batch can
overtake), `MaxFaults` (things that go wrong between page and server; `Conn`
follows from it), `MaxCalls` (portal calls), `MaxChanges` (changes of the
screen), `MaxCopies` and `MaxSessions`
(texts copied, clipboard sessions), `MaxPacked` (tiles of a frame that is
packed), `Moving` (cells whose pixels vary).  The safety invariants
of every passing run are also proved for all values of these bounds, so there the
bounds matter only for liveness.

`CHECK_DEADLOCK FALSE` is used where the system really stops (a session, an
input session, a client whose server has nothing left to send, a capture thread,
a frame that was shown) or where the deadlock is what the run shows
(`PoolDeadlock`, whose property is the liveness one).

### What does not hold

Checked as a violated run:

* `PoolDeadlock`: a pool of W workers holds 5 W tiles before anything is
  collected.  With the default 20-column grid a fully changed frame merges into
  25 tiles, a four-worker pool takes 20.  Closing the channel does not end the
  thread then, as `stream.rs:119` expects, for it never reaches its next iteration.

Stated in the modules as what a comment or the documentation says, with the
property that holds checked in its place:

* `ForcedResendHappens` (`StreamSession`): `last_sent_frame = 0` means an age of
  `frame_count`; in the first `static interval` frames after a start or resize a
  lost cell can be found, throttled and its baseline advanced without being sent.
  `NoCellForgotten`, `HeldCellIsRefreshed`, `StillScreenIsShown` and
  `LostCellIsResent` hold up to exactly this case, which is named `Swallowed`.
  What `LostCellIsResent` excepts takes the default interval: the first batch is
  lost and its cell armed, the second frame finds it with an age of 2 < 3 and moves
  its baseline on, and as it was not sent as dynamic no refresh re-arms it.
* `BytesAreFresh` (`EncodingPool`): after a timeout the pool's leftovers are
  matched by tile index.  `UnskewedIsFresh`: before the first timeout no frame is
  wrong.
* `AckMeansDecoded` (`ClientCanvas`): a tile counts for the marker that came
  last.  `UnmixedAckIsHonest` holds up to exactly this: an entry that counted
  another batch's tile, or that is acknowledged on a later channel.
* `AcknowledgedIsShown` (`ClientCanvas`): no message needs to be overtaken, two
  decodes are.  The older tile is drawn over the newer one and both batches are
  acknowledged, so neither the ACK timeout nor the server's diff will send the
  cell again until it changes.  The same comes of a tile that overtook its header
  onto an older canvas, the exception of `DecodedIsNotLost`.
* `WatcherEndsStream` (`PortalSession`): `pw_capture.c:273` says that the watcher
  quits the main loop when the stop flag is set.  A quit before the loop runs can
  be lost; `StopIsHonoured` holds up to exactly this.
* `NoSessionLingers` (`PortalSession`), and the exceptions of
  `HostHoldsWhatIsHeld`, `PageReadsBatch`, `StillGetsSharp` and
  `AppliedIsOwnOrOlder` described above.

## Fairness

* `DiffDetector`, `Pipeline`: frames keep arriving and the 1 s refresh keeps
  firing.  This is the wlr-screencopy backend, which captures at `target_fps`
  whether or not the screen changes.  The PipeWire backend delivers frames only
  on activity, and the properties are not claimed for it.  `Pipeline` also lets
  the send loop sample on, as it does on every turn.
* `StreamSession`: both threads are scheduled and the 50 ms ticker fires (weak
  fairness); time passes; a receive that can return a frame does not time out
  for ever (strong fairness of the frame, for the same backend).
* `ClientCanvas`: an open channel delivers (SCTP retransmits), a decode resolves
  or rejects, animation frames fire (the page is visible).
* `EncodingPool`, `InputSession`: the operating system schedules each thread.
  An encode terminates.  A client that never stops sending is not excluded, but
  after `Detach` no event can be added.
* `ServerSession`: the page's events are delivered and its awaits resolve
  (gathering ends after 3 s), every server task is polled and its timers fire.
  Nothing makes faults happen or stop happening but their number.
* `CaptureFeed`: the thread runs, the compositor answers every request one way
  or the other, the consumer takes frames while it lives.
* `PortalSession`: a thread that can go on does, every wait has a deadline (10 s
  for a reply, up to 2 min for a Response), the watcher polls the stop flag, the loop
  starts.  The portal need not answer at all, and frames need not come: where
  `StopIsHonoured` needs one, it says so itself.
* `Clipboard`: both sides poll and the channel delivers; the page's poll needs
  the focus, which comes and goes (strong fairness).
* `TileWire` has safety properties only.

## Proofs

Every safety invariant of every passing run is proved, for all values of the
constants, and so are the action properties and the two refinements that the
list in `PROJECT.json` names.  The assumptions are the named ones in the modules
(`IntervalAssumption` and its like): intervals and bounds are naturals, the hash
value 0 is no content's, grids and sets of workers and tiles are finite and not
empty, `None` is no size.  `MaxMergeAssumption` (`Pipeline`) says that a merged
tile may have more than one cell, as `MAX_MERGE_TILES_X` and `_Y` (4) allow.
Then a tile of one cell is a changed cell, whose hash the detector has just
taken.  With a limit of one, a still cell bridged by the gap rule would be a tile
of its own, and the cache would be asked with the hash of an earlier frame.

`Tiles_proofs` proves first what one frame and one forced reset do to one cell.
The key notion is `Consistent`: the half and full hash are zeroed together and
agree; a zeroed baseline is armed and unsent; the two remembered hashes differ.
The last conjunct is what makes `HeldCellIsRefreshed` inductive: a throttled
cell that was ever sent is always classified dynamic, and the code throttles it
only if it was last sent as dynamic, which is what the refresh looks for.
Its second half is about merging, on any grid `NewGrid` can make (`Fits`).
`RowsLooked`, the row-by-row function that gives a column's runs, is described by
an invariant over the rows looked at so far: the runs are ordered and apart, cover
the changed rows, and span still rows only where the gap rule allows.  A merged
tile is then a piece of a rectangle of columns with equal runs (`Piece`); the
cells read back from its pixels are that rectangle (`CoveredIsBlock`, which needs
the division by the tile size and the remainders of the last column and row).
`ChangedIsCovered`, `TilesAreDisjoint` and `TileIsSmall` follow.

`DiffDetector_proofs` lifts the first half to the detector: types, `Consistent` for every
cell, `BaselineFollowsFrame` and `HeldCellIsRefreshed` are inductive together; the
run's invariants and the action property `ArmedCellIsSent` follow, as do
`HashesInLockstep` and `BaselineFollowsFrame`.

`StreamSession_proofs`: neither safety property is inductive alone.
`NoCellForgotten` needs `CellsConsistent`: an armed cell is unsent, so the frame
that passes it by without sending it can only have swallowed it.
`EpochNamesGrid` needs `TagsNameGrid`, which follows the tag from the frame
through the queue and the batch to the loss report, and adds that no tag is newer
than the pipeline's epoch and that a batch's cells lie in its grid;
`NothingBeforeFrame` covers the first frame, which sets the size without a new
epoch.  There is one lemma per step that changes the state; the passes of the
send loop share `DrainAcksKeeps`.

The refinement (`SessionDelivers`) needs more: `DInv` adds that frames travel in
the order of their numbers (`NumbersInOrder`) and that what bears the number of a
cell's newest content carries that cell (`NewestIsCarried`), so a step of a thread moves a cell
along one edge of `TileDelivery`.  Queueing a batch is a stutter, a tick and
a sent batch are send passes, a frame with a new header is a resize.

`InputSession_proofs`: `HostMatchesHeld` needs two helpers: nothing is held before
the injector runs, and no key is recorded without a keyboard.
`RemoteControlIsInputSession` shows that the page and the channel only ever offer
events of the alphabet, so every step of the composition is a step of
`InputSession` or a stutter; the theorems proved there hold for it.

`HostHoldsWhatIsHeld` speaks only of moments when nothing is under way.  `HeldInv`
is what it takes at all others: of every key or button the page does not hold,
each press under way to the host is followed by a release, and one follows too if
the host has it down (`FlightReleases`, over the injector's queue and the channel
end to end); and what the page holds the person holds (`PersonHolds`).

`Encoding_proofs`, the pool: it counts.  Each step of a thread moves one item
between the three places of the pool, so `NothingLostInPool` is a sum of two
lengths and a cardinality; `MapOps` and the lemmas on sequences give the lengths,
`FiniteSetTheorems` the workers.  The remainder of a timed-out batch is bounded
because the results' channel was empty when it timed out.  `UnskewedIsFresh`
follows from the count: with no skew an idle thread means an empty pool, so
nothing in it is older than the frame.

The pipeline: `BytesAreCurrent` and `BlurIsRearmed` are inductive with three
helpers.  `DetConsistent` is `Consistent` of every cell; `CachedIsSent` says that a
cell with cached bytes was sent since it was last armed, so a cache hit is never
a first send; `PipeTypeOK` keeps every function on the current screen's cells.
That a tile exists for every changed cell, and only one, is `Tiles_proofs`'.  A
single-cell hit is right because its cell's hash has just been compared; a
merged tile is made of fresh pixels only.

The wire: `MergeIsExact` follows from `Tiles_proofs`.  `PackedUpTo` and `BytesUpTo`
are recursive functions; their equations come from the library's fact that a
relation on the naturals without descending chains has minimal elements, and an
invariant over the number of tiles packed so far gives `PacketsAreFull` and that
the packets end to end are the batch (`PackTilesAre`).  `PageReadsBatch` adds that
the page's loop takes one tile after the other.

`Capture_proofs`, wlr-screencopy: `FrameOwn` says what each place of the loop knows of its own
frame: until a copy is asked for nothing is ready, from then on the buffer is one
that fits, and once it is ready its content is no older than the frame.
`FrameProtocol`, `BufferFitsHints` and the action property `FreshlyCopied` follow.

The portal: `ClosedExactlyOnce` and `NoAnswerMissed` need that calls are
one thread's each (`CallsApart`) and that what was abandoned or is being closed is
over and stays over (`EndedIsOver`); that a good answer tells the truth
(`QueueIsTrue`) gives `CapturesByGrant`.

`Browser_proofs`, the clipboards: `QuietMeansSame` speaks of silent states only.  `LastWord` is
its strengthening to all others: while pushes have not met, everything under way
flows one way, and the text sent last is the sender's last-seen text wherever it
is on its way.  `NeverEchoed` needs only that a text received and still held has
been seen.

The canvas: an honest ACK is a matter of counting.  `Counts` says that what remains
of a batch entry is its batch's size less the decoded tiles counted on it; `Once`
that a marker or tile is under way at most once, and not after it took effect;
`OfItsBatch` that what is under way is of a batch that was sent.  When the count
is 0 and every tile counted is the batch's own, those tiles are all of it.
`DecodedIsNotLost` needs `Headed`: a header's
batch covers the screen, and for what was drawn, unless it overtook one, no header
of its batch or of an earlier one is still to come.  So a header that comes is of a
later batch, which sends every place again.

`ServerSession_proofs`: `NamesItsAttempt` says of everything under way to the server
that its tag and its attempt agree, or that it was made for an earlier socket.
In the other direction `OfferOrder` says that the offers on the page's socket are
the next ones after the page's current one, none skipped, and each before its
candidates; so a candidate the page reads is of an offer it has taken.
`Unopened`, `Unaccepted` and `PageAttempt` say of sockets to come that nothing is
theirs.  `NoOrphanWorker` is inductive with these.

Type correctness is proved, not run.

Model-checked only: everything about liveness (`StillScreenIsShown`,
`LostCellIsResent`, `HalvesEndTogether`, `ProcessReturns`, `CompleteIsAcked`,
`DecodedIsDrawn`, `DetachEnds`, `EventuallyStreams`, `ClientGoneIsNoticed`,
`StopIsHonoured`, `StillScreenIsSeen`, `CaptureEnds`, `FallsSilent`,
`StillGetsSharp`, `FlakyLinkTrendsDown`), as fairness and `ENABLED` are out of the
prover's reach.  So are theorems that take an operator as a parameter, and with
them the library's induction; what is proved here of the two recursive functions
goes through minimal elements instead.

## Not modelled

* Pixel conversion, SIMD hashing and extraction, buffer pooling and WebP itself:
  data movement without control, behind a cell's pixels and an image's length.
* Start-up (`config.rs`, `ice.rs`, `main.rs` up to its accept loop): parsing and a CPU microbenchmark,
  sequential and without state that lives on; the intervals and the grid it
  yields are constants here.  Benchmarks under `src/bin` and packaging.
* WebRTC, SCTP, the portal, the browser and the Wayland compositor, which appear
  only as the environment's nondeterminism; format negotiation and frame copying
  inside the PipeWire stream, and the ownership of its file descriptor
  (`pw_capture.c:650`).
* In the page: view modes, zoom, statistics, localisation; an exception thrown by
  `drawImage` inside `renderFrame` (`client.html:290`), which depends on the
  browser.
* The truncation of clipboard texts at 1 MiB (`clipboard.rs:49`, `:127`), as texts
  are atoms.

What would come next: the tile that is painted over by an older one (`AcknowledgedIsShown`)
has no remedy in the code to model; a PipeWire stream's frames, which come only on
activity, deserve a feed of their own beside `CaptureFeed`; and the liveness
arguments could be stated as ranking functions whose steps are proved, leaving
only the fairness to TLC.
