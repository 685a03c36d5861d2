------------------------------ MODULE TileWire ------------------------------
(***************************************************************************)
(* One frame on its way to the page: the changed cells are merged into     *)
(* tiles (TileMerging), encoded, packed into DataChannel messages          *)
(* (protocol.rs, transport.rs) and taken apart again by the page's message *)
(* handler (client.html).                                                  *)
(*                                                                         *)
(* Of a WebP image only its length matters here.  The order of the tiles   *)
(* is the priority order: any.                                             *)
(***************************************************************************)
EXTENDS TileMerging, SequencesExt

CONSTANTS Frames,         \* <<columns, width, height>> of the frames considered
          WebpLen,        \* lengths an encoded tile can have
          MaxPacketSize,  \* MAX_PACKET_SIZE
          MaxPacked       \* bound: frames of at most so many tiles are packed

ASSUME WireAssumption ==
  /\ MaxPacketSize \in Nat /\ WebpLen \subseteq Nat
  /\ \A f \in Frames : f[1] \in Nat /\ f[2] \in Nat /\ f[3] \in Nat

MarkerHeader == 65535
MarkerSeq    == 65534

VARIABLES
  stage,      \* "framed", "changed", "merged", "packed", "shown"
  grid,
  changed,    \* the changed cells
  tiles,      \* the merged tiles
  ordered,    \* ... in sending order, each with the length of its image
  packets,    \* the tile packets
  received    \* what the page makes of them: a sequence of tiles

wireVars == <<stage, grid, changed, tiles, ordered, packets, received>>

WireInit ==
  /\ stage = "framed"
  /\ grid \in {NewGrid(f[1], f[2], f[3]) : f \in Frames}
  /\ changed = {} /\ tiles = {} /\ ordered = <<>> /\ packets = <<>> /\ received = <<>>

\* The detector's result: any cells.
Detect ==
  /\ stage = "framed"
  /\ stage' = "changed"
  /\ changed' \in (SUBSET CellsOf(grid)) \ {{}}
  /\ UNCHANGED <<grid, tiles, ordered, packets, received>>

MergeTiles ==
  /\ stage = "changed"
  /\ stage' = "merged"
  /\ tiles' = Merge(changed, grid)
  /\ UNCHANGED <<grid, changed, ordered, packets, received>>

-----------------------------------------------------------------------------
(* protocol.rs *)

TileLen(t) == 8 + t.len

\* The length of the buffer after each number of tiles.
BytesUpTo(p) ==
  LET len[n \in 0 .. Len(p)] == IF n = 0 THEN 0 ELSE len[n - 1] + 4 + TileLen(p[n])
  IN  len

Bytes(p) == BytesUpTo(p)[Len(p)]

\* The size is looked at after the tile was added (mutant).
PackTile_Late(r, t) ==
  LET cur == Append(r.current, t)
  IN  IF Bytes(cur) > MaxPacketSize THEN [done |-> Append(r.done, cur), current |-> <<>>]
                                    ELSE [r EXCEPT !.current = cur]

\* pack_tiles, one tile: a packet it would overfill is closed first, and an
\* oversized tile goes alone.
PackTile(r, t) ==
  LET flush == r.current # <<>> /\ Bytes(r.current) + 4 + TileLen(t) > MaxPacketSize
      done  == IF flush THEN Append(r.done, r.current) ELSE r.done
      cur   == Append(IF flush THEN <<>> ELSE r.current, t)
  IN  IF Bytes(cur) > MaxPacketSize THEN [done |-> Append(done, cur), current |-> <<>>]
                                    ELSE [done |-> done, current |-> cur]

\* pack_tiles, after each number of tiles.
PackedUpTo(b) ==
  LET after[n \in 0 .. Len(b)] == IF n = 0 THEN [done |-> <<>>, current |-> <<>>]
                                  ELSE PackTile(after[n - 1], b[n])
  IN  after

PackTiles(b) ==
  LET r == PackedUpTo(b)[Len(b)]
  IN  IF r.current = <<>> THEN r.done ELSE Append(r.done, r.current)

\* Sort, encode and send_tiles.
Send ==
  /\ stage = "merged"
  /\ Cardinality(tiles) <= MaxPacked
  /\ stage' = "packed"
  /\ \E order \in SetToSeqs(tiles), len \in [1 .. Cardinality(tiles) -> WebpLen] :
       ordered' = [i \in 1 .. Cardinality(tiles) |-> [rect |-> order[i], len |-> len[i]]]
  /\ packets' = PackTiles(ordered')
  /\ UNCHANGED <<grid, changed, tiles, received>>

-----------------------------------------------------------------------------
(* client.html, onmessage *)

\* The first u16 of a message tells its kind; a tile packet starts with the low
\* half of its first tile's length.
Marker(p) == TileLen(p[1]) % 65536

\* The page takes one tile out of every packet (mutant).
Parse_FirstOnly(p) ==
  IF Marker(p) \in {MarkerHeader, MarkerSeq} THEN <<>> ELSE <<p[1]>>

Parse(p) == IF Marker(p) \in {MarkerHeader, MarkerSeq} THEN <<>> ELSE p

\* What the page has after each number of messages.
ParsedUpTo(ps) ==
  LET got[n \in 0 .. Len(ps)] == IF n = 0 THEN <<>> ELSE got[n - 1] \o Parse(ps[n])
  IN  got

Receive ==
  /\ stage = "packed"
  /\ stage' = "shown"
  /\ received' = ParsedUpTo(packets)[Len(packets)]
  /\ UNCHANGED <<grid, changed, tiles, ordered, packets>>

WireNext == Detect \/ MergeTiles \/ Send \/ Receive

WireSpec == WireInit /\ [][WireNext]_wireVars

-----------------------------------------------------------------------------
\* cell_rect
CellRect(c) == Rect(grid, c[1], c[1], c[2], c[2])

\* Merging loses no changed cell, sends no cell twice, and exceeds no limit; the
\* cells read back from a tile's pixels - what a lost tile re-arms - are those
\* whose pixels it shows.  A cell that did not change is only sent where the gap
\* rule allows it: between two changed cells of its column with at most
\* MergeGap + 1 still ones between.  A frame that changed altogether is sent
\* whole, with the remainders of a size that does not divide evenly.
MergeIsExact ==
  stage = "merged" =>
    /\ \A c \in changed : \E t \in tiles : c \in Covered(grid, t)
    /\ \A t, u \in tiles : t # u => Covered(grid, t) \cap Covered(grid, u) = {}
    /\ \A t \in tiles :
         LET C == Covered(grid, t)
         IN  /\ Cardinality(C) <= MaxMerge * MaxMerge
             /\ Representative(grid, t) \in C
             /\ \A x \in 0 .. grid.fw - 1, y \in 0 .. grid.fh - 1 :
                  Shows(t, x, y) <=> \E c \in C : Shows(CellRect(c), x, y)
             /\ \A c \in C \ changed :
                  \E a, b \in {k \in 0 .. grid.tilesY - 1 : <<c[1], k>> \in changed} :
                    a < c[2] /\ c[2] < b /\ b - a - 1 <= MergeGap + 1
    /\ changed = CellsOf(grid) =>
         \A x \in 0 .. grid.fw - 1, y \in 0 .. grid.fh - 1 :
           Cardinality({t \in tiles : Shows(t, x, y)}) = 1

\* No message exceeds the limit unless it is a single tile, and none is emptier
\* than it has to be.
PacketsAreFull ==
  stage = "packed" =>
    \A i \in 1 .. Len(packets) :
      /\ Len(packets[i]) > 1 => Bytes(packets[i]) <= MaxPacketSize
      /\ i < Len(packets) =>
           Bytes(packets[i]) + 4 + TileLen(packets[i + 1][1]) > MaxPacketSize

\* The page decodes every tile of the batch once, as many as the sequence packet
\* announced - but for a packet whose first tile has the length of a marker.
PageReadsBatch ==
  stage = "shown" =>
    \/ received = ordered
    \/ \E i \in 1 .. Len(packets) : Marker(packets[i]) \in {MarkerHeader, MarkerSeq}

=============================================================================
