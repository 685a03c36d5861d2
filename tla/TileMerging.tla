----------------------------- MODULE TileMerging -----------------------------
(***************************************************************************)
(* The tile grid of a frame (tile.rs) and the merging of changed cells     *)
(* into rectangles (encoder.rs).  Pure operators; Pipeline and TileWire    *)
(* apply them.                                                             *)
(*                                                                         *)
(* A cell is <<column, row>>.  A tile is its pixel rectangle.              *)
(***************************************************************************)
EXTENDS Integers, FiniteSets

CONSTANTS MaxMerge,     \* MAX_MERGE_TILES_X = MAX_MERGE_TILES_Y
          MergeGap      \* Config::merge_gap

ASSUME MergeAssumption == MaxMerge \in Nat \ {0} /\ MergeGap \in Nat

AtLeast1(n) == IF n > 1 THEN n ELSE 1
Least(a, b) == IF a < b THEN a ELSE b

\* Grid::new: at least one pixel per cell; rows as many as it takes.
NewGrid(columns, fw, fh) ==
  LET w  == AtLeast1(fw)
      h  == AtLeast1(fh)
      tx == AtLeast1(Least(columns, w))
      tw == w \div tx
      th == AtLeast1((tw * h) \div w)
  IN  [tilesX |-> tx, tilesY |-> (h + th - 1) \div th, tw |-> tw, th |-> th,
       fw |-> w, fh |-> h]

CellsOf(g) == (0 .. g.tilesX - 1) \X (0 .. g.tilesY - 1)

\* x_span: the last column takes the remainder.
XEnd(g, tx) == IF tx + 1 >= g.tilesX THEN g.fw ELSE (tx + 1) * g.tw

\* y_span
YEnd(g, ty) == IF ty + 1 >= g.tilesY THEN g.fh ELSE Least((ty + 1) * g.th, g.fh)

\* The pixels of columns a .. b and rows c .. d.
Rect(g, a, b, c, d) ==
  [x |-> a * g.tw, y |-> c * g.th,
   w |-> XEnd(g, b) - a * g.tw, h |-> YEnd(g, d) - c * g.th]

\* covered_indices by the plain quotient (mutant): a last column that is wider
\* than the others is taken for two.
Covered_Unclamped(g, t) ==
  (t.x \div g.tw .. (t.x + t.w - 1) \div g.tw)
    \X (t.y \div g.th .. (t.y + t.h - 1) \div g.th)

\* grid_bounds and covered_indices: the cells of a tile, from its pixels.
Covered(g, t) ==
  (t.x \div g.tw .. Least((t.x + t.w - 1) \div g.tw, g.tilesX - 1))
    \X (t.y \div g.th .. Least((t.y + t.h - 1) \div g.th, g.tilesY - 1))

IsSingleCell(g, t) == Cardinality(Covered(g, t)) = 1

\* representative_index
Representative(g, t) == <<t.x \div g.tw, t.y \div g.th>>

\* The tile shows pixel <<x, y>>.
Shows(t, x, y) == x \in t.x .. t.x + t.w - 1 /\ y \in t.y .. t.y + t.h - 1

-----------------------------------------------------------------------------
(* TileMerger. *)

NoRow == -1

\* A still row ty leaves a run open: 0 already tolerates one row.
Bridges(last, ty) == ty - last - 1 <= MergeGap

\* column_runs, one row.
RowOf(r, changed, ty) ==
  IF changed THEN [r EXCEPT !.start = IF @ = NoRow THEN ty ELSE @, !.last = ty]
  ELSE IF r.start = NoRow \/ Bridges(r.last, ty) THEN r
  ELSE [start |-> NoRow, last |-> NoRow, runs |-> r.runs \cup {<<r.start, r.last>>}]

Closed(r) == r.runs \cup IF r.start = NoRow THEN {} ELSE {<<r.start, r.last>>}

\* column_runs, after each number of rows.
RowsLooked(S, g, tx) ==
  LET after[n \in 0 .. g.tilesY] ==
        IF n = 0 THEN [start |-> NoRow, last |-> NoRow, runs |-> {}]
        ELSE RowOf(after[n - 1], <<tx, n - 1>> \in S, n - 1)
  IN  after

\* column_runs: the row intervals of a column's changed cells, bridging gaps.
ColumnRuns(S, g, tx) == Closed(RowsLooked(S, g, tx)[g.tilesY])

\* The maximal intervals of a set of columns.
Groups(C) ==
  {r \in C \X C : /\ r[1] <= r[2] /\ r[1] .. r[2] \subseteq C
                   /\ r[1] - 1 \notin C /\ r[2] + 1 \notin C}

\* An interval in pieces of at most MaxMerge.
Chunks(a, b) ==
  {<<c, Least(c + MaxMerge - 1, b)>> : c \in {k \in a .. b : (k - a) % MaxMerge = 0}}

\* merge: columns with the same run, side by side, make a rectangle.
Merge(S, g) ==
  LET runs        == UNION {{tx} \X ColumnRuns(S, g, tx) : tx \in {c[1] : c \in S}}
      having(run) == {r[1] : r \in {q \in runs : q[2] = run}}
      pieces      == UNION {UNION {Chunks(gr[1], gr[2]) \X Chunks(run[1], run[2]) :
                                  gr \in Groups(having(run))} :
                           run \in {r[2] : r \in runs}}
  IN  {Rect(g, p[1][1], p[1][2], p[2][1], p[2][2]) : p \in pieces}

=============================================================================
