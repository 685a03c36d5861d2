---------------------------- MODULE Tiles_proofs ----------------------------
(***************************************************************************)
(* Lemmas about one cell of the change detector - what detect_changes and  *)
(* force_redetect_tile do to it, for every pixel content and interval -    *)
(* and about the merging of changed cells into tiles, for every grid and   *)
(* every set of cells: each changed cell is in a tile, no two tiles share  *)
(* a pixel, and a tile's rectangle covers the cells it says and ends with  *)
(* the screen.                                                             *)
(***************************************************************************)
EXTENDS DiffCell, TileMerging, FiniteSetTheorems, WellFoundedInduction, TLAPS

-----------------------------------------------------------------------------
(* One cell. *)

\* What the four methods of the detector keep true of every cell once it has
\* been through a frame: its two hashes agree, a zeroed baseline is armed and
\* unsent, and the two hashes it remembers differ.
Consistent(m) ==
  /\ m.prev = NoHash <=> m.half = NoHash
  /\ m.prev # NoHash => /\ m.prev.even = m.half
                        /\ m.prevPrev # m.prev
  /\ m.prev = NoHash => m.force /\ ~m.sent

\* frame_count and the ages stay within the larger interval.
LEMMA MaxIntervalNat == MaxInterval \in Nat
BY IntervalAssumption DEF MaxInterval

\* The interval counter saturates.
LEMMA SaturateType == \A n \in Nat : Saturate(n) \in 0 .. MaxInterval
BY MaxIntervalNat DEF Saturate

\* The type of a fresh cell.
LEMMA BlankType == Blank \in CellState
BY MaxIntervalNat DEF Blank, CellState

\* The type of a cell marked for a forced re-send.
LEMMA ForceRedetectType ==
  ASSUME NEW m \in CellState
  PROVE  ForceRedetect(m) \in CellState
BY DEF ForceRedetect, CellState

\* The type of the counter.
LEMMA SinceSentType ==
  ASSUME NEW m \in CellState, NEW n \in 0 .. MaxInterval
  PROVE  SinceSent(m, n) \in 0 .. MaxInterval
BY SaturateType, MaxIntervalNat DEF SinceSent, CellState

\* The type of a full hash.
LEMMA FullHashType ==
  ASSUME NEW m \in CellState, NEW p \in Pixels
  PROVE  /\ FullHash(m, p) \in Pixels \cup {NoHash}
         /\ p.even \in Even
BY DEF FullHash, CellState, Pixels

\* No content hashes to the initial value.
LEMMA PixelsNotNoHash == \A p \in Pixels : p # NoHash /\ p.even # NoHash
BY NoHashAssumption DEF Pixels

\* The type of a detected cell.
LEMMA DetectedType ==
  ASSUME NEW m \in CellState, NEW first \in BOOLEAN, NEW n \in 0 .. MaxInterval,
         NEW p \in Pixels, NEW outside \in BOOLEAN
  PROVE  Detected(m, first, n, p, outside) \in CellState
<1>1. SinceSent(m, n) \in 0 .. MaxInterval
  BY SinceSentType
<1>2. FullHash(m, p) \in Pixels \cup {NoHash} /\ p.even \in Even
  BY FullHashType
<1>3. IsDynamic(m, first, p) \in BOOLEAN
  BY DEF IsDynamic, CellState
<1>4. AfterSend(m, first, p) \in CellState
  BY <1>2, <1>3, MaxIntervalNat DEF AfterSend, CellState
<1>5. AfterHold(m, n, p) \in CellState
  BY <1>1, <1>2 DEF AfterHold, CellState
<1>6. AfterSame(m, n) \in CellState
  BY <1>1 DEF AfterSame, CellState
<1>7. QED
  BY <1>4, <1>5, <1>6 DEF Detected, Sends, Holds

\* Arming a consistent cell leaves it consistent.
LEMMA ForceRedetectConsistent ==
  ASSUME NEW m \in CellState
  PROVE  /\ Consistent(ForceRedetect(m))
         /\ ForceRedetect(m).prev = NoHash
BY DEF ForceRedetect, Consistent, CellState

\* On the first frame, and for an armed cell, the full hash is computed: the
\* half-hash shortcut never answers for a cell without a baseline.
LEMMA ArmedIsHashed ==
  ASSUME NEW m \in CellState, NEW p \in Pixels, m.half = NoHash
  PROVE  FullHash(m, p) = p
BY PixelsNotNoHash DEF FullHash

\* The cell a frame starts from: a blank one on the first frame, a consistent
\* one afterwards.
Ready(m, first) == IF first THEN m = Blank ELSE Consistent(m)

\* The damage skip never hides a cell without a baseline, and a changed cell's
\* full hash is that of the new pixels: a half-hash match cannot be a change.
LEMMA ChangedIsHashed ==
  ASSUME NEW m \in CellState, NEW first \in BOOLEAN, NEW p \in Pixels,
         NEW outside \in BOOLEAN, Ready(m, first)
  PROVE  /\ m.prev = NoHash => Changes(m, first, p, outside)
         /\ Changes(m, first, p, outside) => FullHash(m, p) = p /\ m.prev # p
<1>1. CASE m.prev = NoHash
  <2>1. m.half = NoHash
    BY <1>1 DEF Ready, Consistent, Blank
  <2>2. FullHash(m, p) = p /\ p # NoHash
    BY <2>1, ArmedIsHashed, PixelsNotNoHash
  <2>3. ~DamageSkips(m, first, outside)
    BY <1>1 DEF DamageSkips, Ready, Consistent
  <2>4. QED
    BY <1>1, <2>2, <2>3 DEF Changes
<1>2. CASE m.prev # NoHash
  <2>1. ~first
    BY <1>2 DEF Ready, Blank
  <2>2. QED
    BY <1>2, <2>1 DEF Changes, FullHash
<1>3. QED
  BY <1>1, <1>2

\* What one frame does to a cell that is ready for it: it comes out consistent,
\* with a baseline that agrees with its pixels on the hashed rows unless damage
\* skipped it, with the new pixels as its baseline if it changed, and - if it was held -
\* unsent or marked dynamic.
LEMMA DetectedConsistent ==
  ASSUME NEW m \in CellState, NEW first \in BOOLEAN, NEW n \in 0 .. MaxInterval,
         NEW p \in Pixels, NEW outside \in BOOLEAN, Ready(m, first)
  PROVE  LET d == Detected(m, first, n, p, outside) IN
         /\ Consistent(d)
         /\ d.prev # NoHash
         /\ ~Changes(m, first, p, outside) =>
              /\ d.prev = m.prev
              /\ d.sent = m.sent
              /\ d.dyn = m.dyn
         /\ ~outside => d.prev.even = p.even
         /\ Changes(m, first, p, outside) => d.prev = p
         /\ Holds(m, first, n, p, outside) => ~d.sent \/ d.dyn
<1> DEFINE d == Detected(m, first, n, p, outside)
<1>1. p # NoHash /\ p.even # NoHash
  BY PixelsNotNoHash
<1>2. /\ m.prev = NoHash => Changes(m, first, p, outside)
      /\ Changes(m, first, p, outside) => FullHash(m, p) = p /\ m.prev # p
  BY ChangedIsHashed
<1>3. CASE Sends(m, first, n, p, outside)
  <2>1. FullHash(m, p) = p /\ m.prev # p /\ ~Holds(m, first, n, p, outside)
    BY <1>2, <1>3 DEF Sends, Holds
  <2>2. d = AfterSend(m, first, p)
    BY <1>3, <2>1 DEF Detected
  <2>3. d.prev = p /\ d.prevPrev = m.prev /\ d.half = p.even /\ d.sent
    BY <2>1, <2>2 DEF AfterSend
  <2>4. QED
    BY <1>1, <1>3, <2>1, <2>3 DEF Consistent, Sends
<1>4. CASE Holds(m, first, n, p, outside)
  <2>1. FullHash(m, p) = p /\ m.prev # p /\ ~Sends(m, first, n, p, outside)
    BY <1>2, <1>4 DEF Sends, Holds
  <2>2. d = AfterHold(m, n, p)
    BY <1>4, <2>1 DEF Detected
  <2>3. /\ d.prev = p /\ d.prevPrev = m.prev /\ d.half = p.even
        /\ d.sent = m.sent /\ d.dyn = m.dyn
    BY <2>1, <2>2 DEF AfterHold, CellState
  <2>4. ~m.sent \/ m.dyn
    <3>1. ~first
      BY <1>4 DEF Holds, ShouldSend
    <3>2. SUFFICES ASSUME m.sent PROVE m.dyn
      OBVIOUS
    <3>3. m.prev # NoHash /\ m.prevPrev # m.prev
      BY <3>1, <3>2 DEF Ready, Consistent
    <3>4. IsDynamic(m, first, p)
      BY <2>1, <3>1, <3>2, <3>3 DEF IsDynamic
    <3>5. QED
      BY <1>4, <3>4 DEF Holds, ShouldSend, CellState
  <2>5. QED
    BY <1>1, <1>4, <2>1, <2>3, <2>4 DEF Consistent, Holds
<1>5. CASE ~Changes(m, first, p, outside)
  <2>1. d = AfterSame(m, n)
    BY <1>5 DEF Detected, Sends, Holds
  <2>2. /\ d.prev = m.prev /\ d.prevPrev = m.prevPrev /\ d.half = m.half
        /\ d.sent = m.sent /\ d.dyn = m.dyn
    BY <2>1 DEF AfterSame, CellState
  <2>3. m.prev # NoHash /\ ~first
    BY <1>2, <1>5 DEF Ready, Blank
  <2>4. m.prev.even = m.half /\ Consistent(m)
    BY <2>3 DEF Ready, Consistent
  <2>5. ~outside => p.even = m.half
    BY <1>5, <2>3, <2>4 DEF Changes, DamageSkips, FullHash
  <2>6. ~Sends(m, first, n, p, outside) /\ ~Holds(m, first, n, p, outside)
    BY <1>5 DEF Sends, Holds
  <2>7. Consistent(d)
    BY <2>2, <2>3, <2>4 DEF Consistent
  <2>8. QED
    BY <1>5, <2>2, <2>3, <2>4, <2>5, <2>6, <2>7
<1>6. QED
  BY <1>3, <1>4, <1>5 DEF Sends, Holds

\* Everything a first frame touches is sent.
LEMMA FirstIsSent ==
  ASSUME NEW m \in CellState, NEW n \in 0 .. MaxInterval, NEW p \in Pixels,
         NEW outside \in BOOLEAN
  PROVE  Sends(m, TRUE, n, p, outside)
BY DEF Sends, Changes, DamageSkips, ShouldSend

\* Only sending a cell marks it as sent.
LEMMA UnsentStays ==
  ASSUME NEW m \in CellState, NEW first \in BOOLEAN, NEW n \in 0 .. MaxInterval,
         NEW p \in Pixels, NEW outside \in BOOLEAN,
         ~Sends(m, first, n, p, outside)
  PROVE  Detected(m, first, n, p, outside).sent = m.sent
<1>1. AfterHold(m, n, p).sent = m.sent /\ AfterSame(m, n).sent = m.sent
  BY DEF AfterHold, AfterSame, CellState
<1>2. QED
  BY <1>1 DEF Detected

-----------------------------------------------------------------------------
(* Runs of cells in a column, and groups of columns with the same run. *)

\* A set of naturals that is not empty has a least element: induction over the
\* naturals, by their well-foundedness.
LEMMA LeastNat ==
  ASSUME NEW T \in SUBSET Nat, T # {}
  PROVE  \E x \in T : \A y \in T : x <= y
<1> DEFINE Less == {ss \in Nat \X Nat : ss[1] < ss[2]}
<1>0. IsWellFoundedOn(Less, Nat)
  BY NatLessThanWellFounded DEF OpToRel
<1>1. \E x \in T : \A y \in T : ~(<<y, x>> \in Less)
  BY <1>0, WFMin
<1>2. \A x, y \in Nat : <<y, x>> \in Less <=> y < x
  OBVIOUS
<1>3. T \subseteq Nat
  OBVIOUS
<1> HIDE DEF Less
<1>4. PICK x \in T : \A y \in T : ~(<<y, x>> \in Less)
  BY <1>1
<1>5. \A y \in T : x <= y
  <2> TAKE y \in T
  <2>1. x \in Nat /\ y \in Nat /\ ~(y < x)
    BY <1>2, <1>3, <1>4
  <2> QED BY <2>1
<1> QED BY <1>5

\* induction up to a bound, by minimal counterexample
LEMMA Bounded ==
  ASSUME NEW N \in Nat, NEW T \in SUBSET (0 .. N), 0 \in T,
         \A n \in 0 .. N : n \in T /\ n < N => n + 1 \in T
  PROVE  T = 0 .. N
<1> SUFFICES ASSUME (0 .. N) \ T # {} PROVE FALSE
  OBVIOUS
<1>1. PICK x \in (0 .. N) \ T : \A y \in (0 .. N) \ T : x <= y
  <2>1. (0 .. N) \ T \in SUBSET Nat
    OBVIOUS
  <2> QED BY <2>1, LeastNat
<1>2. x # 0 /\ x - 1 \in 0 .. N
  BY <1>1
<1>3. x - 1 \in T
  BY <1>1, <1>2
<1> QED BY <1>1, <1>2, <1>3

\* The scan of a column before its first row.
RowStart == [start |-> NoRow, last |-> NoRow, runs |-> {}]

\* What the recursion of RowsLooked says of a function
IsRows(f, S, N, tx) ==
  f = [n \in 0 .. N |-> IF n = 0 THEN RowStart
                        ELSE RowOf(f[n - 1], <<tx, n - 1>> \in S, n - 1)]

\* Such a function exists, by induction over the rows.
LEMMA RowsExist ==
  ASSUME NEW S, NEW tx, NEW N \in Nat
  PROVE  \E f : IsRows(f, S, N, tx)
<1> DEFINE T == {n \in 0 .. N : \E f : IsRows(f, S, n, tx)}
<1>1. 0 \in T
  <2>1. IsRows([n \in 0 .. 0 |-> RowStart], S, 0, tx)
    BY DEF IsRows
  <2> QED BY <2>1
<1>2. ASSUME NEW n \in 0 .. N, n \in T, n < N PROVE n + 1 \in T
  <2>1. PICK f : IsRows(f, S, n, tx)
    BY <1>2
  <2> DEFINE h == [k \in 0 .. n + 1 |-> IF k = n + 1 THEN RowOf(f[n], <<tx, n>> \in S, n) ELSE f[k]]
  <2>2. \A k \in 0 .. n : f[k] = IF k = 0 THEN RowStart ELSE RowOf(f[k - 1], <<tx, k - 1>> \in S, k - 1)
    BY <2>1 DEF IsRows
  <2>3. \A k \in 0 .. n + 1 : h[k] = IF k = 0 THEN RowStart ELSE RowOf(h[k - 1], <<tx, k - 1>> \in S, k - 1)
    <3> TAKE k \in 0 .. n + 1
    <3>1. CASE k = n + 1
      <4>1. k # 0 /\ k - 1 = n /\ n \in 0 .. n + 1 /\ n # n + 1
        BY <3>1
      <4>2. h[k - 1] = f[n] /\ h[k] = RowOf(f[n], <<tx, n>> \in S, n)
        BY <3>1, <4>1
      <4> QED BY <4>1, <4>2
    <3>2. CASE k # n + 1
      <4>1. k \in 0 .. n /\ (k # 0 => k - 1 \in 0 .. n)
        BY <3>2
      <4>2. h[k] = f[k] /\ (k # 0 => h[k - 1] = f[k - 1])
        BY <4>1
      <4> QED BY <2>2, <4>1, <4>2
    <3> QED BY <3>1, <3>2
  <2>4. IsRows(h, S, n + 1, tx)
    BY <2>3 DEF IsRows
  <2> QED BY <1>2, <2>4
<1> HIDE DEF T
<1>3. T \in SUBSET (0 .. N)
  BY DEF T
<1>4. T = 0 .. N
  BY <1>1, <1>2, <1>3, Bounded
<1> QED BY <1>4 DEF T

\* So RowsLooked obeys its recursion.
LEMMA RowsAre ==
  ASSUME NEW S, NEW g, NEW tx, g.tilesY \in Nat
  PROVE  IsRows(RowsLooked(S, g, tx), S, g.tilesY, tx)
<1>1. \E f : IsRows(f, S, g.tilesY, tx)
  BY RowsExist
<1>2. RowsLooked(S, g, tx) = CHOOSE f : IsRows(f, S, g.tilesY, tx)
  BY DEF RowsLooked, IsRows, RowStart
<1> QED BY <1>1, <1>2

-----------------------------------------------------------------------------
\* Row k lies in run r.
In(k, r) == r[1] <= k /\ k <= r[2]

\* A run of column tx: it starts and ends with a changed row, and a still row
\* inside it is bridged.
Run(S, tx, r) ==
  /\ r[1] <= r[2] /\ <<tx, r[1]>> \in S /\ <<tx, r[2]>> \in S
  /\ \A k \in r[1] .. r[2] : <<tx, k>> \notin S =>
       \E a, b \in r[1] .. r[2] :
          /\ <<tx, a>> \in S /\ <<tx, b>> \in S
          /\ a < k /\ k < b /\ b - a - 1 <= MergeGap + 1

\* What is true of column_runs after n rows.
RowsInv(S, tx, n, r) ==
  /\ r \in [start : Int, last : Int, runs : SUBSET (Int \X Int)]
  /\ r.start # NoRow =>
       /\ 0 <= r.start /\ r.last < n /\ n - r.last <= MergeGap + 2
       /\ Run(S, tx, <<r.start, r.last>>)
       /\ \A q \in r.runs : q[2] < r.start
  /\ \A q \in r.runs : 0 <= q[1] /\ q[2] < n /\ Run(S, tx, q)
  /\ \A q, u \in r.runs : q = u \/ q[2] < u[1] \/ u[2] < q[1]
  /\ \A k \in 0 .. n - 1 : <<tx, k>> \in S =>
       \/ r.start # NoRow /\ r.start <= k /\ k <= r.last
       \/ \E q \in r.runs : In(k, q)

\* One row more keeps what the scan knows.
LEMMA RowsStep ==
  ASSUME NEW S, NEW tx, NEW n \in Nat, NEW r, RowsInv(S, tx, n, r)
  PROVE  RowsInv(S, tx, n + 1, RowOf(r, <<tx, n>> \in S, n))
<1> DEFINE s == RowOf(r, <<tx, n>> \in S, n)
<1> USE MergeAssumption
<1>0. /\ r \in [start : Int, last : Int, runs : SUBSET (Int \X Int)]
      /\ \A q \in r.runs : q \in Int \X Int /\ q = <<q[1], q[2]>> /\ q[1] \in Int /\ q[2] \in Int
  BY DEF RowsInv
<1>1. CASE <<tx, n>> \in S
  <2>1. s = [start |-> IF r.start = NoRow THEN n ELSE r.start, last |-> n, runs |-> r.runs]
    BY <1>0, <1>1 DEF RowOf
  <2>2. CASE r.start = NoRow
    <3>1. s = [start |-> n, last |-> n, runs |-> r.runs]
      BY <2>1, <2>2
    <3>2. Run(S, tx, <<n, n>>)
      BY <1>1 DEF Run
    <3>3. \A q \in r.runs : q[2] < n
      BY DEF RowsInv
    <3> QED BY <1>0, <1>1, <2>2, <3>1, <3>2, <3>3 DEF RowsInv, NoRow, In
  <2>3. CASE r.start # NoRow
    <3>1. s = [start |-> r.start, last |-> n, runs |-> r.runs]
      BY <2>1, <2>3
    <3>2. /\ 0 <= r.start /\ r.last < n /\ n - r.last <= MergeGap + 2
          /\ r.start <= r.last /\ <<tx, r.start>> \in S /\ <<tx, r.last>> \in S
          /\ \A k \in r.start .. r.last : <<tx, k>> \notin S =>
               \E a, b \in r.start .. r.last :
                  /\ <<tx, a>> \in S /\ <<tx, b>> \in S
                  /\ a < k /\ k < b /\ b - a - 1 <= MergeGap + 1
      BY <1>0, <2>3 DEF RowsInv, Run
    <3>3. \A k \in r.start .. n : <<tx, k>> \notin S =>
            \E a, b \in r.start .. n :
               /\ <<tx, a>> \in S /\ <<tx, b>> \in S
               /\ a < k /\ k < b /\ b - a - 1 <= MergeGap + 1
      <4> TAKE k \in r.start .. n
      <4> HAVE <<tx, k>> \notin S
      <4>1. CASE k <= r.last
        BY <1>0, <3>2, <4>1
      <4>2. CASE k > r.last
        <5>1. k # n /\ r.last \in r.start .. n /\ n \in r.start .. n /\ n - r.last - 1 <= MergeGap + 1
          BY <1>0, <1>1, <3>2
        <5>2. r.last < k /\ k < n
          BY <1>0, <4>2, <5>1
        <5>3. <<tx, r.last>> \in S /\ <<tx, n>> \in S
          BY <1>1, <3>2
        <5> QED BY <5>1, <5>2, <5>3
      <4> QED BY <1>0, <4>1, <4>2
    <3>4. Run(S, tx, <<r.start, n>>)
      BY <1>0, <1>1, <3>2, <3>3 DEF Run
    <3>5. \A q \in r.runs : q[2] < r.start
      BY <2>3 DEF RowsInv
    <3> QED BY <1>0, <1>1, <2>3, <3>1, <3>2, <3>4, <3>5 DEF RowsInv, NoRow, In
  <2> QED BY <2>2, <2>3
<1>2. CASE <<tx, n>> \notin S /\ (r.start = NoRow \/ Bridges(r.last, n))
  <2>1. s = r
    BY <1>2 DEF RowOf
  <2> QED BY <1>0, <1>2, <2>1 DEF RowsInv, Bridges, NoRow, In
<1>3. CASE <<tx, n>> \notin S /\ r.start # NoRow /\ ~Bridges(r.last, n)
  <2>1. s = [start |-> NoRow, last |-> NoRow, runs |-> r.runs \cup {<<r.start, r.last>>}]
    BY <1>3 DEF RowOf
  <2>2. /\ 0 <= r.start /\ r.last < n /\ Run(S, tx, <<r.start, r.last>>)
        /\ \A q \in r.runs : q[2] < r.start
    BY <1>0, <1>3 DEF RowsInv
  <2> DEFINE u == <<r.start, r.last>>
  <2>3. u \in Int \X Int /\ u[1] = r.start /\ u[2] = r.last
    BY <1>0
  <2>4. \A q \in s.runs : 0 <= q[1] /\ q[2] < n /\ Run(S, tx, q)
    BY <1>0, <2>1, <2>2, <2>3 DEF RowsInv
  <2>5. \A q, v \in s.runs : q = v \/ q[2] < v[1] \/ v[2] < q[1]
    BY <1>0, <2>1, <2>2, <2>3 DEF RowsInv
  <2>6. \A k \in 0 .. n : <<tx, k>> \in S => \E q \in s.runs : In(k, q)
    BY <1>0, <1>3, <2>1, <2>2, <2>3 DEF RowsInv, In
  <2>7. s \in [start : Int, last : Int, runs : SUBSET (Int \X Int)] /\ s.start = NoRow
    BY <1>0, <2>1, <2>3 DEF NoRow
  <2> HIDE DEF s, u
  <2>8. \A q \in s.runs : q[2] < n + 1
    <3> TAKE q \in s.runs
    <3>1. q[2] \in Int
      BY <2>7
    <3> QED BY <2>4, <3>1
  <2> QED BY <2>4, <2>5, <2>6, <2>7, <2>8 DEF RowsInv, s
<1> QED BY <1>1, <1>2, <1>3

\* What the scan knows after n rows: every maximal run among them is recorded,
\* and the open one starts where it says.
LEMMA RowsHold ==
  ASSUME NEW S, NEW g, NEW tx, g.tilesY \in Nat
  PROVE  \A n \in 0 .. g.tilesY : RowsInv(S, tx, n, RowsLooked(S, g, tx)[n])
<1> DEFINE f == RowsLooked(S, g, tx)
           N == g.tilesY
           T == {n \in 0 .. N : RowsInv(S, tx, n, f[n])}
<1>1. \A n \in 0 .. N : f[n] = IF n = 0 THEN RowStart ELSE RowOf(f[n - 1], <<tx, n - 1>> \in S, n - 1)
  <2>1. IsRows(f, S, N, tx)
    BY RowsAre
  <2> HIDE DEF f
  <2> QED BY <2>1 DEF IsRows
<1> HIDE DEF f
<1>2. 0 \in T
  <2>1. RowsInv(S, tx, 0, RowStart)
    BY DEF RowsInv, RowStart, NoRow
  <2>2. 0 \in 0 .. N
    OBVIOUS
  <2>3. f[0] = RowStart
    BY <1>1, <2>2
  <2> QED BY <2>1, <2>2, <2>3
<1>3. ASSUME NEW n \in 0 .. N, n \in T, n < N PROVE n + 1 \in T
  <2>1. n + 1 \in 0 .. N /\ n + 1 # 0 /\ (n + 1) - 1 = n /\ n \in Nat
    BY <1>3
  <2>2. f[n + 1] = RowOf(f[n], <<tx, n>> \in S, n)
    BY <1>1, <2>1
  <2>3. RowsInv(S, tx, n + 1, f[n + 1])
    BY <1>3, <2>1, <2>2, RowsStep
  <2> QED BY <2>1, <2>3
<1>4. T \in SUBSET (0 .. N)
  OBVIOUS
<1> HIDE DEF T
<1>5. T = 0 .. N
  BY <1>2, <1>3, <1>4, Bounded
<1> QED BY <1>5 DEF T, f

-----------------------------------------------------------------------------
(* Chunks and rectangles. *)

\* What integer division and its remainder are.
LEMMA DivFact ==
  ASSUME NEW x \in Nat, NEW d \in Nat \ {0}
  PROVE  x \div d \in Nat /\ (x \div d) * d <= x /\ x < (x \div d) * d + d
OBVIOUS

\* Multiplying by a natural keeps an order.
LEMMA TimesMonotone ==
  ASSUME NEW a \in Int, NEW b \in Int, NEW d \in Nat, a <= b
  PROVE  a * d <= b * d
OBVIOUS

\* Distribution, for one step up and one step down.
LEMMA Successor ==
  ASSUME NEW a \in Int, NEW d \in Int
  PROVE  (a + 1) * d = a * d + d /\ (a - 1) * d = a * d - d /\ a * d \in Int
OBVIOUS

\* Division is the only number with its two bounds.
LEMMA DivUnique ==
  ASSUME NEW x \in Nat, NEW d \in Nat \ {0}, NEW q \in Int, q * d <= x, x < q * d + d
  PROVE  x \div d = q
<1> DEFINE p == x \div d
<1>1. p \in Nat /\ p * d <= x /\ x < p * d + d
  BY DivFact
<1> HIDE DEF p
<1>2. ~(p <= q - 1)
  <2> SUFFICES ASSUME p <= q - 1 PROVE FALSE
    OBVIOUS
  <2>1. p * d <= (q - 1) * d
    BY <1>1, TimesMonotone
  <2>2. (q - 1) * d = q * d - d
    BY Successor
  <2> QED BY <1>1, <2>1, <2>2, Successor
<1>3. ~(q <= p - 1)
  <2> SUFFICES ASSUME q <= p - 1 PROVE FALSE
    OBVIOUS
  <2>1. q * d <= (p - 1) * d
    BY <1>1, TimesMonotone
  <2>2. (p - 1) * d = p * d - d
    BY <1>1, Successor
  <2> QED BY <1>1, <2>1, <2>2, Successor
<1> QED BY <1>1, <1>2, <1>3 DEF p

\* The least quotient a number reaches.
LEMMA DivAtLeast ==
  ASSUME NEW x \in Nat, NEW d \in Nat \ {0}, NEW q \in Int, q * d <= x
  PROVE  q <= x \div d
<1> DEFINE p == x \div d
<1>1. p \in Nat /\ x < p * d + d
  BY DivFact
<1> HIDE DEF p
<1> SUFFICES ASSUME p + 1 <= q PROVE FALSE
  BY <1>1 DEF p
<1>2. (p + 1) * d <= q * d /\ (p + 1) * d = p * d + d
  BY <1>1, TimesMonotone, Successor
<1> QED BY <1>1, <1>2, Successor

\* The types of a grid of cells of at least one pixel.
GridRecord == [tilesX : Nat \ {0}, tilesY : Nat \ {0}, tw : Nat \ {0}, th : Nat \ {0},
          fw : Nat \ {0}, fh : Nat \ {0}]

\* What the cells' sizes are of: no column is empty, the last one takes the
\* remainder; the last row is cut off.
Fits(g) ==
  /\ g \in GridRecord
  /\ g.tilesX * g.tw <= g.fw
  /\ (g.tilesY - 1) * g.th < g.fh /\ g.fh <= g.tilesY * g.th

\* TileGrid::new yields a grid whose cells cover the screen, for every size.
LEMMA NewGridFits ==
  ASSUME NEW n \in Nat, NEW w0 \in Nat, NEW h0 \in Nat
  PROVE  Fits(NewGrid(n, w0, h0))
<1> DEFINE g == NewGrid(n, w0, h0)
           w == AtLeast1(w0)
           h == AtLeast1(h0)
           tx == AtLeast1(Least(n, w))
           tw == w \div tx
           th == AtLeast1((tw * h) \div w)
           ty == (h + th - 1) \div th
<1>1. w \in Nat \ {0} /\ h \in Nat \ {0} /\ tx \in Nat \ {0} /\ tx <= w
  BY DEF AtLeast1, Least
<1>2. g = [tilesX |-> tx, tilesY |-> ty, tw |-> tw, th |-> th, fw |-> w, fh |-> h]
  BY DEF NewGrid
<1> HIDE DEF w, h, tx
<1>3. 1 * tx = tx /\ tx * tw = tw * tx
  BY <1>1, DivFact
<1>4. tw \in Nat \ {0} /\ tx * tw <= w
  <2>1. tw \in Nat /\ tw * tx <= w
    BY <1>1, DivFact
  <2>2. 1 <= tw
    BY <1>1, <1>3, DivAtLeast
  <2> QED BY <1>3, <2>1, <2>2
<1> HIDE DEF tw
<1>5. th \in Nat \ {0}
  <2>1. tw * h \in Nat
    BY <1>1, <1>4
  <2>2. (tw * h) \div w \in Nat
    BY <1>1, <2>1, DivFact
  <2> QED BY <2>2 DEF AtLeast1
<1> HIDE DEF th
<1>6. ty \in Nat /\ ty * th <= h + th - 1 /\ h + th - 1 < ty * th + th
  <2>1. h + th - 1 \in Nat
    BY <1>1, <1>5
  <2> QED BY <1>5, <2>1, DivFact
<1> HIDE DEF ty
<1>7. (ty - 1) * th = ty * th - th /\ ty * th \in Int
  BY <1>5, <1>6, Successor
<1>8. ty # 0
  <2>1. 0 * th = 0
    BY <1>5
  <2> QED BY <1>1, <1>5, <1>6, <2>1
<1>9. (ty - 1) * th < h /\ h <= ty * th
  BY <1>1, <1>5, <1>6, <1>7
<1> HIDE DEF g
<1> QED BY <1>1, <1>2, <1>4, <1>5, <1>6, <1>8, <1>9 DEF Fits, GridRecord, g

\* Division undoes multiplication.
LEMMA DivExact ==
  ASSUME NEW a \in Nat, NEW d \in Nat \ {0}
  PROVE  (a * d) \div d = a
<1>1. a * d \in Nat /\ a * d <= a * d /\ a * d < a * d + d
  OBVIOUS
<1> QED BY <1>1, DivUnique

\* The last of n cells of size d that a run of pixels ending before e touches.
LEMMA LastIndex ==
  ASSUME NEW n \in Nat \ {0}, NEW b \in Nat, b < n, NEW d \in Nat \ {0}, NEW e \in Nat,
         b * d < e, b + 1 < n => e <= b * d + d
  PROVE  Least((e - 1) \div d, n - 1) = b
<1>1. e - 1 \in Nat /\ b * d \in Int /\ b * d <= e - 1
  <2>1. b * d \in Nat
    OBVIOUS
  <2> QED BY <2>1
<1>2. CASE b + 1 < n
  <2>1. (e - 1) \div d = b
    <3>1. e - 1 < b * d + d
      BY <1>1, <1>2
    <3> QED BY <1>1, <3>1, DivUnique
  <2> QED BY <1>2, <2>1 DEF Least
<1>3. CASE b + 1 = n
  <2> DEFINE q == (e - 1) \div d
  <2>1. b <= q /\ q \in Nat
    BY <1>1, DivAtLeast, DivFact
  <2> HIDE DEF q
  <2>2. Least(q, n - 1) = b
    BY <1>3, <2>1 DEF Least
  <2> QED BY <2>2 DEF q
<1> QED BY <1>2, <1>3

\* A block of cells: columns a .. b, rows c .. d of the grid.
Block(g, a, b, c, d) ==
  /\ a \in Nat /\ b \in Nat /\ c \in Nat /\ d \in Nat
  /\ a <= b /\ b < g.tilesX /\ c <= d /\ d < g.tilesY

\* A column's pixels: at least as many as a cell has, up to the next column.
LEMMA ColumnPixels ==
  ASSUME NEW g, Fits(g), NEW b \in Nat, b < g.tilesX
  PROVE  /\ XEnd(g, b) \in Nat /\ b * g.tw \in Nat
         /\ b * g.tw + g.tw <= XEnd(g, b) /\ XEnd(g, b) <= g.fw
         /\ b + 1 < g.tilesX => XEnd(g, b) = b * g.tw + g.tw
         /\ b + 1 = g.tilesX => XEnd(g, b) = g.fw
<1> USE DEF Fits, GridRecord
<1>1. (b + 1) * g.tw = b * g.tw + g.tw /\ b * g.tw \in Int
  BY Successor
<1>2. 0 * g.tw <= b * g.tw /\ 0 * g.tw = 0
  BY TimesMonotone
<1>3. (b + 1) * g.tw <= g.tilesX * g.tw
  BY TimesMonotone
<1> QED BY <1>1, <1>2, <1>3 DEF XEnd

\* A row's pixels: at least one, up to the next row.
LEMMA RowPixels ==
  ASSUME NEW g, Fits(g), NEW d \in Nat, d < g.tilesY
  PROVE  /\ YEnd(g, d) \in Nat /\ d * g.th \in Nat
         /\ d * g.th < YEnd(g, d) /\ YEnd(g, d) <= g.fh /\ YEnd(g, d) <= d * g.th + g.th
         /\ d + 1 < g.tilesY => YEnd(g, d) = d * g.th + g.th
         /\ d + 1 = g.tilesY => YEnd(g, d) = g.fh
<1> USE DEF Fits, GridRecord
<1>1. (d + 1) * g.th = d * g.th + g.th /\ d * g.th \in Int
  BY Successor
<1>2. 0 * g.th <= d * g.th /\ 0 * g.th = 0
  BY TimesMonotone
<1>3. d * g.th <= (g.tilesY - 1) * g.th
  BY TimesMonotone
<1>4. d + 1 < g.tilesY => (d + 1) * g.th <= (g.tilesY - 1) * g.th
  BY TimesMonotone
<1>5. d + 1 = g.tilesY => g.fh <= (d + 1) * g.th
  OBVIOUS
<1> QED BY <1>1, <1>2, <1>3, <1>4, <1>5 DEF YEnd, Least

\* The cells read back from a block's pixels are the block's.
LEMMA CoveredIsBlock ==
  ASSUME NEW g, Fits(g), NEW a, NEW b, NEW c, NEW d, Block(g, a, b, c, d)
  PROVE  LET t == Rect(g, a, b, c, d) IN
         /\ Covered(g, t) = (a .. b) \X (c .. d)
         /\ Representative(g, t) = <<a, c>>
<1> DEFINE t == Rect(g, a, b, c, d)
<1> USE DEF Block
<1>0. /\ g.tw \in Nat \ {0} /\ g.th \in Nat \ {0} /\ g.tilesX \in Nat \ {0} /\ g.tilesY \in Nat \ {0}
      /\ g.fw \in Nat /\ g.fh \in Nat
  BY DEF Fits, GridRecord
<1>1. /\ t.x = a * g.tw /\ t.y = c * g.th
      /\ t.w = XEnd(g, b) - a * g.tw /\ t.h = YEnd(g, d) - c * g.th
  BY DEF Rect
<1>2. /\ a * g.tw \in Nat /\ c * g.th \in Nat /\ b * g.tw \in Nat /\ d * g.th \in Nat
      /\ XEnd(g, b) \in Nat /\ YEnd(g, d) \in Nat
      /\ a * g.tw <= b * g.tw /\ c * g.th <= d * g.th
      /\ b * g.tw + g.tw <= XEnd(g, b) /\ d * g.th < YEnd(g, d)
  BY <1>0, ColumnPixels, RowPixels, TimesMonotone
<1>3. (a * g.tw) \div g.tw = a /\ (c * g.th) \div g.th = c
  BY <1>0, DivExact
<1>4. t.x + t.w - 1 = XEnd(g, b) - 1 /\ t.y + t.h - 1 = YEnd(g, d) - 1
  BY <1>0, <1>1, <1>2
<1>5. Least((XEnd(g, b) - 1) \div g.tw, g.tilesX - 1) = b
  <2>1. b * g.tw < XEnd(g, b) /\ (b + 1 < g.tilesX => XEnd(g, b) <= b * g.tw + g.tw)
    <3>1. b + 1 < g.tilesX => XEnd(g, b) = b * g.tw + g.tw
      BY ColumnPixels
    <3> QED BY <1>0, <1>2, <3>1
  <2> QED BY <1>0, <1>2, <2>1, LastIndex
<1>6. Least((YEnd(g, d) - 1) \div g.th, g.tilesY - 1) = d
  <2>1. d * g.th < YEnd(g, d) /\ (d + 1 < g.tilesY => YEnd(g, d) <= d * g.th + g.th)
    BY <1>0, <1>2, RowPixels
  <2> QED BY <1>0, <1>2, <2>1, LastIndex
<1> HIDE DEF t
<1>7. Covered(g, t) = (a .. b) \X (c .. d)
  BY <1>1, <1>3, <1>4, <1>5, <1>6 DEF Covered
<1>8. Representative(g, t) = <<a, c>>
  BY <1>1, <1>3 DEF Representative
<1> QED BY <1>7, <1>8 DEF t

-----------------------------------------------------------------------------
(* Grids. *)

\* What the remainder of a division is.
LEMMA ModFact ==
  ASSUME NEW x \in Nat, NEW d \in Nat \ {0}
  PROVE  x % d \in Nat /\ x % d < d /\ x = (x \div d) * d + (x % d) /\ x \div d \in Nat
OBVIOUS

\* A multiple of d.
LEMMA Multiple ==
  ASSUME NEW x \in Nat, NEW d \in Nat \ {0}
  PROVE  /\ x % d = 0 => \E q \in Nat : x = q * d
         /\ (x - (x % d)) \in Nat /\ (x - (x % d)) % d = 0
<1>1. x % d \in Nat /\ x % d < d /\ x = (x \div d) * d + (x % d) /\ x \div d \in Nat
  BY ModFact
<1> DEFINE q == x \div d
<1>2. q \in Nat /\ q * d \in Nat /\ x - (x % d) = q * d
  BY <1>1
<1> HIDE DEF q
<1>3. (q * d) % d = 0
  <2>1. (q * d) \div d = q
    BY <1>2, DivExact
  <2>2. q * d = ((q * d) \div d) * d + ((q * d) % d) /\ (q * d) % d \in Nat
    BY <1>2, ModFact
  <2> DEFINE m == (q * d) % d
  <2>3. q * d = q * d + m /\ m \in Nat
    BY <2>1, <2>2
  <2> HIDE DEF m
  <2>4. m = 0
    BY <1>2, <2>3
  <2> QED BY <2>4 DEF m
<1>4. x % d = 0 => x = q * d
  BY <1>2
<1> QED BY <1>2, <1>3, <1>4

\* Two multiples that differ are d apart.
LEMMA MultiplesApart ==
  ASSUME NEW x \in Nat, NEW y \in Nat, NEW d \in Nat \ {0}, x % d = 0, y % d = 0, x < y
  PROVE  x + d <= y
<1>1. PICK p \in Nat : x = p * d
  BY Multiple
<1>2. PICK q \in Nat : y = q * d
  BY Multiple
<1>3. p + 1 <= q
  <2> SUFFICES ASSUME q <= p PROVE FALSE
    OBVIOUS
  <2>1. q * d <= p * d
    BY TimesMonotone
  <2> QED BY <1>1, <1>2, <2>1
<1>4. (p + 1) * d <= q * d /\ (p + 1) * d = p * d + d
  BY <1>3, TimesMonotone, Successor
<1> QED BY <1>1, <1>2, <1>4

\* The chunks of an interval: pieces of it of at most MaxMerge, of which every
\* index is in exactly one; only the last is shorter.
LEMMA ChunksAre ==
  ASSUME NEW a \in Int, NEW b \in Int
  PROVE  /\ \A r \in Chunks(a, b) :
              /\ r = <<r[1], r[2]>> /\ r[1] \in Int /\ r[2] \in Int
              /\ a <= r[1] /\ r[1] <= r[2] /\ r[2] <= b
              /\ r[2] - r[1] + 1 <= MaxMerge
              /\ (r[2] - r[1] + 1 < MaxMerge => r[2] = b)
         /\ \A k \in a .. b : \E r \in Chunks(a, b) : In(k, r)
         /\ \A r, s \in Chunks(a, b) : \A k \in Int : In(k, r) /\ In(k, s) => r = s
<1> DEFINE start == {k \in a .. b : (k - a) % MaxMerge = 0}
           piece(c) == <<c, Least(c + MaxMerge - 1, b)>>
<1>0. MaxMerge \in Nat \ {0}
  BY MergeAssumption
<1>1. Chunks(a, b) = {piece(c) : c \in start}
  BY DEF Chunks
<1>2. \A c \in start : c \in a .. b /\ c - a \in Nat /\ (c - a) % MaxMerge = 0
  OBVIOUS
<1>3. \A c \in a .. b : /\ piece(c)[1] = c
                        /\ piece(c)[2] \in Int /\ c <= piece(c)[2] /\ piece(c)[2] <= b
                        /\ piece(c)[2] <= c + MaxMerge - 1
                        /\ piece(c)[2] < c + MaxMerge - 1 => piece(c)[2] = b
  BY <1>0 DEF Least
<1>a. \A c : piece(c) = <<piece(c)[1], piece(c)[2]>>
  OBVIOUS
<1>4. ASSUME NEW k \in a .. b PROVE \E c \in start : In(k, piece(c))
  <2> DEFINE m == (k - a) % MaxMerge
             x == (k - a) - m
  <2>1. m \in Nat /\ m < MaxMerge /\ x \in Nat /\ x % MaxMerge = 0
    <3>1. k - a \in Nat
      OBVIOUS
    <3>2. \A n \in Nat : /\ n % MaxMerge \in Nat /\ n % MaxMerge < MaxMerge
                         /\ n - (n % MaxMerge) \in Nat /\ (n - (n % MaxMerge)) % MaxMerge = 0
      BY <1>0, ModFact, Multiple
    <3> QED BY <3>1, <3>2
  <2> HIDE DEF m
  <2>2. (a + x) - a = x /\ a + x \in a .. b /\ k = a + x + m
    BY <2>1
  <2>3. a + x \in start
    BY <2>1, <2>2
  <2>4. k <= piece(a + x)[2]
    BY <1>0, <2>1, <2>2 DEF Least
  <2>5. In(k, piece(a + x))
    BY <1>3, <2>1, <2>2, <2>4 DEF In
  <2> QED BY <2>3, <2>5
<1>5. ASSUME NEW c \in start, NEW d \in start, c < d PROVE piece(c)[2] < d
  <2>1. c - a + MaxMerge <= d - a
    <3>1. c - a < d - a
      BY <1>2, <1>5
    <3> QED BY <1>0, <1>2, <3>1, MultiplesApart
  <2> DEFINE e == piece(c)[2]
  <2>2. e \in Int /\ e <= c + MaxMerge - 1 /\ c \in Int /\ d \in Int
    BY <1>2, <1>3
  <2> HIDE DEF e
  <2>3. e < d
    BY <1>0, <2>1, <2>2
  <2> QED BY <2>3 DEF e
<1> HIDE DEF start, piece
<1>6. ASSUME NEW c \in start, NEW d \in start, NEW k \in Int, In(k, piece(c)), In(k, piece(d))
      PROVE  c = d
  <2>1. piece(c)[1] = c /\ piece(d)[1] = d /\ c \in Int /\ d \in Int
        /\ piece(c)[2] \in Int /\ piece(d)[2] \in Int
    BY <1>2, <1>3
  <2>2. ~(c < d) /\ ~(d < c)
    BY <1>5, <1>6, <2>1 DEF In
  <2> QED BY <2>1, <2>2
<1>7. ASSUME NEW c \in start
      PROVE  LET r == piece(c) IN
             /\ r = <<r[1], r[2]>> /\ r[1] \in Int /\ r[2] \in Int
             /\ a <= r[1] /\ r[1] <= r[2] /\ r[2] <= b
             /\ r[2] - r[1] + 1 <= MaxMerge
             /\ (r[2] - r[1] + 1 < MaxMerge => r[2] = b)
  <2> DEFINE e == piece(c)[2]
  <2>1. /\ piece(c)[1] = c /\ c \in a .. b
        /\ e \in Int /\ c <= e /\ e <= b
        /\ e <= c + MaxMerge - 1
        /\ e < c + MaxMerge - 1 => e = b
    BY <1>2, <1>3
  <2>2. piece(c) = <<c, e>>
    BY <1>a, <2>1
  <2> HIDE DEF e
  <2> QED BY <1>0, <2>1, <2>2
<1>8. \A k \in a .. b : \E r \in Chunks(a, b) : In(k, r)
  BY <1>1, <1>4
<1>9. \A r, s \in Chunks(a, b) : \A k \in Int : In(k, r) /\ In(k, s) => r = s
  BY <1>1, <1>6
<1> QED BY <1>1, <1>7, <1>8, <1>9

\* The greatest of a bounded set.
LEMMA GreatestNat ==
  ASSUME NEW N \in Nat, NEW T \in SUBSET (0 .. N), T # {}
  PROVE  \E x \in T : \A y \in T : y <= x
<1> DEFINE U == {N - y : y \in T}
<1>1. U \in SUBSET Nat /\ U # {}
  <2>1. \A y \in T : y \in 0 .. N /\ N - y \in Nat
    OBVIOUS
  <2> QED BY <2>1
<1>2. PICK u \in U : \A v \in U : u <= v
  BY <1>1, LeastNat
<1>3. PICK x \in T : u = N - x
  OBVIOUS
<1>4. \A y \in T : y <= x
  <2> TAKE y \in T
  <2>1. N - x <= N - y
    BY <1>2, <1>3
  <2> QED BY <2>1
<1> QED BY <1>4

\* The groups of a set of columns: intervals of it, of which every column is in
\* exactly one.
LEMMA GroupsAre ==
  ASSUME NEW N \in Nat, NEW C \in SUBSET (0 .. N)
  PROVE  /\ \A r \in Groups(C) : /\ r = <<r[1], r[2]>> /\ r[1] \in 0 .. N /\ r[2] \in 0 .. N
                                 /\ r[1] <= r[2] /\ r[1] .. r[2] \subseteq C
         /\ \A k \in C : \E r \in Groups(C) : In(k, r)
         /\ \A r, s \in Groups(C) : \A k \in Int : In(k, r) /\ In(k, s) => r = s
<1>1. ASSUME NEW r \in Groups(C)
      PROVE  /\ r = <<r[1], r[2]>> /\ r[1] \in 0 .. N /\ r[2] \in 0 .. N
             /\ r[1] <= r[2] /\ r[1] .. r[2] \subseteq C
             /\ r[1] - 1 \notin C /\ r[2] + 1 \notin C
  <2>1. /\ r \in C \X C /\ r[1] <= r[2] /\ r[1] .. r[2] \subseteq C
        /\ r[1] - 1 \notin C /\ r[2] + 1 \notin C
    BY DEF Groups
  <2>2. r = <<r[1], r[2]>> /\ r[1] \in C /\ r[2] \in C
    BY <2>1
  <2> QED BY <2>1, <2>2
<1>2. ASSUME NEW k \in C PROVE \E r \in Groups(C) : In(k, r)
  <2> DEFINE A == {x \in 0 .. k : x .. k \subseteq C}
             B == {x \in k .. N : k .. x \subseteq C}
  <2>0. k \in 0 .. N /\ k .. k = {k}
    OBVIOUS
  <2>1. A \in SUBSET Nat /\ k \in A
    BY <2>0
  <2>2. PICK a \in A : \A y \in A : a <= y
    BY <2>1, LeastNat
  <2>3. B \in SUBSET (0 .. N) /\ k \in B
    BY <2>0
  <2>4. PICK b \in B : \A y \in B : y <= b
    BY <2>3, GreatestNat
  <2>5. a \in 0 .. k /\ b \in k .. N /\ a .. k \subseteq C /\ k .. b \subseteq C
    OBVIOUS
  <2>6. a - 1 \notin C
    <3> SUFFICES ASSUME a - 1 \in C PROVE FALSE
      OBVIOUS
    <3>1. a - 1 \in 0 .. k /\ (a - 1) .. k \subseteq C
      BY <2>5
    <3> QED BY <2>2, <2>5, <3>1
  <2>7. b + 1 \notin C
    <3> SUFFICES ASSUME b + 1 \in C PROVE FALSE
      OBVIOUS
    <3>1. b + 1 \in k .. N /\ k .. (b + 1) \subseteq C
      BY <2>5
    <3> QED BY <2>4, <2>5, <3>1
  <2>8. a .. b \subseteq C /\ a <= b /\ a \in C /\ b \in C
    BY <2>0, <2>5
  <2>9. <<a, b>> \in Groups(C)
    BY <2>6, <2>7, <2>8 DEF Groups
  <2> QED BY <2>0, <2>5, <2>9 DEF In
<1>3. ASSUME NEW r \in Groups(C), NEW s \in Groups(C), NEW k \in Int, In(k, r), In(k, s)
      PROVE  r = s
  <2>1. /\ r[1] \in 0 .. N /\ r[2] \in 0 .. N /\ s[1] \in 0 .. N /\ s[2] \in 0 .. N
        /\ r[1] <= k /\ k <= r[2] /\ s[1] <= k /\ k <= s[2]
    BY <1>1, <1>3 DEF In
  <2>2. ~(r[1] < s[1])
    <3> SUFFICES ASSUME r[1] < s[1] PROVE FALSE
      OBVIOUS
    <3>1. s[1] - 1 \in r[1] .. r[2]
      BY <2>1
    <3> QED BY <1>1, <3>1
  <2>3. ~(s[1] < r[1])
    <3> SUFFICES ASSUME s[1] < r[1] PROVE FALSE
      OBVIOUS
    <3>1. r[1] - 1 \in s[1] .. s[2]
      BY <2>1
    <3> QED BY <1>1, <3>1
  <2>4. ~(r[2] < s[2])
    <3> SUFFICES ASSUME r[2] < s[2] PROVE FALSE
      OBVIOUS
    <3>1. r[2] + 1 \in s[1] .. s[2]
      BY <2>1
    <3> QED BY <1>1, <3>1
  <2>5. ~(s[2] < r[2])
    <3> SUFFICES ASSUME s[2] < r[2] PROVE FALSE
      OBVIOUS
    <3>1. s[2] + 1 \in r[1] .. r[2]
      BY <2>1
    <3> QED BY <1>1, <3>1
  <2>6. r[1] = s[1] /\ r[2] = s[2]
    BY <2>1, <2>2, <2>3, <2>4, <2>5
  <2> QED BY <1>1, <2>6
<1> QED BY <1>1, <1>2, <1>3

\* The runs of a column.
LEMMA ColumnRunsAre ==
  ASSUME NEW S, NEW g, Fits(g), NEW tx
  PROVE  LET R == ColumnRuns(S, g, tx) IN
         /\ \A q \in R : /\ q = <<q[1], q[2]>> /\ q[1] \in Nat /\ q[2] \in Nat /\ q[2] < g.tilesY
                         /\ Run(S, tx, q)
         /\ \A k \in 0 .. g.tilesY - 1 : <<tx, k>> \in S => \E q \in R : In(k, q)
         /\ \A q, u \in R : \A k \in Int : In(k, q) /\ In(k, u) => q = u
<1> DEFINE r == RowsLooked(S, g, tx)[g.tilesY]
           R == ColumnRuns(S, g, tx)
<1>0. g.tilesY \in Nat
  BY DEF Fits, GridRecord
<1>1. RowsInv(S, tx, g.tilesY, r)
  <2>1. g.tilesY \in 0 .. g.tilesY
    BY <1>0
  <2> HIDE DEF r
  <2> QED BY <1>0, <2>1, RowsHold DEF r
<1>2. R = r.runs \cup (IF r.start = NoRow THEN {} ELSE {<<r.start, r.last>>})
  BY DEF ColumnRuns, Closed
<1> HIDE DEF r, R
<1>3. /\ r.start \in Int /\ r.last \in Int
      /\ \A q \in r.runs : q = <<q[1], q[2]>> /\ q[1] \in Int /\ q[2] \in Int
  BY <1>1 DEF RowsInv
<1>4. /\ \A q \in r.runs : 0 <= q[1] /\ q[2] < g.tilesY /\ Run(S, tx, q)
      /\ \A q, u \in r.runs : q = u \/ q[2] < u[1] \/ u[2] < q[1]
      /\ \A k \in 0 .. g.tilesY - 1 : <<tx, k>> \in S =>
           \/ r.start # NoRow /\ r.start <= k /\ k <= r.last
           \/ \E q \in r.runs : In(k, q)
  BY <1>1 DEF RowsInv
<1>5. r.start # NoRow =>
        /\ 0 <= r.start /\ r.last < g.tilesY /\ Run(S, tx, <<r.start, r.last>>)
        /\ \A q \in r.runs : q[2] < r.start
  BY <1>1 DEF RowsInv
<1>6. \A q : Run(S, tx, q) => q[1] <= q[2]
  BY DEF Run
<1>7. ASSUME NEW q \in R
      PROVE  /\ q = <<q[1], q[2]>> /\ q[1] \in Nat /\ q[2] \in Nat /\ q[2] < g.tilesY
             /\ Run(S, tx, q)
  BY <1>2, <1>3, <1>4, <1>5, <1>6
<1>8. \A k \in 0 .. g.tilesY - 1 : <<tx, k>> \in S => \E q \in R : In(k, q)
  <2> TAKE k \in 0 .. g.tilesY - 1
  <2> HAVE <<tx, k>> \in S
  <2>1. CASE \E q \in r.runs : In(k, q)
    BY <1>2, <2>1
  <2>2. CASE r.start # NoRow /\ r.start <= k /\ k <= r.last
    <3>1. <<r.start, r.last>> \in R /\ In(k, <<r.start, r.last>>)
      BY <1>2, <2>2 DEF In
    <3> QED BY <3>1
  <2> QED BY <1>4, <2>1, <2>2
<1>9. \A q, u \in R : \A k \in Int : In(k, q) /\ In(k, u) => q = u
  <2>1. \A q, u \in R : q = u \/ q[2] < u[1] \/ u[2] < q[1]
    BY <1>2, <1>4, <1>5
  <2> QED BY <1>7, <2>1 DEF In
<1> QED BY <1>7, <1>8, <1>9 DEF R

-----------------------------------------------------------------------------
(* Tiles. *)

\* The columns of which q is a run.
Having(S, g, q) == {x \in 0 .. g.tilesX - 1 : q \in ColumnRuns(S, g, x)}

\* Where a tile comes from: columns a .. b are a chunk of a group of the columns
\* that have a run, rows c .. d a chunk of that run.
Piece(S, g, q, gr, h, v) ==
  /\ gr \in Groups(Having(S, g, q))
  /\ h \in Chunks(gr[1], gr[2])
  /\ v \in Chunks(q[1], q[2])

\* The rectangle of a chunk of columns and a chunk of rows.
TileOf(g, h, v) == Rect(g, h[1], h[2], v[1], v[2])

\* A column with a run of changed cells has its first and last cell changed.
LEMMA HavingAre ==
  ASSUME NEW g, Fits(g), NEW S \in SUBSET CellsOf(g), NEW q, NEW x, q \in ColumnRuns(S, g, x)
  PROVE  x \in Having(S, g, q) /\ <<x, q[1]>> \in S /\ <<x, q[2]>> \in S
<1>1. <<x, q[1]>> \in S /\ <<x, q[2]>> \in S
  BY ColumnRunsAre DEF Run
<1>2. x \in 0 .. g.tilesX - 1
  BY <1>1 DEF CellsOf
<1> QED BY <1>1, <1>2 DEF Having

\* merge_tiles yields exactly the rectangles of the pieces.
LEMMA MergeAre ==
  ASSUME NEW g, Fits(g), NEW S \in SUBSET CellsOf(g), NEW t
  PROVE  t \in Merge(S, g) <=> \E q, gr, h, v : Piece(S, g, q, gr, h, v) /\ t = TileOf(g, h, v)
<1> DEFINE runs        == UNION {{tx} \X ColumnRuns(S, g, tx) : tx \in {c[1] : c \in S}}
           having(run) == {r[1] : r \in {q \in runs : q[2] = run}}
           pieces      == UNION {UNION {Chunks(gr[1], gr[2]) \X Chunks(run[1], run[2]) :
                                  gr \in Groups(having(run))} :
                           run \in {r[2] : r \in runs}}
<1>1. Merge(S, g) = {Rect(g, p[1][1], p[1][2], p[2][1], p[2][2]) : p \in pieces}
  BY DEF Merge
<1>2. \A x : \A q \in ColumnRuns(S, g, x) : <<x, q>> \in runs
  <2> TAKE x
  <2> TAKE q \in ColumnRuns(S, g, x)
  <2>1. <<x, q[1]>> \in S
    BY HavingAre
  <2>2. x \in {c[1] : c \in S}
    BY <2>1
  <2>3. <<x, q>> \in {x} \X ColumnRuns(S, g, x)
    OBVIOUS
  <2> QED BY <2>2, <2>3
<1>3. \A r \in runs : r = <<r[1], r[2]>> /\ r[2] \in ColumnRuns(S, g, r[1])
  OBVIOUS
<1> HIDE DEF runs
<1>4. ASSUME NEW q PROVE having(q) = Having(S, g, q)
  <2>1. ASSUME NEW x \in having(q) PROVE x \in Having(S, g, q)
    <3>1. PICK r \in runs : r[2] = q /\ x = r[1]
      BY <2>1
    <3>2. q \in ColumnRuns(S, g, x)
      BY <1>3, <3>1
    <3> QED BY <3>2, HavingAre
  <2>2. ASSUME NEW x \in Having(S, g, q) PROVE x \in having(q)
    <3>1. <<x, q>> \in runs
      BY <1>2, <2>2 DEF Having
    <3>2. <<x, q>>[2] = q /\ <<x, q>>[1] = x
      OBVIOUS
    <3> QED BY <3>1, <3>2
  <2> QED BY <2>1, <2>2
<1>5. ASSUME t \in Merge(S, g)
      PROVE  \E q, gr, h, v : Piece(S, g, q, gr, h, v) /\ t = TileOf(g, h, v)
  <2>1. PICK p \in pieces : t = Rect(g, p[1][1], p[1][2], p[2][1], p[2][2])
    BY <1>1, <1>5
  <2> HIDE DEF having
  <2>2. PICK q \in {r[2] : r \in runs} :
          p \in UNION {Chunks(gr[1], gr[2]) \X Chunks(q[1], q[2]) : gr \in Groups(having(q))}
    OBVIOUS
  <2>3. PICK gr \in Groups(having(q)) : p \in Chunks(gr[1], gr[2]) \X Chunks(q[1], q[2])
    BY <2>2
  <2>4. p[1] \in Chunks(gr[1], gr[2]) /\ p[2] \in Chunks(q[1], q[2])
    BY <2>3
  <2>5. Piece(S, g, q, gr, p[1], p[2])
    BY <1>4, <2>3, <2>4 DEF Piece
  <2>6. t = TileOf(g, p[1], p[2])
    BY <2>1 DEF TileOf
  <2> QED BY <2>5, <2>6
<1>6. ASSUME NEW q, NEW gr, NEW h, NEW v, Piece(S, g, q, gr, h, v), t = TileOf(g, h, v)
      PROVE  t \in Merge(S, g)
  <2>1. gr \in Groups(having(q)) /\ h \in Chunks(gr[1], gr[2]) /\ v \in Chunks(q[1], q[2])
    BY <1>4, <1>6 DEF Piece
  <2>2. gr[1] \in having(q)
    <3>1. gr \in having(q) \X having(q)
      BY <2>1 DEF Groups
    <3> QED BY <3>1
  <2>3. q \in {r[2] : r \in runs}
    BY <2>2
  <2>4. <<h, v>> \in Chunks(gr[1], gr[2]) \X Chunks(q[1], q[2])
    BY <2>1
  <2> HIDE DEF having
  <2>5. <<h, v>> \in pieces
    BY <2>1, <2>3, <2>4
  <2> HIDE DEF pieces
  <2>6. TileOf(g, h, v) = Rect(g, <<h, v>>[1][1], <<h, v>>[1][2], <<h, v>>[2][1], <<h, v>>[2][2])
    BY DEF TileOf
  <2> QED BY <1>1, <1>6, <2>5, <2>6
<1> QED BY <1>5, <1>6

\* A piece is a block of cells of the grid.
LEMMA PieceIsBlock ==
  ASSUME NEW g, Fits(g), NEW S \in SUBSET CellsOf(g), NEW q, NEW gr, NEW h, NEW v,
         Piece(S, g, q, gr, h, v)
  PROVE  /\ Block(g, h[1], h[2], v[1], v[2])
         /\ gr[1] <= h[1] /\ h[2] <= gr[2] /\ q[1] <= v[1] /\ v[2] <= q[2]
         /\ h[2] - h[1] + 1 <= MaxMerge /\ v[2] - v[1] + 1 <= MaxMerge
         /\ \A x \in h[1] .. h[2] : q \in ColumnRuns(S, g, x)
         /\ gr[1] \in Nat /\ gr[2] \in Nat
         /\ q[1] \in Nat /\ q[2] \in Nat /\ gr[1] <= gr[2] /\ q[1] <= q[2]
<1>1. /\ gr \in Groups(Having(S, g, q))
      /\ h \in Chunks(gr[1], gr[2])
      /\ v \in Chunks(q[1], q[2])
  BY DEF Piece
<1>2. g.tilesX - 1 \in Nat /\ g.tilesX \in Nat /\ g.tilesY \in Nat
  BY DEF Fits, GridRecord
<1>3. /\ gr[1] \in 0 .. g.tilesX - 1 /\ gr[2] \in 0 .. g.tilesX - 1
      /\ gr[1] <= gr[2] /\ gr[1] .. gr[2] \subseteq Having(S, g, q)
  <2>1. Having(S, g, q) \in SUBSET (0 .. g.tilesX - 1)
    BY DEF Having
  <2> QED BY <1>1, <1>2, <2>1, GroupsAre
<1>4. \A x \in gr[1] .. gr[2] : q \in ColumnRuns(S, g, x)
  BY <1>3 DEF Having
<1>5. gr[1] \in gr[1] .. gr[2]
  BY <1>3
<1>6. q[1] \in Nat /\ q[2] \in Nat /\ q[2] < g.tilesY /\ q[1] <= q[2]
  BY <1>4, <1>5, ColumnRunsAre DEF Run
<1>7. /\ h = <<h[1], h[2]>> /\ h[1] \in Int /\ h[2] \in Int
      /\ gr[1] <= h[1] /\ h[1] <= h[2] /\ h[2] <= gr[2]
      /\ h[2] - h[1] + 1 <= MaxMerge
  <2>1. gr[1] \in Int /\ gr[2] \in Int
    BY <1>3
  <2> QED BY <1>1, <2>1, ChunksAre
<1>8. /\ v = <<v[1], v[2]>> /\ v[1] \in Int /\ v[2] \in Int
      /\ q[1] <= v[1] /\ v[1] <= v[2] /\ v[2] <= q[2]
      /\ v[2] - v[1] + 1 <= MaxMerge
  <2>1. q[1] \in Int /\ q[2] \in Int
    BY <1>6
  <2> QED BY <1>1, <2>1, ChunksAre
<1>9. Block(g, h[1], h[2], v[1], v[2])
  BY <1>2, <1>3, <1>6, <1>7, <1>8 DEF Block
<1>10. \A x \in h[1] .. h[2] : x \in gr[1] .. gr[2]
  BY <1>3, <1>7
<1> QED BY <1>3, <1>4, <1>6, <1>7, <1>8, <1>9, <1>10

\* A chunk of rows shorter than the limit ends its run.
LEMMA ShortPieceEnds ==
  ASSUME NEW g, Fits(g), NEW S \in SUBSET CellsOf(g), NEW q, NEW gr, NEW h, NEW v,
         Piece(S, g, q, gr, h, v)
  PROVE  v[2] - v[1] + 1 < MaxMerge => v[2] = q[2]
<1>1. q[1] \in Nat /\ q[2] \in Nat
  BY PieceIsBlock
<1>2. v \in Chunks(q[1], q[2])
  BY DEF Piece
<1> QED BY <1>1, <1>2, ChunksAre

\* A tile of the merge covers whole cells: columns a .. b, rows c .. d, of a run q
\* all those columns have.
LEMMA TileIsBlock ==
  ASSUME NEW g, Fits(g), NEW S \in SUBSET CellsOf(g), NEW t \in Merge(S, g)
  PROVE  \E q, gr, h, v :
           /\ Piece(S, g, q, gr, h, v) /\ t = TileOf(g, h, v)
           /\ Covered(g, t) = (h[1] .. h[2]) \X (v[1] .. v[2])
           /\ Representative(g, t) = <<h[1], v[1]>>
<1>1. PICK q, gr, h, v : Piece(S, g, q, gr, h, v) /\ t = TileOf(g, h, v)
  BY MergeAre
<1>2. Block(g, h[1], h[2], v[1], v[2])
  BY <1>1, PieceIsBlock
<1>3. /\ Covered(g, t) = (h[1] .. h[2]) \X (v[1] .. v[2])
      /\ Representative(g, t) = <<h[1], v[1]>>
  BY <1>1, <1>2, CoveredIsBlock DEF TileOf
<1> QED BY <1>1, <1>3

\* Every changed cell is in a tile.
LEMMA ChangedIsCovered ==
  ASSUME NEW g, Fits(g), NEW S \in SUBSET CellsOf(g), NEW c \in S
  PROVE  \E t \in Merge(S, g) : c \in Covered(g, t)
<1>1. c = <<c[1], c[2]>> /\ c[1] \in 0 .. g.tilesX - 1 /\ c[2] \in 0 .. g.tilesY - 1
  BY DEF CellsOf
<1>2. <<c[1], c[2]>> \in S
  BY <1>1
<1>3. PICK q \in ColumnRuns(S, g, c[1]) : In(c[2], q)
  <2>1. \A k \in 0 .. g.tilesY - 1 : <<c[1], k>> \in S => \E q \in ColumnRuns(S, g, c[1]) : In(k, q)
    BY ColumnRunsAre
  <2> QED BY <1>1, <1>2, <2>1
<1>4. c[1] \in Having(S, g, q)
  BY <1>3, HavingAre
<1>5. q[1] \in Nat /\ q[2] \in Nat
  BY <1>3, ColumnRunsAre
<1>6. PICK gr \in Groups(Having(S, g, q)) : In(c[1], gr)
  <2>1. Having(S, g, q) \in SUBSET (0 .. g.tilesX - 1) /\ g.tilesX - 1 \in Nat
    BY DEF Having, Fits, GridRecord
  <2> QED BY <1>4, <2>1, GroupsAre
<1>7. gr[1] \in Nat /\ gr[2] \in Nat
  <2>1. Having(S, g, q) \in SUBSET (0 .. g.tilesX - 1) /\ g.tilesX - 1 \in Nat
    BY DEF Having, Fits, GridRecord
  <2> QED BY <1>6, <2>1, GroupsAre
<1>8. PICK h \in Chunks(gr[1], gr[2]) : In(c[1], h)
  <2>1. gr[1] \in Int /\ gr[2] \in Int /\ c[1] \in gr[1] .. gr[2]
    BY <1>1, <1>6, <1>7 DEF In
  <2> QED BY <2>1, ChunksAre
<1>9. PICK v \in Chunks(q[1], q[2]) : In(c[2], v)
  <2>1. q[1] \in Int /\ q[2] \in Int /\ c[2] \in q[1] .. q[2]
    BY <1>1, <1>3, <1>5 DEF In
  <2> QED BY <2>1, ChunksAre
<1>10. Piece(S, g, q, gr, h, v)
  BY <1>6, <1>8, <1>9 DEF Piece
<1>11. TileOf(g, h, v) \in Merge(S, g)
  BY <1>10, MergeAre
<1>12. Block(g, h[1], h[2], v[1], v[2])
  BY <1>10, PieceIsBlock
<1>13. Covered(g, TileOf(g, h, v)) = (h[1] .. h[2]) \X (v[1] .. v[2])
  BY <1>12, CoveredIsBlock DEF TileOf
<1>14. c[1] \in h[1] .. h[2] /\ c[2] \in v[1] .. v[2]
  BY <1>1, <1>8, <1>9, <1>12 DEF In, Block
<1>15. c \in (h[1] .. h[2]) \X (v[1] .. v[2])
  BY <1>1, <1>14
<1> QED BY <1>11, <1>13, <1>15

\* No cell is in two tiles.
LEMMA TilesAreDisjoint ==
  ASSUME NEW g, Fits(g), NEW S \in SUBSET CellsOf(g), NEW t \in Merge(S, g), NEW u \in Merge(S, g),
         NEW c, c \in Covered(g, t), c \in Covered(g, u)
  PROVE  t = u
<1>1. PICK q, gr, h, v :
           /\ Piece(S, g, q, gr, h, v) /\ t = TileOf(g, h, v)
           /\ Covered(g, t) = (h[1] .. h[2]) \X (v[1] .. v[2])
  BY TileIsBlock
<1>2. PICK q2, gr2, h2, v2 :
           /\ Piece(S, g, q2, gr2, h2, v2) /\ u = TileOf(g, h2, v2)
           /\ Covered(g, u) = (h2[1] .. h2[2]) \X (v2[1] .. v2[2])
  BY TileIsBlock
<1> DEFINE x == c[1]
           y == c[2]
<1>3. x \in h[1] .. h[2] /\ x \in h2[1] .. h2[2] /\ y \in v[1] .. v[2] /\ y \in v2[1] .. v2[2]
  BY <1>1, <1>2
<1>4. /\ h[1] \in Nat /\ h[2] \in Nat /\ v[1] \in Nat /\ v[2] \in Nat
      /\ gr[1] <= h[1] /\ h[2] <= gr[2] /\ q[1] <= v[1] /\ v[2] <= q[2]
      /\ gr[1] \in Nat /\ gr[2] \in Nat /\ q[1] \in Nat /\ q[2] \in Nat
      /\ q \in ColumnRuns(S, g, x)
  BY <1>1, <1>3, PieceIsBlock DEF Block
<1>5. /\ h2[1] \in Nat /\ h2[2] \in Nat /\ v2[1] \in Nat /\ v2[2] \in Nat
      /\ gr2[1] <= h2[1] /\ h2[2] <= gr2[2] /\ q2[1] <= v2[1] /\ v2[2] <= q2[2]
      /\ gr2[1] \in Nat /\ gr2[2] \in Nat /\ q2[1] \in Nat /\ q2[2] \in Nat
      /\ q2 \in ColumnRuns(S, g, x)
  BY <1>2, <1>3, PieceIsBlock DEF Block
<1> HIDE DEF x, y
<1>6. /\ x \in Int /\ y \in Int /\ In(x, h) /\ In(x, h2) /\ In(y, v) /\ In(y, v2)
      /\ In(x, gr) /\ In(x, gr2) /\ In(y, q) /\ In(y, q2)
  BY <1>3, <1>4, <1>5 DEF In
<1>7. q = q2
  BY <1>4, <1>5, <1>6, ColumnRunsAre
<1>8. gr \in Groups(Having(S, g, q)) /\ gr2 \in Groups(Having(S, g, q))
      /\ h \in Chunks(gr[1], gr[2]) /\ h2 \in Chunks(gr2[1], gr2[2])
      /\ v \in Chunks(q[1], q[2]) /\ v2 \in Chunks(q[1], q[2])
  BY <1>1, <1>2, <1>7 DEF Piece
<1>9. gr = gr2
  <2>1. Having(S, g, q) \in SUBSET (0 .. g.tilesX - 1) /\ g.tilesX - 1 \in Nat
    BY DEF Having, Fits, GridRecord
  <2> QED BY <1>6, <1>8, <2>1, GroupsAre
<1>10. h = h2 /\ v = v2
  <2>1. gr[1] \in Int /\ gr[2] \in Int /\ q[1] \in Int /\ q[2] \in Int
    BY <1>4
  <2> QED BY <1>6, <1>8, <1>9, <2>1, ChunksAre
<1> QED BY <1>1, <1>2, <1>10

\* No tile covers more cells than the limit.
LEMMA TileIsSmall ==
  ASSUME NEW g, Fits(g), NEW S \in SUBSET CellsOf(g), NEW t \in Merge(S, g)
  PROVE  /\ IsFiniteSet(Covered(g, t))
         /\ Cardinality(Covered(g, t)) <= MaxMerge * MaxMerge
         /\ Representative(g, t) \in Covered(g, t)
         /\ Covered(g, t) \subseteq CellsOf(g)
<1>1. PICK q, gr, h, v :
           /\ Piece(S, g, q, gr, h, v)
           /\ Covered(g, t) = (h[1] .. h[2]) \X (v[1] .. v[2])
           /\ Representative(g, t) = <<h[1], v[1]>>
  BY TileIsBlock
<1>2. /\ h[1] \in Nat /\ h[2] \in Nat /\ v[1] \in Nat /\ v[2] \in Nat
      /\ h[1] <= h[2] /\ v[1] <= v[2] /\ h[2] < g.tilesX /\ v[2] < g.tilesY
      /\ h[2] - h[1] + 1 <= MaxMerge /\ v[2] - v[1] + 1 <= MaxMerge
  BY <1>1, PieceIsBlock DEF Block
<1> DEFINE m == h[2] - h[1] + 1
           n == v[2] - v[1] + 1
<1>3. /\ IsFiniteSet(h[1] .. h[2]) /\ Cardinality(h[1] .. h[2]) = m
      /\ IsFiniteSet(v[1] .. v[2]) /\ Cardinality(v[1] .. v[2]) = n
  <2>1. h[1] \in Int /\ h[2] \in Int /\ v[1] \in Int /\ v[2] \in Int /\ ~(h[1] > h[2]) /\ ~(v[1] > v[2])
    BY <1>2
  <2>2. \A i, j \in Int : /\ IsFiniteSet(i .. j)
                          /\ Cardinality(i .. j) = IF i > j THEN 0 ELSE j - i + 1
    BY FS_Interval
  <2>3. /\ IsFiniteSet(h[1] .. h[2]) /\ Cardinality(h[1] .. h[2]) = IF h[1] > h[2] THEN 0 ELSE m
        /\ IsFiniteSet(v[1] .. v[2]) /\ Cardinality(v[1] .. v[2]) = IF v[1] > v[2] THEN 0 ELSE n
    BY <2>1, <2>2
  <2> HIDE DEF m, n
  <2> QED BY <2>1, <2>3
<1>4. IsFiniteSet(Covered(g, t)) /\ Cardinality(Covered(g, t)) = m * n
  BY <1>1, <1>3, FS_Product, ZenonT(40)
<1>5. m \in Nat /\ n \in Nat /\ m <= MaxMerge /\ n <= MaxMerge /\ MaxMerge \in Nat
  BY <1>2, MergeAssumption
<1> HIDE DEF m, n
<1>6. m * n <= MaxMerge * n /\ n * MaxMerge <= MaxMerge * MaxMerge /\ n * MaxMerge = MaxMerge * n
  BY <1>5, TimesMonotone
<1>7. m * n <= MaxMerge * MaxMerge
  <2>1. m * n \in Nat /\ MaxMerge * n \in Nat /\ MaxMerge * MaxMerge \in Nat
    BY <1>5
  <2> QED BY <1>6, <2>1
<1>8. Representative(g, t) \in Covered(g, t)
  BY <1>1, <1>2
<1>9. Covered(g, t) \subseteq CellsOf(g)
  <2>1. g.tilesX \in Nat /\ g.tilesY \in Nat
    BY DEF Fits, GridRecord
  <2>2. h[1] .. h[2] \subseteq 0 .. g.tilesX - 1 /\ v[1] .. v[2] \subseteq 0 .. g.tilesY - 1
    BY <1>2, <2>1
  <2> QED BY <1>1, <2>2 DEF CellsOf
<1> QED BY <1>4, <1>7, <1>8, <1>9

\* A still cell in a tile is bridged.
LEMMA StillIsBridged ==
  ASSUME NEW g, Fits(g), NEW S \in SUBSET CellsOf(g), NEW t \in Merge(S, g),
         NEW c \in Covered(g, t) \ S
  PROVE  \E a, b \in {k \in 0 .. g.tilesY - 1 : <<c[1], k>> \in S} :
           a < c[2] /\ c[2] < b /\ b - a - 1 <= MergeGap + 1
<1>1. PICK q, gr, h, v :
           /\ Piece(S, g, q, gr, h, v)
           /\ Covered(g, t) = (h[1] .. h[2]) \X (v[1] .. v[2])
  BY TileIsBlock
<1>2. c = <<c[1], c[2]>> /\ c[1] \in h[1] .. h[2] /\ c[2] \in v[1] .. v[2]
  BY <1>1
<1>3. /\ v[1] \in Nat /\ v[2] \in Nat /\ q[1] \in Nat /\ q[2] \in Nat
      /\ q[1] <= v[1] /\ v[2] <= q[2] /\ q \in ColumnRuns(S, g, c[1])
  BY <1>1, <1>2, PieceIsBlock DEF Block
<1>4. Run(S, c[1], q) /\ q[2] < g.tilesY
  BY <1>3, ColumnRunsAre
<1>5. c[2] \in q[1] .. q[2] /\ <<c[1], c[2]>> \notin S
  BY <1>2, <1>3
<1>6. PICK a \in q[1] .. q[2], b \in q[1] .. q[2] :
          /\ <<c[1], a>> \in S /\ <<c[1], b>> \in S
          /\ a < c[2] /\ c[2] < b /\ b - a - 1 <= MergeGap + 1
  BY <1>4, <1>5 DEF Run
<1>7. \A k \in q[1] .. q[2] : k \in 0 .. g.tilesY - 1
  <2>1. g.tilesY \in Nat
    BY DEF Fits, GridRecord
  <2> QED BY <1>3, <1>4, <2>1
<1> QED BY <1>6, <1>7

\* A tile of one cell is a changed cell: only a limit of one row would let a
\* chunk be a bridged cell alone.
LEMMA SingleIsChanged ==
  ASSUME NEW g, Fits(g), NEW S \in SUBSET CellsOf(g), NEW t \in Merge(S, g),
         IsSingleCell(g, t), MaxMerge > 1
  PROVE  Representative(g, t) \in S /\ Covered(g, t) = {Representative(g, t)}
<1>1. PICK q, gr, h, v :
           /\ Piece(S, g, q, gr, h, v)
           /\ Covered(g, t) = (h[1] .. h[2]) \X (v[1] .. v[2])
           /\ Representative(g, t) = <<h[1], v[1]>>
  BY TileIsBlock
<1>2. /\ h[1] \in Nat /\ h[2] \in Nat /\ v[1] \in Nat /\ v[2] \in Nat
      /\ h[1] <= h[2] /\ v[1] <= v[2]
      /\ q \in ColumnRuns(S, g, h[1])
  <2>1. Block(g, h[1], h[2], v[1], v[2])
    BY <1>1, PieceIsBlock
  <2>2. h[1] \in h[1] .. h[2]
    BY <2>1 DEF Block
  <2>3. q \in ColumnRuns(S, g, h[1])
    BY <1>1, <2>2, PieceIsBlock
  <2> QED BY <2>1, <2>3 DEF Block
<1>3. PICK e : Covered(g, t) = {e}
  BY FS_Singleton, TileIsSmall DEF IsSingleCell
<1>4. <<h[1], v[1]>> = e /\ <<h[2], v[2]>> = e
  <2>1. h[1] \in h[1] .. h[2] /\ h[2] \in h[1] .. h[2] /\ v[1] \in v[1] .. v[2] /\ v[2] \in v[1] .. v[2]
    BY <1>2
  <2>2. <<h[1], v[1]>> \in Covered(g, t) /\ <<h[2], v[2]>> \in Covered(g, t)
    BY <1>1, <2>1
  <2> QED BY <1>3, <2>2
<1>5. h[1] = h[2] /\ v[1] = v[2]
  BY <1>4
<1>6. v[2] - v[1] + 1 < MaxMerge
  BY <1>2, <1>5, MergeAssumption
<1>7. v[2] = q[2]
  BY <1>1, <1>6, ShortPieceEnds
<1>8. <<h[1], v[1]>> \in S
  BY <1>2, <1>5, <1>7, HavingAre
<1> QED BY <1>1, <1>3, <1>4, <1>8

-----------------------------------------------------------------------------
\* The cell of a pixel.
CellAt(g, x, y) == <<Least(x \div g.tw, g.tilesX - 1), y \div g.th>>

\* A block shows a pixel if it holds the pixel's cell.
LEMMA BlockShows ==
  ASSUME NEW g, Fits(g), NEW a, NEW b, NEW c, NEW d, Block(g, a, b, c, d),
         NEW x \in 0 .. g.fw - 1, NEW y \in 0 .. g.fh - 1
  PROVE  /\ CellAt(g, x, y) \in CellsOf(g)
         /\ Shows(Rect(g, a, b, c, d), x, y) <=> CellAt(g, x, y) \in (a .. b) \X (c .. d)
<1> DEFINE i == Least(x \div g.tw, g.tilesX - 1)
           j == y \div g.th
<1> USE DEF Block
<1>0. /\ g.tw \in Nat \ {0} /\ g.th \in Nat \ {0} /\ g.tilesX \in Nat \ {0} /\ g.tilesY \in Nat \ {0}
      /\ g.fw \in Nat /\ g.fh \in Nat /\ x \in Nat /\ y \in Nat /\ x < g.fw /\ y < g.fh
  BY DEF Fits, GridRecord
<1>1. i \in Nat /\ i < g.tilesX /\ i * g.tw <= x /\ x < XEnd(g, i)
  <2> DEFINE q == x \div g.tw
  <2>1. q \in Nat /\ q * g.tw <= x /\ x < q * g.tw + g.tw
    BY <1>0, DivFact
  <2> HIDE DEF q
  <2>2. CASE q < g.tilesX - 1
    <3>1. i = q
      BY <2>2 DEF Least, q
    <3>2. XEnd(g, q) = q * g.tw + g.tw
      BY <1>0, <2>1, <2>2, ColumnPixels
    <3> QED BY <1>0, <2>1, <2>2, <3>1, <3>2
  <2>3. CASE ~(q < g.tilesX - 1)
    <3>1. i = g.tilesX - 1
      BY <2>3 DEF Least, q
    <3> HIDE DEF i
    <3>2. i \in Nat /\ i < g.tilesX /\ i + 1 = g.tilesX /\ i <= q
      BY <1>0, <2>1, <2>3, <3>1
    <3>3. XEnd(g, i) = g.fw
      BY <3>2, ColumnPixels
    <3>4. i * g.tw <= q * g.tw
      BY <1>0, <2>1, <3>2, TimesMonotone
    <3>5. i * g.tw \in Nat /\ q * g.tw \in Nat
      BY <1>0, <2>1, <3>2
    <3> QED BY <1>0, <2>1, <3>2, <3>3, <3>4, <3>5
  <2> QED BY <2>2, <2>3
<1>2. j \in Nat /\ j < g.tilesY /\ j * g.th <= y /\ y < YEnd(g, j)
  <2>1. j \in Nat /\ j * g.th <= y /\ y < j * g.th + g.th
    BY <1>0, DivFact
  <2> HIDE DEF j
  <2>2. j < g.tilesY
    <3> SUFFICES ASSUME g.tilesY <= j PROVE FALSE
      BY <1>0, <2>1
    <3>1. g.tilesY * g.th <= j * g.th /\ g.fh <= g.tilesY * g.th
      BY <1>0, <2>1, TimesMonotone DEF Fits
    <3>2. g.tilesY * g.th \in Nat /\ j * g.th \in Nat
      BY <1>0, <2>1
    <3> QED BY <1>0, <2>1, <3>1, <3>2
  <2>3. ASSUME j + 1 < g.tilesY PROVE j * g.th <= y /\ y < YEnd(g, j)
    <3>1. YEnd(g, j) = j * g.th + g.th
      BY <2>1, <2>2, <2>3, RowPixels
    <3> QED BY <2>1, <2>2, <3>1
  <2>4. ASSUME j + 1 = g.tilesY PROVE j * g.th <= y /\ y < YEnd(g, j)
    <3>1. YEnd(g, j) = g.fh
      BY <2>1, <2>2, <2>4, RowPixels
    <3> QED BY <1>0, <2>1, <2>2, <3>1
  <2>5. g.tilesY \in Nat /\ (j + 1 < g.tilesY \/ j + 1 = g.tilesY)
    BY <1>0, <2>1, <2>2
  <2>6. j * g.th <= y /\ y < YEnd(g, j)
    BY <2>3, <2>4, <2>5
  <2> QED BY <2>1, <2>2, <2>6
<1>3. CellAt(g, x, y) = <<i, j>>
  BY DEF CellAt
<1> HIDE DEF i, j
<1>4. CellAt(g, x, y) \in CellsOf(g)
  BY <1>0, <1>1, <1>2, <1>3 DEF CellsOf
<1> DEFINE t == Rect(g, a, b, c, d)
<1>5. /\ t.x = a * g.tw /\ t.y = c * g.th
      /\ t.x + t.w - 1 = XEnd(g, b) - 1 /\ t.y + t.h - 1 = YEnd(g, d) - 1
      /\ a * g.tw \in Nat /\ c * g.th \in Nat /\ XEnd(g, b) \in Nat /\ YEnd(g, d) \in Nat
  <2>1. /\ a * g.tw \in Nat /\ c * g.th \in Nat /\ XEnd(g, b) \in Nat /\ YEnd(g, d) \in Nat
    BY <1>0, ColumnPixels, RowPixels
  <2>2. t.w = XEnd(g, b) - a * g.tw /\ t.h = YEnd(g, d) - c * g.th /\ t.x = a * g.tw /\ t.y = c * g.th
    BY DEF Rect
  <2> HIDE DEF t
  <2> QED BY <2>1, <2>2
<1> HIDE DEF t
<1>6. (a * g.tw <= x) <=> a <= i
  <2>1. ASSUME a <= i PROVE a * g.tw <= x
    <3>1. a * g.tw <= i * g.tw /\ i * g.tw \in Nat /\ a * g.tw \in Nat
      BY <1>0, <1>1, <2>1, TimesMonotone
    <3> QED BY <1>0, <1>1, <3>1
  <2>2. ASSUME i < a PROVE x < a * g.tw
    <3>1. i + 1 < g.tilesX /\ XEnd(g, i) = i * g.tw + g.tw
      BY <1>0, <1>1, <2>2, ColumnPixels
    <3>2. (i + 1) * g.tw <= a * g.tw /\ (i + 1) * g.tw = i * g.tw + g.tw /\ a * g.tw \in Nat
      BY <1>0, <1>1, <2>2, TimesMonotone, Successor
    <3>3. i * g.tw \in Nat
      BY <1>0, <1>1
    <3> QED BY <1>0, <1>1, <3>1, <3>2, <3>3
  <2>3. a * g.tw \in Nat
    BY <1>0
  <2> QED BY <1>0, <1>1, <2>1, <2>2, <2>3
<1>7. (x <= XEnd(g, b) - 1) <=> i <= b
  <2>1. ASSUME i <= b PROVE x < XEnd(g, b)
    <3>1. CASE i = b
      BY <1>1, <3>1
    <3>2. CASE i < b
      <4>1. XEnd(g, i) = i * g.tw + g.tw
        BY <1>0, <1>1, <3>2, ColumnPixels
      <4>2. (i + 1) * g.tw <= b * g.tw /\ (i + 1) * g.tw = i * g.tw + g.tw
        BY <1>0, <1>1, <3>2, TimesMonotone, Successor
      <4>3. b * g.tw <= XEnd(g, b) /\ b * g.tw \in Nat /\ i * g.tw \in Nat
        BY <1>0, <1>1, ColumnPixels
      <4> QED BY <1>0, <1>1, <1>5, <4>1, <4>2, <4>3
    <3> QED BY <1>1, <2>1, <3>1, <3>2
  <2>2. ASSUME b < i PROVE XEnd(g, b) <= x
    <3>1. b + 1 < g.tilesX /\ XEnd(g, b) = b * g.tw + g.tw
      BY <1>0, <1>1, <2>2, ColumnPixels
    <3>2. (b + 1) * g.tw <= i * g.tw /\ (b + 1) * g.tw = b * g.tw + g.tw
      BY <1>0, <1>1, <2>2, TimesMonotone, Successor
    <3>3. i * g.tw \in Nat /\ b * g.tw \in Nat
      BY <1>0, <1>1
    <3> QED BY <1>0, <1>1, <3>1, <3>2, <3>3
  <2> QED BY <1>0, <1>1, <1>5, <2>1, <2>2
<1>8. (c * g.th <= y) <=> c <= j
  <2>1. ASSUME c <= j PROVE c * g.th <= y
    <3>1. c * g.th <= j * g.th /\ j * g.th \in Nat /\ c * g.th \in Nat
      BY <1>0, <1>2, <2>1, TimesMonotone
    <3> QED BY <1>0, <1>2, <3>1
  <2>2. ASSUME j < c PROVE y < c * g.th
    <3>1. j + 1 < g.tilesY /\ YEnd(g, j) = j * g.th + g.th
      BY <1>0, <1>2, <2>2, RowPixels
    <3>2. (j + 1) * g.th <= c * g.th /\ (j + 1) * g.th = j * g.th + g.th /\ c * g.th \in Nat
      BY <1>0, <1>2, <2>2, TimesMonotone, Successor
    <3>3. j * g.th \in Nat
      BY <1>0, <1>2
    <3> QED BY <1>0, <1>2, <3>1, <3>2, <3>3
  <2>3. c * g.th \in Nat
    BY <1>0
  <2> QED BY <1>0, <1>2, <2>1, <2>2, <2>3
<1>9. (y <= YEnd(g, d) - 1) <=> j <= d
  <2>1. ASSUME j <= d PROVE y < YEnd(g, d)
    <3>1. CASE j = d
      BY <1>2, <3>1
    <3>2. CASE j < d
      <4>1. YEnd(g, j) = j * g.th + g.th
        BY <1>0, <1>2, <3>2, RowPixels
      <4>2. (j + 1) * g.th <= d * g.th /\ (j + 1) * g.th = j * g.th + g.th
        BY <1>0, <1>2, <3>2, TimesMonotone, Successor
      <4>3. d * g.th <= YEnd(g, d) /\ d * g.th \in Nat /\ j * g.th \in Nat
        BY <1>0, <1>2, RowPixels
      <4> QED BY <1>0, <1>2, <1>5, <4>1, <4>2, <4>3
    <3> QED BY <1>2, <2>1, <3>1, <3>2
  <2>2. ASSUME d < j PROVE YEnd(g, d) <= y
    <3>1. d + 1 < g.tilesY /\ YEnd(g, d) = d * g.th + g.th
      BY <1>0, <1>2, <2>2, RowPixels
    <3>2. (d + 1) * g.th <= j * g.th /\ (d + 1) * g.th = d * g.th + g.th
      BY <1>0, <1>2, <2>2, TimesMonotone, Successor
    <3>3. j * g.th \in Nat /\ d * g.th \in Nat
      BY <1>0, <1>2
    <3> QED BY <1>0, <1>2, <3>1, <3>2, <3>3
  <2> QED BY <1>0, <1>2, <1>5, <2>1, <2>2
<1>10. Shows(t, x, y) <=> (i \in a .. b /\ j \in c .. d)
  BY <1>0, <1>1, <1>2, <1>5, <1>6, <1>7, <1>8, <1>9 DEF Shows
<1>11. <<i, j>> \in (a .. b) \X (c .. d) <=> (i \in a .. b /\ j \in c .. d)
  OBVIOUS
<1> QED BY <1>3, <1>4, <1>10, <1>11 DEF t

=============================================================================
