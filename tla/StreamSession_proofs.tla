------------------------ MODULE StreamSession_proofs ------------------------
(***************************************************************************)
(* Theorems about one streaming session, for every set of resolutions,     *)
(* every tile grid, every queue capacity and any number of frames.         *)
(*                                                                         *)
(* NoCellForgotten and EpochNamesGrid are not inductive: what an           *)
(* invalidation arms must still be unsent when a frame passes it by, which *)
(* rests on every cell being Consistent (DiffCell_proofs); and a report    *)
(* speaks of the current grid because the batch it came from did, because  *)
(* the frame before it did, and because no epoch runs ahead of the         *)
(* pipeline's.                                                             *)
(***************************************************************************)
EXTENDS StreamSession, Tiles_proofs, SequenceTheorems

CellsConsistent == \A c \in DOMAIN det : Consistent(det[c])

\* What travels under an epoch is a set of cells of that epoch's grid, and no
\* epoch is newer than the pipeline's.
Named(f) ==
  /\ f.epoch <= epoch
  /\ f.epoch = epoch => f.grid = screenSize
  /\ f.cells \subseteq Grid[f.grid]

TagsNameGrid ==
  /\ \A i \in 1 .. Len(out) : Named(out[i])
  /\ \A i \in 1 .. Len(encoded) : Named(encoded[i])
  /\ \A b \in inFlight : Named(b)
  /\ \A l \in lost : /\ l.epoch <= epoch
                     /\ l.epoch = epoch => l.cells \subseteq DOMAIN det

\* Before the first frame nothing travels.
NothingBeforeFrame ==
  screenSize = NoSize => out = <<>> /\ encoded = <<>> /\ inFlight = {} /\ lost = {}

IInv ==
  /\ TypeOK
  /\ CellsConsistent
  /\ TagsNameGrid
  /\ NothingBeforeFrame
  /\ NoCellForgotten

-----------------------------------------------------------------------------
\* The grid's cells are cells.
LEMMA GridType == \A size \in Size : Grid[size] \subseteq Cell /\ size # NoSize
BY SessionAssumption, NoSizeAssumption

\* A session that has just begun.
LEMMA InitIInv == Init => IInv
<1> SUFFICES ASSUME Init PROVE IInv
  OBVIOUS
<1>1. DOMAIN det = {} /\ det \in [{} -> CellState] /\ newest \in [{} -> Nat]
  BY DEF Init
<1>2. out \in Seq(EncodedFrame) /\ encoded \in Seq(EncodedFrame)
      /\ Len(out) = 0 /\ Len(encoded) = 0 /\ QueueCap >= 0
  BY SessionAssumption DEF Init
<1>3. count \in 0 .. MaxInterval
  BY MaxIntervalNat DEF Init
<1>4. TypeOK
  BY <1>1, <1>2, <1>3 DEF Init, TypeOK
<1>5. CellsConsistent /\ NoCellForgotten
  BY <1>1 DEF CellsConsistent, NoCellForgotten
<1>6. TagsNameGrid /\ NothingBeforeFrame
  BY <1>2 DEF Init, TagsNameGrid, NothingBeforeFrame
<1>7. QED
  BY <1>4, <1>5, <1>6 DEF IInv

-----------------------------------------------------------------------------
(* The processing thread. *)

\* Draining the reports: every reported cell is armed.
LEMMA DrainIInv == ASSUME IInv, Drain PROVE IInv'
<1>1. /\ pc = "drain" /\ pc' = "recv" /\ lost' = {} /\ det' = Invalidated
      /\ UNCHANGED <<screenSize, epoch, count, out, newest, produced, encoded,
                     open, nextSeq, inFlight, acks, acked>>
  BY DEF Drain, senderVars
<1>2. DOMAIN det' = DOMAIN det
  BY <1>1 DEF Invalidated
<1>3. ASSUME NEW c \in DOMAIN det
      PROVE  /\ det[c] \in CellState
             /\ det'[c] \in CellState
             /\ Consistent(det'[c])
             /\ det'[c] = det[c] \/ det'[c].prev = NoHash
             /\ ReportedLost(c) => det'[c].prev = NoHash
  <2> DEFINE due == UNION {l.cells : l \in {x \in lost : x.epoch = epoch}}
  <2>1. det[c] \in CellState /\ Consistent(det[c])
    BY DEF IInv, TypeOK, CellsConsistent
  <2>2. det'[c] = IF c \in due THEN ForceRedetect(det[c]) ELSE det[c]
    BY <1>1 DEF Invalidated
  <2>3. /\ ForceRedetect(det[c]) \in CellState
        /\ Consistent(ForceRedetect(det[c]))
        /\ ForceRedetect(det[c]).prev = NoHash
    BY <2>1, ForceRedetectType, ForceRedetectConsistent
  <2>4. ReportedLost(c) => c \in due
    BY DEF ReportedLost
  <2> HIDE DEF due
  <2>5. QED
    BY <2>1, <2>2, <2>3, <2>4
<1>4. TypeOK'
  <2>1. det' \in [IF screenSize = NoSize THEN {} ELSE Grid[screenSize] -> CellState]
    <3>1. det' = [c \in DOMAIN det |-> det'[c]]
      BY <1>1 DEF Invalidated
    <3>2. DOMAIN det = IF screenSize = NoSize THEN {} ELSE Grid[screenSize]
      BY DEF IInv, TypeOK
    <3>3. QED
      BY <1>3, <3>1, <3>2
  <2>2. QED
    BY <1>1, <1>2, <2>1 DEF IInv, TypeOK
<1>5. CellsConsistent'
  BY <1>2, <1>3 DEF CellsConsistent
<1>6. TagsNameGrid' /\ NothingBeforeFrame'
  BY <1>1 DEF IInv, TagsNameGrid, NothingBeforeFrame, Named
<1>7. NoCellForgotten'
  <2> SUFFICES ASSUME open', NEW c \in DOMAIN det
               PROVE  \/ newest'[c] \in acked'
                      \/ InHandover(c)'
                      \/ AwaitsAck(c)'
                      \/ Armed(c)'
                      \/ Swallowed(c)'
    BY <1>2 DEF NoCellForgotten
  <2>1. \/ newest[c] \in acked \/ InHandover(c) \/ AwaitsAck(c) \/ ReportedLost(c)
        \/ Armed(c) \/ Swallowed(c)
    BY <1>1 DEF IInv, NoCellForgotten
  <2>2. (InHandover(c) => InHandover(c)') /\ (AwaitsAck(c) => AwaitsAck(c)')
    BY <1>1 DEF InHandover, AwaitsAck, Carries
  <2>3. QED
    BY <1>1, <1>3, <2>1, <2>2 DEF Armed, Swallowed
<1>8. QED
  BY <1>4, <1>5, <1>6, <1>7 DEF IInv

\* One frame.  A cell whose re-send was due is covered by the frame or
\* swallowed; what travelled under this epoch still does, or the resolution
\* changed and every cell is covered.
LEMMA ProcessIInv ==
  ASSUME IInv, NEW size \in Size, NEW pix \in [Grid[size] -> Pixels],
         NEW dmg \in SUBSET Grid[size], NEW refresh \in BOOLEAN,
         NEW covered \in SUBSET Grid[size],
         Process(size, pix, dmg, refresh, covered)
  PROVE  IInv'
<1> DEFINE G       == Grid[size]
           resized == size # screenSize
           base    == IF resized THEN [c \in G |-> Blank]
                      ELSE IF refresh THEN [c \in G |->
                             IF det[c].dyn THEN ForceRedetect(det[c]) ELSE det[c]]
                      ELSE det
           n       == Saturate((IF resized THEN 0 ELSE count) + 1)
           sends(c) == Sends(base[c], resized, n, pix[c], c \notin dmg)
           new(c)  == Detected(base[c], resized, n, pix[c], c \notin dmg)
           changed == {c \in G : sends(c)}
           silent  == changed = {} /\ ~resized
           frame   == [header |-> IF resized THEN size ELSE NoSize,
                       cells  |-> covered,
                       epoch  |-> EpochAfter(size),
                       no     |-> produced + 1,
                       grid   |-> size]
<1>1. /\ pc = "recv"
      /\ changed \subseteq covered
      /\ changed = {} => covered = {}
      /\ screenSize' = size
      /\ epoch' = EpochAfter(size)
      /\ count' = n
      /\ det' = [c \in G |-> new(c)]
      /\ silent => pc' = "drain" /\ UNCHANGED <<out, newest, produced>>
      /\ ~silent => /\ pc' = "send"
                    /\ produced' = produced + 1
                    /\ out' = <<frame>>
                    /\ newest' = [c \in G |-> IF c \in covered THEN produced + 1
                                              ELSE newest[c]]
      /\ UNCHANGED <<encoded, lost, open, acks, nextSeq, inFlight, acked>>
  BY DEF Process, senderVars
<1>2. G \subseteq Cell /\ size # NoSize /\ screenSize \in Size \cup {NoSize}
  BY GridType DEF IInv, TypeOK
<1>3. n \in 0 .. MaxInterval
  <2>1. (IF resized THEN 0 ELSE count) + 1 \in Nat
    BY MaxIntervalNat DEF IInv, TypeOK
  <2>2. QED
    BY <2>1, SaturateType
<1>4. /\ epoch' \in Nat
      /\ ~resized => epoch' = epoch /\ DOMAIN det = G /\ det \in [G -> CellState]
                     /\ newest \in [G -> Nat]
      /\ resized /\ screenSize # NoSize => epoch < epoch'
      /\ resized /\ screenSize = NoSize => epoch' = epoch
      /\ epoch \in Nat /\ produced \in Nat
  BY <1>1, <1>2 DEF EpochAfter, IInv, TypeOK
<1>5. resized \in BOOLEAN
  OBVIOUS
<1>6. ASSUME NEW c \in G
      PROVE  /\ base[c] \in CellState
             /\ Ready(base[c], resized)
             /\ ~resized => /\ det[c].prev = NoHash => base[c].prev = NoHash
                            /\ ~det[c].sent => ~base[c].sent
  <2>1. CASE resized
    BY <2>1, BlankType DEF Ready
  <2>2. CASE ~resized
    <3>1. det[c] \in CellState /\ Consistent(det[c])
      BY <1>4, <2>2 DEF IInv, CellsConsistent
    <3>2. /\ ForceRedetect(det[c]) \in CellState
          /\ Consistent(ForceRedetect(det[c]))
          /\ ForceRedetect(det[c]).prev = NoHash
          /\ ForceRedetect(det[c]).sent = FALSE
      BY <3>1, ForceRedetectType, ForceRedetectConsistent DEF ForceRedetect, CellState
    <3>3. base[c] = det[c] \/ base[c] = ForceRedetect(det[c])
      BY <2>2
    <3> HIDE DEF base
    <3>4. QED
      BY <2>2, <3>1, <3>2, <3>3 DEF Ready
  <2>3. QED
    BY <2>1, <2>2
<1>7. resized => changed = G /\ covered = G
  <2> SUFFICES ASSUME resized, NEW c \in G PROVE sends(c)
    BY <1>1
  <2>1. resized = TRUE
    OBVIOUS
  <2> HIDE DEF base, resized, n
  <2>2. base[c] \in CellState /\ pix[c] \in Pixels /\ (c \notin dmg) \in BOOLEAN
    BY <1>6
  <2>3. QED
    BY <1>3, <2>1, <2>2, FirstIsSent
<1> HIDE DEF base, n
<1>8. ASSUME NEW c \in G
      PROVE  /\ new(c) \in CellState
             /\ Consistent(new(c))
             /\ new(c).prev # NoHash
             /\ ~sends(c) => new(c).sent = base[c].sent
  <2> DEFINE m == base[c]
             p == pix[c]
             outside == c \notin dmg
  <2>1. m \in CellState /\ p \in Pixels /\ Ready(m, resized) /\ outside \in BOOLEAN
    BY <1>6
  <2>2. /\ new(c) = Detected(m, resized, n, p, outside)
        /\ sends(c) = Sends(m, resized, n, p, outside)
    OBVIOUS
  <2> HIDE DEF m, p, outside, new, resized, sends
  <2>3. new(c) \in CellState
    BY <1>3, <1>5, <2>1, <2>2, DetectedType
  <2>4. Consistent(new(c)) /\ new(c).prev # NoHash
    BY <1>3, <1>5, <2>1, <2>2, DetectedConsistent
  <2>5. ~sends(c) => new(c).sent = m.sent
    BY <1>3, <1>5, <2>1, <2>2, UnsentStays
  <2>6. QED
    BY <2>3, <2>4, <2>5 DEF m
<1> HIDE DEF new, sends
<1>9. out = <<>>
  BY <1>1 DEF IInv, TypeOK
<1>10. TypeOK'
  <2>1. det' \in [IF screenSize' = NoSize THEN {} ELSE Grid[screenSize'] -> CellState]
    BY <1>1, <1>2, <1>8
  <2>2. newest' \in [DOMAIN det' -> Nat]
    <3>1. CASE silent
      BY <1>1, <1>4, <3>1
    <3>2. CASE ~silent
      <4>1. ASSUME NEW c \in G PROVE (IF c \in covered THEN produced + 1 ELSE newest[c]) \in Nat
        BY <1>4, <1>7
      <4>2. QED
        BY <1>1, <3>2, <4>1
    <3>3. QED
      BY <3>1, <3>2
  <2>3. out' \in Seq(EncodedFrame) /\ Len(out') = IF pc' = "send" THEN 1 ELSE 0
    <3>1. frame \in EncodedFrame
      BY <1>1, <1>2, <1>4 DEF EncodedFrame
    <3> HIDE DEF frame
    <3>2. CASE silent
      <4>1. pc' = "drain" /\ out' = <<>>
        BY <1>1, <1>9, <3>2
      <4> HIDE DEF silent
      <4>2. QED
        BY <4>1
    <3>3. CASE ~silent
      <4>1. pc' = "send" /\ out' = <<frame>>
        BY <1>1, <3>3
      <4> HIDE DEF silent
      <4>2. QED
        BY <3>1, <4>1
    <3>4. QED
      BY <3>2, <3>3
  <2>4. pc' \in {"drain", "recv", "send", "done"} /\ produced' \in Nat
    BY <1>1, <1>4
  <2>5. QED
    BY <1>1, <1>3, <1>4, <2>1, <2>2, <2>3, <2>4 DEF IInv, TypeOK
<1>11. CellsConsistent'
  BY <1>1, <1>8 DEF CellsConsistent
<1>12. NothingBeforeFrame'
  BY <1>1, <1>2 DEF NothingBeforeFrame
<1>13. TagsNameGrid'
  <2>1. ASSUME NEW f, Named(f), f.epoch \in Nat, screenSize # NoSize
        PROVE  Named(f)'
    BY <1>1, <1>4, <2>1 DEF Named
  <2>2. ASSUME NEW i \in 1 .. Len(out') PROVE Named(out[i])'
    <3>1. i = 1 /\ out' = <<frame>>
      <4>1. out' = <<frame>>
        BY <1>1, <1>9, <2>2
      <4> HIDE DEF frame
      <4>2. QED
        BY <2>2, <4>1
    <3>2. frame.epoch = epoch' /\ frame.grid = size /\ frame.cells = covered
      BY <1>1
    <3>3. QED
      BY <1>1, <1>4, <3>1, <3>2 DEF Named
  <2>3. CASE screenSize = NoSize
    <3>1. encoded' = <<>> /\ inFlight' = {} /\ lost' = {}
      BY <1>1, <2>3 DEF IInv, NothingBeforeFrame
    <3>2. QED
      BY <2>2, <3>1 DEF TagsNameGrid
  <2>4. CASE screenSize # NoSize
    <3>1. ASSUME NEW i \in 1 .. Len(encoded') PROVE Named(encoded[i])'
      <4>1. i \in 1 .. Len(encoded) /\ encoded[i] \in EncodedFrame /\ Named(encoded[i])
        BY <1>1, <3>1 DEF IInv, TypeOK, TagsNameGrid
      <4>2. QED
        BY <1>1, <2>1, <2>4, <4>1 DEF EncodedFrame, Named
    <3>2. ASSUME NEW b \in inFlight' PROVE Named(b)'
      BY <1>1, <2>1, <2>4, <3>2 DEF IInv, TypeOK, TagsNameGrid, InFlight
    <3>3. ASSUME NEW l \in lost' PROVE /\ l.epoch <= epoch'
                                       /\ l.epoch = epoch' => l.cells \subseteq DOMAIN det'
      <4>1. l \in lost /\ l.epoch \in Nat /\ l.epoch <= epoch
            /\ (l.epoch = epoch => l.cells \subseteq DOMAIN det)
        BY <1>1, <3>3 DEF IInv, TypeOK, TagsNameGrid, LostCells
      <4>2. QED
        BY <1>1, <1>4, <2>4, <4>1
    <3>4. QED
      BY <2>2, <3>1, <3>2, <3>3 DEF TagsNameGrid
  <2>5. QED
    BY <2>3, <2>4
<1>14. NoCellForgotten'
  <2> SUFFICES ASSUME open, NEW c \in G
               PROVE  \/ newest'[c] \in acked'
                      \/ InHandover(c)'
                      \/ AwaitsAck(c)'
                      \/ ReportedLost(c)'
                      \/ Swallowed(c)'
    BY <1>1 DEF NoCellForgotten
  <2>1. CASE c \in covered
    <3>1. ~silent
      BY <1>1, <2>1
    <3>2. newest'[c] = produced + 1 /\ out' = <<frame>> /\ 1 \in 1 .. Len(out')
      BY <1>1, <2>1, <3>1
    <3>3. out'[1].no = newest'[c] /\ c \in out'[1].cells /\ out'[1].epoch = epoch'
      BY <1>1, <2>1, <3>2
    <3>4. InHandover(c)'
      BY <3>2, <3>3 DEF InHandover, Carries
    <3>5. QED
      BY <3>4
  <2>2. CASE c \notin covered
    <3>1. ~sends(c) /\ ~resized
      BY <1>1, <1>7, <2>2
    <3>2. /\ c \in DOMAIN det
          /\ epoch' = epoch
          /\ newest'[c] = newest[c]
      BY <1>1, <1>4, <2>2, <3>1
    <3>3. \/ newest[c] \in acked \/ InHandover(c) \/ AwaitsAck(c) \/ ReportedLost(c)
          \/ Armed(c) \/ Swallowed(c)
      BY <3>2 DEF IInv, NoCellForgotten
    <3>4. CASE Armed(c) \/ Swallowed(c)
      <4>1. ~det[c].sent
        BY <3>2, <3>4 DEF Armed, Swallowed, IInv, CellsConsistent, Consistent
      <4>2. ~new(c).sent /\ new(c).prev # NoHash
        BY <1>6, <1>8, <3>1, <4>1
      <4>3. QED
        BY <1>1, <4>2 DEF Swallowed
    <3>5. CASE InHandover(c)
      <4>1. PICK i \in 1 .. Len(encoded) : Carries(encoded[i], c)
        BY <1>9, <3>5 DEF InHandover
      <4>2. Carries(encoded[i], c)' /\ i \in 1 .. Len(encoded')
        BY <1>1, <3>2, <4>1 DEF Carries
      <4>3. QED
        BY <4>2 DEF InHandover
    <3>6. CASE AwaitsAck(c)
      BY <1>1, <3>2, <3>6 DEF AwaitsAck, Carries
    <3>7. CASE ReportedLost(c)
      BY <1>1, <3>2, <3>7 DEF ReportedLost
    <3>8. QED
      BY <1>1, <3>2, <3>3, <3>4, <3>5, <3>6, <3>7
  <2>3. QED
    BY <2>1, <2>2
<1>15. QED
  BY <1>10, <1>11, <1>12, <1>13, <1>14 DEF IInv

\* The encoded frame is handed over.
LEMMA EnqueueIInv == ASSUME IInv, Enqueue PROVE IInv'
<1>1. /\ pc = "send" /\ pc' = "drain" /\ Len(encoded) < QueueCap
      /\ encoded' = encoded \o out /\ out' = <<>>
      /\ UNCHANGED <<screenSize, epoch, det, count, newest, produced, lost, open,
                     acks, nextSeq, inFlight, acked>>
  BY DEF Enqueue, senderVars
<1>2. out \in Seq(EncodedFrame) /\ encoded \in Seq(EncodedFrame) /\ Len(out) = 1
      /\ QueueCap \in Nat
  BY <1>1, SessionAssumption DEF IInv, TypeOK
<1>3. /\ encoded' \in Seq(EncodedFrame)
      /\ Len(encoded') = Len(encoded) + 1
      /\ \A i \in 1 .. Len(encoded) : encoded'[i] = encoded[i]
      /\ encoded'[Len(encoded) + 1] = out[1]
  <2>1. /\ encoded \o out \in Seq(EncodedFrame)
        /\ Len(encoded \o out) = Len(encoded) + Len(out)
        /\ \A i \in 1 .. Len(encoded) + Len(out) : (encoded \o out)[i] =
              IF i <= Len(encoded) THEN encoded[i] ELSE out[i - Len(encoded)]
    BY <1>2, ConcatProperties
  <2>2. Len(encoded) \in Nat /\ Len(out) = 1
    BY <1>2
  <2>3. /\ encoded' \in Seq(EncodedFrame)
        /\ Len(encoded') = Len(encoded) + 1
        /\ \A i \in 1 .. Len(encoded) + 1 : encoded'[i] =
              IF i <= Len(encoded) THEN encoded[i] ELSE out[i - Len(encoded)]
    BY <1>1, <2>1, <2>2
  <2>4. (Len(encoded) + 1) - Len(encoded) = 1 /\ ~(Len(encoded) + 1 <= Len(encoded))
        /\ Len(encoded) + 1 \in 1 .. Len(encoded) + 1
    BY <2>2
  <2>5. QED
    BY <2>2, <2>3, <2>4
<1>4. TypeOK'
  <2>1. Len(encoded') <= QueueCap
    BY <1>1, <1>2, <1>3
  <2>2. out' \in Seq(EncodedFrame) /\ Len(out') = 0
    BY <1>1
  <2>3. QED
    BY <1>1, <1>3, <2>1, <2>2 DEF IInv, TypeOK
<1>5. CellsConsistent'
  BY <1>1 DEF IInv, CellsConsistent
<1>6. NothingBeforeFrame'
  BY <1>1, <1>2 DEF IInv, NothingBeforeFrame
<1>7. TagsNameGrid'
  <2>1. ASSUME NEW i \in 1 .. Len(encoded') PROVE Named(encoded[i])'
    <3>1. CASE i \in 1 .. Len(encoded)
      BY <1>1, <1>3, <3>1 DEF IInv, TagsNameGrid, Named
    <3>2. CASE i = Len(encoded) + 1
      <4>1. Named(out[1])
        BY <1>2 DEF IInv, TagsNameGrid
      <4>2. QED
        BY <1>1, <1>3, <3>2, <4>1 DEF Named
    <3>3. QED
      BY <1>2, <1>3, <3>1, <3>2
  <2>2. Len(out') = 0
    BY <1>1
  <2>3. QED
    BY <1>1, <2>1, <2>2 DEF IInv, TagsNameGrid, Named
<1>8. NoCellForgotten'
  <2>1. ASSUME NEW c, InHandover(c) PROVE InHandover(c)'
    <3>1. CASE \E i \in 1 .. Len(out) : Carries(out[i], c)
      <4>1. Carries(out[1], c)
        BY <1>2, <3>1
      <4>2. PICK k \in Nat : k = Len(encoded) + 1
        BY <1>2
      <4>3. Carries(encoded[k], c)' /\ k \in 1 .. Len(encoded')
        BY <1>1, <1>2, <1>3, <4>1, <4>2 DEF Carries
      <4>4. QED
        BY <4>3 DEF InHandover
    <3>2. CASE \E i \in 1 .. Len(encoded) : Carries(encoded[i], c)
      <4>1. PICK i \in 1 .. Len(encoded) : Carries(encoded[i], c)
        BY <3>2
      <4>2. Carries(encoded[i], c)' /\ i \in 1 .. Len(encoded')
        BY <1>1, <1>2, <1>3, <4>1 DEF Carries
      <4>3. QED
        BY <4>2 DEF InHandover
    <3>3. QED
      BY <2>1, <3>1, <3>2 DEF InHandover
  <2>2. QED
    BY <1>1, <2>1 DEF IInv, NoCellForgotten, AwaitsAck, Carries, ReportedLost, Armed, Swallowed
<1>9. QED
  BY <1>4, <1>5, <1>6, <1>7, <1>8 DEF IInv

\* The steps that only move the processing thread along.
LEMMA ProcessingMovesIInv ==
  ASSUME IInv, RecvTimeout \/ CaptureDisconnected \/ ProcessingStops \/ EnqueueFails
  PROVE  IInv'
<1>1. UNCHANGED <<screenSize, epoch, det, count, newest, produced, encoded, lost,
                  open, acks, nextSeq, inFlight, acked>>
  BY DEF RecvTimeout, CaptureDisconnected, ProcessingStops, EnqueueFails, senderVars
<1>2. out' = <<>> /\ pc' \in {"drain", "done"} /\ (out' = out \/ ~open)
  BY DEF RecvTimeout, CaptureDisconnected, ProcessingStops, EnqueueFails, IInv, TypeOK
<1>3. out' \in Seq(EncodedFrame) /\ Len(out') = 0
  BY <1>2
<1>4. TypeOK'
  BY <1>1, <1>2, <1>3 DEF IInv, TypeOK
<1>5. CellsConsistent' /\ NothingBeforeFrame'
  BY <1>1, <1>2 DEF IInv, CellsConsistent, NothingBeforeFrame
<1>6. TagsNameGrid'
  BY <1>1, <1>3 DEF IInv, TagsNameGrid, Named
<1>7. NoCellForgotten'
  BY <1>1, <1>2 DEF IInv, NoCellForgotten, InHandover, AwaitsAck, Carries,
                    ReportedLost, Armed, Swallowed
<1>8. QED
  BY <1>4, <1>5, <1>6, <1>7 DEF IInv

-----------------------------------------------------------------------------
(* The send loop. *)

\* A cell is accounted for outside the hand-over.
Accounted(c) ==
  newest[c] \in acked \/ AwaitsAck(c) \/ ReportedLost(c) \/ Armed(c) \/ Swallowed(c)

\* Draining the ACKs and expiring batches: what a batch carries is
\* acknowledged, reported lost under the batch's own epoch, or still awaited.
LEMMA DrainAcksKeeps ==
  ASSUME IInv, DrainAcksAndExpire, UNCHANGED pipelineVars,
         Remaining \subseteq inFlight'
  PROVE  /\ acks' \subseteq Nat /\ acked' \subseteq Nat /\ lost' \subseteq LostCells
         /\ \A l \in lost' : /\ l.epoch <= epoch
                             /\ l.epoch = epoch => l.cells \subseteq DOMAIN det
         /\ screenSize = NoSize => lost' = {}
         /\ \A c \in DOMAIN det : Accounted(c) => Accounted(c)'
<1>1. /\ acks' = {}
      /\ acked' = acked \cup {b.no : b \in {x \in inFlight : x.seq \in acks}}
      /\ lost' = lost \cup {[epoch |-> b.epoch, cells |-> b.cells] : b \in Expired}
  BY DEF DrainAcksAndExpire
<1>2. UNCHANGED <<screenSize, epoch, det, newest>>
  BY DEF pipelineVars
<1>3. Expired \subseteq inFlight
  BY DEF Expired
<1>4. acks' \subseteq Nat /\ acked' \subseteq Nat
  BY <1>1 DEF IInv, TypeOK, InFlight
<1>5. lost' \subseteq LostCells
  BY <1>1, <1>3 DEF IInv, TypeOK, InFlight, LostCells
<1>6. ASSUME NEW b \in inFlight
      PROVE  b.epoch <= epoch /\ (b.epoch = epoch => b.cells \subseteq DOMAIN det)
  <2>1. Named(b) /\ screenSize # NoSize
    BY DEF IInv, TagsNameGrid, NothingBeforeFrame
  <2>2. DOMAIN det = Grid[screenSize]
    BY <2>1 DEF IInv, TypeOK
  <2>3. QED
    BY <2>1, <2>2 DEF Named
<1>7. \A l \in lost' : /\ l.epoch <= epoch
                       /\ l.epoch = epoch => l.cells \subseteq DOMAIN det
  BY <1>1, <1>3, <1>6 DEF IInv, TagsNameGrid
<1>8. screenSize = NoSize => lost' = {}
  BY <1>1, <1>3 DEF IInv, NothingBeforeFrame
<1>9. ASSUME NEW c \in DOMAIN det, Accounted(c)
      PROVE  Accounted(c)'
  <2>1. CASE AwaitsAck(c)
    <3>1. PICK b \in inFlight : b.no = newest[c] /\ c \in b.cells /\ b.epoch = epoch
      BY <2>1 DEF AwaitsAck, Carries
    <3>2. CASE b.seq \in acks
      <4>1. b.no \in acked'
        BY <1>1, <3>2
      <4>2. QED
        BY <1>2, <3>1, <4>1 DEF Accounted
    <3>3. CASE b \in Expired
      <4> DEFINE l == [epoch |-> b.epoch, cells |-> b.cells]
      <4>1. l \in lost' /\ l.epoch = epoch' /\ c \in l.cells
        BY <1>1, <1>2, <3>1, <3>3
      <4>2. ReportedLost(c)'
        BY <4>1 DEF ReportedLost
      <4>3. QED
        BY <4>2 DEF Accounted
    <3>4. CASE b \in Remaining
      <4>1. AwaitsAck(c)'
        BY <1>2, <3>1, <3>4 DEF AwaitsAck, Carries
      <4>2. QED
        BY <4>1 DEF Accounted
    <3>5. QED
      BY <3>2, <3>3, <3>4 DEF Expired, Remaining
  <2>2. CASE ReportedLost(c)
    <3>1. ReportedLost(c)'
      BY <1>1, <1>2, <2>2 DEF ReportedLost
    <3>2. QED
      BY <3>1 DEF Accounted
  <2>3. CASE newest[c] \in acked \/ Armed(c) \/ Swallowed(c)
    BY <1>1, <1>2, <2>3 DEF Accounted, Armed, Swallowed
  <2>4. QED
    BY <1>9, <2>1, <2>2, <2>3 DEF Accounted
<1>10. QED
  BY <1>4, <1>5, <1>7, <1>8, <1>9

\* What the tags of frames and batches say survives a pass of the send loop.
LEMMA NamedKeeps ==
  ASSUME UNCHANGED pipelineVars, NEW f, Named(f)
  PROVE  Named(f)'
BY DEF pipelineVars, Named

\* A tick keeps the invariant.
LEMMA TickIInv == ASSUME IInv, Tick PROVE IInv'
<1>1. /\ DrainAcksAndExpire /\ UNCHANGED pipelineVars
      /\ inFlight' = Remaining /\ Remaining \subseteq inFlight
      /\ UNCHANGED <<encoded, open, nextSeq>>
  BY DEF Tick, Remaining
<1>2. /\ acks' \subseteq Nat /\ acked' \subseteq Nat /\ lost' \subseteq LostCells
      /\ \A l \in lost' : /\ l.epoch <= epoch
                          /\ l.epoch = epoch => l.cells \subseteq DOMAIN det
      /\ screenSize = NoSize => lost' = {}
      /\ \A c \in DOMAIN det : Accounted(c) => Accounted(c)'
  BY <1>1, DrainAcksKeeps
<1>3. TypeOK'
  BY <1>1, <1>2 DEF IInv, TypeOK, pipelineVars
<1>4. CellsConsistent' /\ NothingBeforeFrame'
  BY <1>1, <1>2 DEF IInv, CellsConsistent, NothingBeforeFrame, pipelineVars
<1>5. TagsNameGrid'
  BY <1>1, <1>2 DEF IInv, TagsNameGrid, Named, pipelineVars
<1>6. NoCellForgotten'
  <2>1. \A c : InHandover(c) => InHandover(c)'
    BY <1>1 DEF InHandover, Carries, pipelineVars
  <2>2. QED
    BY <1>1, <1>2, <2>1 DEF IInv, NoCellForgotten, Accounted, pipelineVars
<1>7. QED
  BY <1>3, <1>4, <1>5, <1>6 DEF IInv

\* The cells of a sent frame move from the hand-over into a batch.
LEMMA SendFrameIInv == ASSUME IInv, SendFrame PROVE IInv'
<1> DEFINE f == Head(encoded)
           b == [seq |-> nextSeq + 1, epoch |-> f.epoch, cells |-> f.cells,
                 no |-> f.no, grid |-> f.grid, late |-> FALSE]
<1>1. /\ DrainAcksAndExpire /\ UNCHANGED pipelineVars
      /\ encoded # <<>> /\ encoded' = Tail(encoded)
      /\ Remaining \subseteq inFlight /\ Remaining \subseteq inFlight'
      /\ f.cells = {} => inFlight' = Remaining /\ nextSeq' = nextSeq
      /\ f.cells # {} => inFlight' = Remaining \cup {b} /\ nextSeq' = nextSeq + 1
      /\ open' = open
  BY DEF SendFrame, Remaining
<1>2. /\ acks' \subseteq Nat /\ acked' \subseteq Nat /\ lost' \subseteq LostCells
      /\ \A l \in lost' : /\ l.epoch <= epoch
                          /\ l.epoch = epoch => l.cells \subseteq DOMAIN det
      /\ screenSize = NoSize => lost' = {}
      /\ \A c \in DOMAIN det : Accounted(c) => Accounted(c)'
  BY <1>1, DrainAcksKeeps
<1>3. /\ f \in EncodedFrame
      /\ f = encoded[1]
      /\ encoded' \in Seq(EncodedFrame)
      /\ Len(encoded') = Len(encoded) - 1
      /\ \A i \in 1 .. Len(encoded') : encoded'[i] = encoded[i + 1]
      /\ Len(encoded) \in Nat \ {0} /\ Len(encoded) <= QueueCap
  <2>1. encoded \in Seq(EncodedFrame) /\ Len(encoded) <= QueueCap
    BY DEF IInv, TypeOK
  <2>2. QED
    BY <1>1, <2>1, HeadTailProperties
<1>4. b \in InFlight
  BY <1>3, SMTT(20) DEF IInv, TypeOK, InFlight, EncodedFrame
<1>5. TypeOK'
  <2>1. inFlight' \subseteq InFlight /\ nextSeq' \in Nat
    <3>1. nextSeq \in Nat /\ Remaining \subseteq InFlight
      BY <1>1 DEF IInv, TypeOK
    <3> HIDE DEF b, f
    <3>2. QED
      BY <1>1, <1>4, <3>1
  <2>2. Len(encoded') <= QueueCap
    BY <1>3, SessionAssumption
  <2>3. QED
    BY <1>1, <1>2, <1>3, <2>1, <2>2 DEF IInv, TypeOK, pipelineVars
<1>6. screenSize # NoSize
  BY <1>1 DEF IInv, NothingBeforeFrame
<1>7. CellsConsistent' /\ NothingBeforeFrame'
  BY <1>1, <1>6 DEF IInv, CellsConsistent, NothingBeforeFrame, pipelineVars
<1>8. TagsNameGrid'
  <2>1. ASSUME NEW i \in 1 .. Len(encoded') PROVE Named(encoded[i])'
    <3>1. i + 1 \in 1 .. Len(encoded)
      BY <1>3
    <3>2. Named(encoded[i + 1]) /\ encoded'[i] = encoded[i + 1]
      BY <1>3, <3>1 DEF IInv, TagsNameGrid
    <3>3. QED
      BY <1>1, <3>2 DEF Named, pipelineVars
  <2>2. Named(f)
    BY <1>3 DEF IInv, TagsNameGrid
  <2>3. Named(b)
    BY <2>2 DEF Named
  <2> HIDE DEF b, f
  <2>4. ASSUME NEW x \in inFlight' PROVE Named(x)'
    <3>1. Named(x)
      BY <1>1, <2>3, <2>4 DEF IInv, TagsNameGrid
    <3>2. QED
      BY <1>1, <3>1, NamedKeeps
  <2>5. \A i \in 1 .. Len(out') : Named(out[i])'
    BY <1>1 DEF IInv, TagsNameGrid, Named, pipelineVars
  <2>6. QED
    BY <1>1, <1>2, <2>1, <2>4, <2>5 DEF TagsNameGrid, pipelineVars
<1>9. NoCellForgotten'
  <2> SUFFICES ASSUME open', NEW c \in DOMAIN det
               PROVE  Accounted(c)' \/ InHandover(c)'
    BY <1>1 DEF NoCellForgotten, Accounted, pipelineVars
  <2>1. CASE Accounted(c)
    BY <1>2, <2>1
  <2>2. CASE \E i \in 1 .. Len(out) : Carries(out[i], c)
    BY <1>1, <2>2 DEF InHandover, Carries, pipelineVars
  <2>3. CASE \E i \in 1 .. Len(encoded) : Carries(encoded[i], c)
    <3>1. PICK i \in 1 .. Len(encoded) : Carries(encoded[i], c)
      BY <2>3
    <3>2. CASE i = 1
      <4>1. f.no = newest[c] /\ c \in f.cells /\ f.epoch = epoch
        BY <1>3, <3>1, <3>2 DEF Carries
      <4>2. b \in inFlight' /\ b.no = newest[c] /\ c \in b.cells /\ b.epoch = epoch
        BY <1>1, <4>1
      <4>3. AwaitsAck(c)'
        BY <1>1, <4>2 DEF AwaitsAck, Carries, pipelineVars
      <4>4. QED
        BY <4>3 DEF Accounted
    <3>3. CASE i # 1
      <4>1. PICK k \in 1 .. Len(encoded') : i = k + 1
        BY <1>3, <3>1, <3>3
      <4>2. Carries(encoded[k], c)'
        BY <1>1, <1>3, <3>1, <4>1 DEF Carries, pipelineVars
      <4>3. QED
        BY <4>2 DEF InHandover
    <3>4. QED
      BY <3>2, <3>3
  <2>4. QED
    BY <1>1, <2>1, <2>2, <2>3 DEF IInv, NoCellForgotten, Accounted, InHandover, pipelineVars
<1>10. QED
  BY <1>5, <1>7, <1>8, <1>9 DEF IInv

\* The ways the send loop ends: it drops its channel ends.
LEMMA SendLoopEndsIInv ==
  ASSUME IInv, SendFails \/ StreamEnds \/ Cancelled
  PROVE  IInv'
<1>1. /\ UNCHANGED pipelineVars
      /\ encoded' = <<>> /\ open' = FALSE /\ nextSeq' = nextSeq
      /\ inFlight' \subseteq inFlight
  BY DEF SendFails, StreamEnds, Cancelled, senderVars, Remaining
<1>2. /\ acks' \subseteq Nat /\ acked' \subseteq Nat /\ lost' \subseteq LostCells
      /\ \A l \in lost' : /\ l.epoch <= epoch
                          /\ l.epoch = epoch => l.cells \subseteq DOMAIN det
      /\ screenSize = NoSize => lost' = {}
  <2>1. CASE SendFails
    <3>1. DrainAcksAndExpire /\ Remaining \subseteq inFlight'
      BY <2>1 DEF SendFails
    <3>2. QED
      BY <1>1, <3>1, DrainAcksKeeps
  <2>2. CASE StreamEnds \/ Cancelled
    BY <2>2 DEF StreamEnds, Cancelled, senderVars, IInv, TypeOK, TagsNameGrid,
                NothingBeforeFrame
  <2>3. QED
    BY <2>1, <2>2
<1>3. encoded' \in Seq(EncodedFrame) /\ Len(encoded') = 0 /\ Len(encoded') <= QueueCap
  BY <1>1, SessionAssumption
<1>4. TypeOK'
  BY <1>1, <1>2, <1>3 DEF IInv, TypeOK, pipelineVars
<1>5. CellsConsistent' /\ NothingBeforeFrame'
  BY <1>1, <1>2 DEF IInv, CellsConsistent, NothingBeforeFrame, pipelineVars
<1>6. TagsNameGrid'
  BY <1>1, <1>2, <1>3 DEF IInv, TagsNameGrid, Named, pipelineVars
<1>7. NoCellForgotten'
  BY <1>1 DEF NoCellForgotten
<1>8. QED
  BY <1>4, <1>5, <1>6, <1>7 DEF IInv

-----------------------------------------------------------------------------
(* The environment. *)

\* Time that passes keeps it.
LEMMA BecomesOverdueIInv ==
  ASSUME IInv, NEW b \in inFlight, BecomesOverdue(b) PROVE IInv'
<1> DEFINE b2 == [b EXCEPT !.late = TRUE]
<1>1. /\ inFlight' = (inFlight \ {b}) \cup {b2}
      /\ UNCHANGED pipelineVars
      /\ UNCHANGED <<encoded, lost, open, nextSeq, acks, acked>>
  BY DEF BecomesOverdue
<1>2. /\ b2 \in InFlight /\ b2.epoch = b.epoch /\ b2.cells = b.cells
      /\ b2.no = b.no /\ b2.grid = b.grid
  BY DEF IInv, TypeOK, InFlight
<1> HIDE DEF b2
<1>3. TypeOK'
  BY <1>1, <1>2 DEF IInv, TypeOK, pipelineVars
<1>4. CellsConsistent' /\ NothingBeforeFrame'
  BY <1>1 DEF IInv, CellsConsistent, NothingBeforeFrame, pipelineVars
<1>5. TagsNameGrid'
  BY <1>1, <1>2 DEF IInv, TagsNameGrid, Named, pipelineVars
<1>6. NoCellForgotten'
  <2>1. \A c : AwaitsAck(c) => AwaitsAck(c)'
    BY <1>1, <1>2 DEF AwaitsAck, Carries, pipelineVars
  <2>2. QED
    BY <1>1, <2>1 DEF IInv, NoCellForgotten, InHandover, Carries, ReportedLost, Armed,
                      Swallowed, pipelineVars
<1>7. QED
  BY <1>3, <1>4, <1>5, <1>6 DEF IInv

\* An acknowledgement keeps it.
LEMMA AckArrivesIInv ==
  ASSUME IInv, NEW seq \in 1 .. nextSeq, AckArrives(seq) PROVE IInv'
<1>1. /\ acks' = acks \cup {seq}
      /\ UNCHANGED pipelineVars
      /\ UNCHANGED <<encoded, lost, open, nextSeq, inFlight, acked>>
  BY DEF AckArrives, senderVars
<1>2. TypeOK'
  <2>1. acks' \subseteq Nat
    <3>1. nextSeq \in Nat /\ acks \subseteq Nat
      BY DEF IInv, TypeOK
    <3>2. seq \in Nat
      BY <3>1
    <3>3. QED
      BY <1>1, <3>1, <3>2
  <2>2. QED
    BY <1>1, <2>1 DEF IInv, TypeOK, pipelineVars
<1>3. CellsConsistent' /\ NothingBeforeFrame'
  BY <1>1 DEF IInv, CellsConsistent, NothingBeforeFrame, pipelineVars
<1>4. TagsNameGrid'
  BY <1>1 DEF IInv, TagsNameGrid, Named, pipelineVars
<1>5. NoCellForgotten'
  BY <1>1 DEF IInv, NoCellForgotten, InHandover, AwaitsAck, Carries, ReportedLost,
              Armed, Swallowed, pipelineVars
<1>6. QED
  BY <1>2, <1>3, <1>4, <1>5 DEF IInv

\* Every step keeps the invariant.
LEMMA NextIInv == IInv /\ [Next]_vars => IInv'
<1> SUFFICES ASSUME IInv, [Next]_vars PROVE IInv'
  OBVIOUS
<1>1. CASE Drain
  BY <1>1, DrainIInv
<1>2. CASE NextFrame
  BY <1>2, ProcessIInv DEF NextFrame
<1>3. CASE RecvTimeout \/ CaptureDisconnected \/ ProcessingStops \/ EnqueueFails
  BY <1>3, ProcessingMovesIInv
<1>4. CASE Enqueue
  BY <1>4, EnqueueIInv
<1>5. CASE Tick
  BY <1>5, TickIInv
<1>6. CASE SendFrame
  BY <1>6, SendFrameIInv
<1>7. CASE SendFails \/ StreamEnds \/ Cancelled
  BY <1>7, SendLoopEndsIInv
<1>8. CASE \E b \in inFlight : BecomesOverdue(b)
  BY <1>8, BecomesOverdueIInv
<1>9. CASE \E seq \in 1 .. nextSeq : AckArrives(seq)
  BY <1>9, AckArrivesIInv
<1>10. CASE UNCHANGED vars
  BY <1>10 DEF vars, IInv, TypeOK, CellsConsistent, TagsNameGrid, Named,
               NothingBeforeFrame, NoCellForgotten, InHandover, AwaitsAck, Carries,
               ReportedLost, Armed, Swallowed
<1>11. QED
  BY <1>1, <1>2, <1>3, <1>4, <1>5, <1>6, <1>7, <1>8, <1>9, <1>10 DEF Next, Recv, Handover

\* The invariant holds in every state.
LEMMA IInvInvariant == Spec => []IInv
BY InitIInv, NextIInv, PTL DEF Spec

-----------------------------------------------------------------------------
\* Every variable has its type; the encoded-frame channel stays within its
\* capacity.
THEOREM TypeCorrect == Spec => []TypeOK
BY IInvInvariant, PTL DEF IInv

\* The newest content of every cell is acknowledged, on its way, awaited,
\* reported lost, or armed - or its re-send was swallowed.
THEOREM NoCellIsForgotten == Spec => []NoCellForgotten
BY IInvInvariant, PTL DEF IInv

\* What is tagged with the current epoch speaks of the current grid.
THEOREM EpochsNameGrids == Spec => []EpochNamesGrid
<1>1. IInv => EpochNamesGrid
  BY DEF IInv, TagsNameGrid, Named, EpochNamesGrid
<1>2. QED
  BY <1>1, IInvInvariant, PTL

-----------------------------------------------------------------------------
(* The session implements TileDelivery.  Beyond IInv this needs the order  *)
(* of frame numbers: what travels is newer than what was sent, and what    *)
(* bears the number of a cell's newest content carries that cell.          *)

NumbersInOrder ==
  /\ \A c \in DOMAIN det : newest[c] <= produced
  /\ \A n \in acked : n <= produced
  /\ \A i \in 1 .. Len(out) : out[i].no <= produced
  /\ \A i \in 1 .. Len(encoded) : encoded[i].no <= produced
  /\ \A b \in inFlight : b.no <= produced
  /\ \A i \in 1 .. Len(encoded) : \A k \in 1 .. Len(out) : encoded[i].no < out[k].no
  /\ \A b \in inFlight : \A k \in 1 .. Len(out) : b.no < out[k].no
  /\ \A b \in inFlight : \A i \in 1 .. Len(encoded) : b.no < encoded[i].no
  /\ \A i, j \in 1 .. Len(encoded) : i < j => encoded[i].no < encoded[j].no

NamesNewest(f) == \A c \in DOMAIN det : f.no = newest[c] => Carries(f, c)

NewestIsCarried ==
  /\ \A i \in 1 .. Len(out) : NamesNewest(out[i])
  /\ \A i \in 1 .. Len(encoded) : NamesNewest(encoded[i])
  /\ \A b \in inFlight : NamesNewest(b)

DInv == IInv /\ NumbersInOrder /\ NewestIsCarried

\* What the types say of the numbers.
LEMMA NumberTypes ==
  ASSUME IInv
  PROVE  /\ produced \in Nat /\ \A n \in acked : n \in Nat
         /\ out \in Seq(EncodedFrame) /\ Len(out) \in Nat /\ Len(out) <= 1
         /\ encoded \in Seq(EncodedFrame) /\ Len(encoded) \in Nat
         /\ \A i \in 1 .. Len(out) : out[i].no \in Nat
         /\ \A i \in 1 .. Len(encoded) : encoded[i].no \in Nat
         /\ \A b \in inFlight : b.no \in Nat
<1>1. /\ produced \in Nat /\ acked \subseteq Nat /\ inFlight \subseteq InFlight
      /\ out \in Seq(EncodedFrame) /\ encoded \in Seq(EncodedFrame)
      /\ Len(out) = IF pc = "send" THEN 1 ELSE 0
  BY DEF IInv, TypeOK
<1>2. Len(out) \in Nat /\ Len(out) <= 1 /\ Len(encoded) \in Nat
  BY <1>1
<1>3. \A f \in EncodedFrame : f.no \in Nat
  BY DEF EncodedFrame
<1>4. /\ \A i \in 1 .. Len(out) : out[i].no \in Nat
      /\ \A i \in 1 .. Len(encoded) : encoded[i].no \in Nat
  BY <1>1, <1>3
<1>5. QED
  BY <1>1, <1>2, <1>4 DEF InFlight

\* The delivery invariant of a session that has just begun.
LEMMA InitDInv == Init => DInv
<1> SUFFICES ASSUME Init PROVE DInv
  OBVIOUS
<1>1. Len(out) = 0 /\ Len(encoded) = 0 /\ inFlight = {} /\ acked = {}
  BY DEF Init
<1>2. QED
  BY <1>1, InitIInv DEF Init, DInv, NumbersInOrder, NewestIsCarried

\* A resize sends every cell of the new grid.
LEMMA ResizeCovers ==
  ASSUME IInv, NEW size \in Size, NEW pix \in [Grid[size] -> Pixels],
         NEW dmg \in SUBSET Grid[size], NEW refresh \in BOOLEAN,
         NEW covered \in SUBSET Grid[size],
         Process(size, pix, dmg, refresh, covered), size # screenSize
  PROVE  covered = Grid[size]
<1> DEFINE n == Saturate(0 + 1)
<1>1. n \in 0 .. MaxInterval
  BY SaturateType
<1>2. ASSUME NEW c \in Grid[size] PROVE Sends(Blank, TRUE, n, pix[c], c \notin dmg)
  BY <1>1, FirstIsSent, BlankType
<1> HIDE DEF n
<1>3. {c \in Grid[size] : Sends([x \in Grid[size] |-> Blank][c], TRUE, n, pix[c], c \notin dmg)}
        \subseteq covered
  BY DEF Process, n
<1>4. QED
  BY <1>2, <1>3

\* What a frame does to the numbers, without the detector.
LEMMA ProcessNumbers ==
  ASSUME IInv, NEW size \in Size, NEW pix \in [Grid[size] -> Pixels],
         NEW dmg \in SUBSET Grid[size], NEW refresh \in BOOLEAN,
         NEW covered \in SUBSET Grid[size],
         Process(size, pix, dmg, refresh, covered)
  PROVE  /\ out = <<>> /\ DOMAIN det' = Grid[size]
         /\ size = screenSize => DOMAIN det = Grid[size] /\ epoch' = epoch
         /\ size # screenSize => covered = Grid[size]
         /\ UNCHANGED <<encoded, lost, open, inFlight, acked>>
         /\ \/ /\ size = screenSize /\ covered = {} /\ out' = <<>>
               /\ newest' = newest /\ produced' = produced
            \/ /\ produced' = produced + 1
               /\ newest' = [c \in Grid[size] |-> IF c \in covered THEN produced + 1
                                                  ELSE newest[c]]
               /\ \E f : out' = <<f>> /\ f.no = produced + 1 /\ f.cells = covered
                                      /\ f.epoch = epoch'
<1>1. out = <<>> /\ DOMAIN det' = Grid[size] /\ UNCHANGED <<encoded, lost, open, inFlight, acked>>
  BY DEF Process, senderVars, IInv, TypeOK
<1>2. size = screenSize => DOMAIN det = Grid[size] /\ epoch' = epoch
  BY GridType DEF Process, EpochAfter, IInv, TypeOK
<1>3. size # screenSize => covered = Grid[size]
  BY ResizeCovers
<1>4. \/ /\ size = screenSize /\ covered = {} /\ UNCHANGED <<out, newest, produced>>
      \/ /\ produced' = produced + 1
         /\ newest' = [c \in Grid[size] |-> IF c \in covered THEN produced + 1
                                            ELSE newest[c]]
         /\ out' = <<[header |-> IF size # screenSize THEN size ELSE NoSize,
                      cells  |-> covered, epoch |-> EpochAfter(size),
                      no |-> produced + 1, grid |-> size]>>
  BY DEF Process
<1>5. epoch' = EpochAfter(size)
  BY DEF Process
<1>6. QED
  BY <1>1, <1>2, <1>3, <1>4, <1>5

\* A processed frame keeps it.
LEMMA ProcessDInv ==
  ASSUME DInv, NEW size \in Size, NEW pix \in [Grid[size] -> Pixels],
         NEW dmg \in SUBSET Grid[size], NEW refresh \in BOOLEAN,
         NEW covered \in SUBSET Grid[size],
         Process(size, pix, dmg, refresh, covered)
  PROVE  NumbersInOrder' /\ NewestIsCarried'
<1>0. IInv
  BY DEF DInv
<1>1. /\ out = <<>> /\ DOMAIN det' = Grid[size]
      /\ size = screenSize => DOMAIN det = Grid[size] /\ epoch' = epoch
      /\ size # screenSize => covered = Grid[size]
      /\ UNCHANGED <<encoded, lost, open, inFlight, acked>>
  BY <1>0, ProcessNumbers
<1>2. CASE /\ size = screenSize /\ covered = {} /\ out' = <<>>
           /\ newest' = newest /\ produced' = produced
  BY <1>1, <1>2 DEF DInv, NumbersInOrder, NewestIsCarried, NamesNewest, Carries
<1>3. CASE /\ produced' = produced + 1
           /\ newest' = [c \in Grid[size] |-> IF c \in covered THEN produced + 1
                                              ELSE newest[c]]
           /\ \E f : out' = <<f>> /\ f.no = produced + 1 /\ f.cells = covered
                                  /\ f.epoch = epoch'
  <2>1. PICK f : out' = <<f>> /\ f.no = produced + 1 /\ f.cells = covered /\ f.epoch = epoch'
    BY <1>3
  <2>2. /\ produced \in Nat /\ \A n \in acked : n \in Nat
        /\ \A i \in 1 .. Len(encoded) : encoded[i].no \in Nat
        /\ \A b \in inFlight : b.no \in Nat
    BY <1>0, NumberTypes
  <2>3. \A i \in 1 .. Len(out') : out'[i] = f
    BY <2>1
  <2>4. NumbersInOrder'
    <3>1. ASSUME NEW c \in Grid[size] PROVE newest'[c] <= produced'
      <4>1. CASE c \in covered
        BY <1>3, <2>2, <4>1
      <4>2. CASE c \notin covered
        <5>1. c \in DOMAIN det /\ newest'[c] = newest[c]
          BY <1>1, <1>3, <4>2
        <5>2. newest[c] <= produced /\ newest[c] \in Nat
          BY <5>1 DEF DInv, NumbersInOrder, IInv, TypeOK
        <5>3. QED
          BY <1>3, <2>2, <5>1, <5>2
      <4>3. QED
        BY <4>1, <4>2
    <3>2. /\ f.no = produced' /\ produced < f.no /\ produced < produced'
          /\ f.no \in Nat /\ produced' \in Nat
      BY <1>3, <2>1, <2>2
    <3>3. /\ \A x \in acked' : x <= produced'
          /\ \A i \in 1 .. Len(out') : out'[i].no <= produced'
      BY <1>1, <2>2, <2>3, <3>2 DEF DInv, NumbersInOrder
    <3>4. ASSUME NEW i \in 1 .. Len(encoded)
          PROVE  encoded[i].no <= produced' /\ encoded[i].no < f.no
      <4>1. encoded[i].no <= produced /\ encoded[i].no \in Nat
        BY <2>2 DEF DInv, NumbersInOrder
      <4>2. QED
        BY <2>2, <3>2, <4>1
    <3>5. ASSUME NEW b \in inFlight PROVE b.no <= produced' /\ b.no < f.no
      <4>1. b.no <= produced /\ b.no \in Nat
        BY <2>2 DEF DInv, NumbersInOrder
      <4>2. QED
        BY <2>2, <3>2, <4>1
    <3>6. QED
      BY <1>1, <2>3, <3>1, <3>3, <3>4, <3>5 DEF DInv, NumbersInOrder
  <2>5. ASSUME NEW g, g.no \in Nat, g.no <= produced, NamesNewest(g)
        PROVE  \A c \in Grid[size] : g.no = newest'[c] => c \in g.cells /\ g.epoch = epoch'
    <3> SUFFICES ASSUME NEW c \in Grid[size], g.no = newest'[c]
                 PROVE  c \in g.cells /\ g.epoch = epoch'
      OBVIOUS
    <3>1. c \notin covered
      BY <1>3, <2>2, <2>5
    <3>2. size = screenSize /\ newest'[c] = newest[c] /\ c \in DOMAIN det
      BY <1>1, <1>3, <3>1
    <3>3. QED
      BY <1>1, <2>5, <3>2 DEF NamesNewest, Carries
  <2>6. NamesNewest(f)'
    <3> SUFFICES ASSUME NEW c \in Grid[size], f.no = newest'[c] PROVE Carries(f, c)'
      BY <1>1 DEF NamesNewest
    <3>1. c \in covered
      <4>1. CASE size # screenSize
        BY <1>1, <4>1
      <4>2. CASE size = screenSize
        <5> SUFFICES ASSUME c \notin covered PROVE FALSE
          OBVIOUS
        <5>1. newest[c] = produced + 1 /\ c \in DOMAIN det
          BY <1>1, <1>3, <2>1, <4>2
        <5>2. newest[c] \in Nat
          BY <5>1 DEF DInv, IInv, TypeOK
        <5>3. \A x \in DOMAIN det : newest[x] <= produced
          BY DEF DInv, NumbersInOrder
        <5>4. QED
          BY <2>2, <5>1, <5>2, <5>3
      <4>3. QED
        BY <4>1, <4>2
    <3>2. QED
      BY <2>1, <3>1 DEF Carries
  <2>7. /\ \A i \in 1 .. Len(encoded) : NamesNewest(encoded[i])'
        /\ \A b \in inFlight : NamesNewest(b)'
    <3>1. ASSUME NEW i \in 1 .. Len(encoded) PROVE NamesNewest(encoded[i])'
      <4>1. /\ encoded[i].no \in Nat /\ encoded[i].no <= produced /\ NamesNewest(encoded[i])
            /\ encoded' = encoded
        BY <1>1, <2>2 DEF DInv, NumbersInOrder, NewestIsCarried
      <4>2. \A c \in Grid[size] : encoded[i].no = newest'[c] =>
               c \in encoded[i].cells /\ encoded[i].epoch = epoch'
        BY <2>5, <4>1
      <4>3. QED
        BY <1>1, <4>1, <4>2 DEF NamesNewest, Carries
    <3>2. ASSUME NEW b \in inFlight PROVE NamesNewest(b)'
      <4>1. b.no \in Nat /\ b.no <= produced /\ NamesNewest(b)
        BY <2>2 DEF DInv, NumbersInOrder, NewestIsCarried
      <4>2. \A c \in Grid[size] : b.no = newest'[c] => c \in b.cells /\ b.epoch = epoch'
        BY <2>5, <4>1
      <4>3. QED
        BY <1>1, <4>2 DEF NamesNewest, Carries
    <3>3. QED
      BY <3>1, <3>2
  <2>8. QED
    BY <1>1, <2>3, <2>4, <2>6, <2>7 DEF NewestIsCarried, NamesNewest, Carries
<1>4. QED
  BY <1>0, <1>2, <1>3, ProcessNumbers

\* The shape of the channel after a hand-over.
LEMMA EnqueueShape ==
  ASSUME IInv, Enqueue
  PROVE  /\ Len(out) = 1 /\ Len(out') = 0
         /\ Len(encoded') = Len(encoded) + 1
         /\ \A i \in 1 .. Len(encoded) : encoded'[i] = encoded[i]
         /\ encoded'[Len(encoded) + 1] = out[1]
         /\ UNCHANGED <<epoch, det, newest, produced, lost, open, inFlight, acked>>
<1>1. /\ pc = "send" /\ encoded' = encoded \o out /\ out' = <<>>
      /\ UNCHANGED <<epoch, det, newest, produced, lost, open, inFlight, acked>>
  BY DEF Enqueue, senderVars
<1>2. out \in Seq(EncodedFrame) /\ encoded \in Seq(EncodedFrame) /\ Len(out) = 1
  BY <1>1 DEF IInv, TypeOK
<1>3. /\ Len(encoded \o out) = Len(encoded) + Len(out)
      /\ \A i \in 1 .. Len(encoded) + Len(out) : (encoded \o out)[i] =
            IF i <= Len(encoded) THEN encoded[i] ELSE out[i - Len(encoded)]
  BY <1>2, ConcatProperties
<1>4. Len(encoded) \in Nat /\ (Len(encoded) + 1) - Len(encoded) = 1
      /\ ~(Len(encoded) + 1 <= Len(encoded))
      /\ Len(encoded) + 1 \in 1 .. Len(encoded) + 1
  BY <1>2
<1>5. Len(out') = 0
  BY <1>1
<1>6. QED
  BY <1>1, <1>2, <1>3, <1>4, <1>5

\* So does a queued batch.
LEMMA EnqueueDInv ==
  ASSUME DInv, Enqueue PROVE NumbersInOrder' /\ NewestIsCarried'
<1>1. /\ Len(out) = 1 /\ Len(out') = 0
      /\ Len(encoded') = Len(encoded) + 1
      /\ \A i \in 1 .. Len(encoded) : encoded'[i] = encoded[i]
      /\ encoded'[Len(encoded) + 1] = out[1]
      /\ UNCHANGED <<epoch, det, newest, produced, lost, open, inFlight, acked>>
  BY EnqueueShape DEF DInv
<1>2. Len(encoded) \in Nat
  BY NumberTypes DEF DInv
<1>3. ASSUME NEW i \in 1 .. Len(encoded')
      PROVE  \/ i \in 1 .. Len(encoded) /\ encoded'[i] = encoded[i]
             \/ i = Len(encoded) + 1 /\ encoded'[i] = out[1]
  BY <1>1, <1>2
<1>4. 1 \in 1 .. Len(out)
  BY <1>1
<1>5. ASSUME NEW i \in 1 .. Len(encoded'), NEW j \in 1 .. Len(encoded'), i < j
      PROVE  encoded'[i].no < encoded'[j].no
  <2>1. i \in 1 .. Len(encoded) /\ encoded'[i] = encoded[i]
    BY <1>1, <1>2, <1>3, <1>5
  <2>2. CASE j \in 1 .. Len(encoded) /\ encoded'[j] = encoded[j]
    BY <1>5, <2>1, <2>2 DEF DInv, NumbersInOrder
  <2>3. CASE j = Len(encoded) + 1 /\ encoded'[j] = out[1]
    BY <1>4, <2>1, <2>3 DEF DInv, NumbersInOrder
  <2>4. QED
    BY <1>3, <2>2, <2>3
<1>6. NumbersInOrder'
  BY <1>1, <1>3, <1>4, <1>5 DEF DInv, NumbersInOrder
<1>7. NewestIsCarried'
  BY <1>1, <1>3, <1>4 DEF DInv, NewestIsCarried, NamesNewest, Carries
<1>8. QED
  BY <1>6, <1>7

\* A step that numbers and carries nothing new.
LEMMA NothingNew ==
  ASSUME DInv, UNCHANGED <<newest, epoch, produced>>, DOMAIN det' = DOMAIN det,
         out' = out \/ out' = <<>>, encoded' = encoded \/ encoded' = <<>>,
         \A b \in inFlight' : \E a \in inFlight :
           b.no = a.no /\ b.cells = a.cells /\ b.epoch = a.epoch,
         \A n \in acked' : n \in acked \/ \E b \in inFlight : n = b.no
  PROVE  NumbersInOrder' /\ NewestIsCarried'
<1>1. /\ \A i \in 1 .. Len(out') : i \in 1 .. Len(out) /\ out'[i] = out[i]
      /\ \A i \in 1 .. Len(encoded') : i \in 1 .. Len(encoded) /\ encoded'[i] = encoded[i]
  OBVIOUS
<1>2. \A b \in inFlight : b.no <= produced
  BY DEF DInv, NumbersInOrder
<1>3. NumbersInOrder'
  BY <1>1, <1>2 DEF DInv, NumbersInOrder
<1>4. \A a \in inFlight : NamesNewest(a)
  BY DEF DInv, NewestIsCarried
<1>5. \A b \in inFlight' : NamesNewest(b)'
  BY <1>4 DEF NamesNewest, Carries
<1>6. NewestIsCarried'
  BY <1>1, <1>5 DEF DInv, NewestIsCarried, NamesNewest, Carries
<1>7. QED
  BY <1>3, <1>6

\* The shape of the channel and the batches after a frame was sent.
LEMMA SendFrameShape ==
  ASSUME IInv, SendFrame
  PROVE  /\ DrainAcksAndExpire /\ UNCHANGED pipelineVars /\ open' = open
         /\ Len(encoded) > 0 /\ Len(encoded') = Len(encoded) - 1
         /\ \A i \in 1 .. Len(encoded') : encoded'[i] = encoded[i + 1]
         /\ Remaining \subseteq inFlight /\ Remaining \subseteq inFlight'
         /\ \A b \in inFlight' : \/ b \in Remaining
                                 \/ /\ b.no = encoded[1].no /\ b.cells = encoded[1].cells
                                    /\ b.epoch = encoded[1].epoch
         /\ encoded[1].cells # {} =>
              \E b \in inFlight' : /\ b.no = encoded[1].no /\ b.cells = encoded[1].cells
                                   /\ b.epoch = encoded[1].epoch
<1>1. encoded \in Seq(EncodedFrame) /\ encoded # <<>> /\ encoded' = Tail(encoded)
  BY DEF SendFrame, IInv, TypeOK
<1>2. /\ Len(encoded) > 0 /\ Len(encoded') = Len(encoded) - 1
      /\ \A i \in 1 .. Len(encoded') : encoded'[i] = encoded[i + 1]
      /\ Head(encoded) = encoded[1]
  BY <1>1
<1> DEFINE b1 == [seq |-> nextSeq + 1, epoch |-> encoded[1].epoch,
                  cells |-> encoded[1].cells, no |-> encoded[1].no,
                  grid |-> encoded[1].grid, late |-> FALSE]
<1>3. /\ DrainAcksAndExpire /\ UNCHANGED pipelineVars /\ open' = open
      /\ encoded[1].cells = {} => inFlight' = Remaining
      /\ encoded[1].cells # {} => inFlight' = Remaining \cup {b1}
  BY <1>2 DEF SendFrame
<1>4. Remaining \subseteq inFlight
  BY DEF Remaining
<1>5. /\ b1.no = encoded[1].no /\ b1.cells = encoded[1].cells
      /\ b1.epoch = encoded[1].epoch
  OBVIOUS
<1> HIDE DEF b1
<1>6. QED
  BY <1>2, <1>3, <1>4, <1>5

\* So does a batch that is sent.
LEMMA SendFrameDInv ==
  ASSUME DInv, SendFrame PROVE NumbersInOrder' /\ NewestIsCarried'
<1>0. IInv
  BY DEF DInv
<1>1. /\ DrainAcksAndExpire /\ UNCHANGED pipelineVars
      /\ Len(encoded) > 0 /\ Len(encoded') = Len(encoded) - 1
      /\ \A i \in 1 .. Len(encoded') : encoded'[i] = encoded[i + 1]
      /\ Remaining \subseteq inFlight
      /\ \A b \in inFlight' : \/ b \in Remaining
                              \/ /\ b.no = encoded[1].no /\ b.cells = encoded[1].cells
                                 /\ b.epoch = encoded[1].epoch
  BY <1>0, SendFrameShape
<1>2. Len(encoded) \in Nat /\ 1 \in 1 .. Len(encoded)
  BY <1>0, <1>1, NumberTypes
<1>3. \A i \in 1 .. Len(encoded') : i + 1 \in 1 .. Len(encoded) /\ 1 < i + 1
  BY <1>1, <1>2
<1>4. UNCHANGED <<det, newest, epoch, produced, out>>
  BY <1>1 DEF pipelineVars
<1>5. \A n \in acked' : n <= produced
  BY <1>1 DEF DrainAcksAndExpire, DInv, NumbersInOrder
<1>6. \A i, j \in 1 .. Len(encoded') : i < j => encoded'[i].no < encoded'[j].no
  <2> SUFFICES ASSUME NEW i \in 1 .. Len(encoded'), NEW j \in 1 .. Len(encoded'), i < j
               PROVE  encoded'[i].no < encoded'[j].no
    OBVIOUS
  <2>1. i + 1 < j + 1 /\ i + 1 \in 1 .. Len(encoded) /\ j + 1 \in 1 .. Len(encoded)
    BY <1>1, <1>2
  <2>2. encoded[i + 1].no < encoded[j + 1].no
    BY <2>1 DEF DInv, NumbersInOrder
  <2>3. QED
    BY <1>1, <2>2
<1>7. \A b \in inFlight' : \A i \in 1 .. Len(encoded') : b.no < encoded'[i].no
  <2> SUFFICES ASSUME NEW b \in inFlight', NEW i \in 1 .. Len(encoded')
               PROVE  b.no < encoded'[i].no
    OBVIOUS
  <2>1. encoded'[i] = encoded[i + 1] /\ i + 1 \in 1 .. Len(encoded) /\ 1 < i + 1
    BY <1>1, <1>3
  <2>2. CASE b \in Remaining
    BY <1>1, <2>1, <2>2 DEF DInv, NumbersInOrder
  <2>3. CASE b.no = encoded[1].no
    BY <1>2, <2>1, <2>3 DEF DInv, NumbersInOrder
  <2>4. QED
    BY <1>1, <2>2, <2>3
<1>8. NumbersInOrder'
  BY <1>1, <1>2, <1>3, <1>4, <1>5, <1>6, <1>7 DEF DInv, NumbersInOrder
<1>9. ASSUME NEW b \in inFlight' PROVE NamesNewest(b)'
  <2>1. CASE b \in Remaining
    BY <1>1, <1>4, <2>1 DEF DInv, NewestIsCarried, NamesNewest, Carries
  <2>2. CASE /\ b.no = encoded[1].no /\ b.cells = encoded[1].cells
             /\ b.epoch = encoded[1].epoch
    BY <1>2, <1>4, <2>2 DEF DInv, NewestIsCarried, NamesNewest, Carries
  <2>3. QED
    BY <1>1, <2>1, <2>2
<1>10. ASSUME NEW i \in 1 .. Len(encoded') PROVE NamesNewest(encoded[i])'
  BY <1>1, <1>3, <1>4 DEF DInv, NewestIsCarried, NamesNewest, Carries
<1>11. \A i \in 1 .. Len(out') : NamesNewest(out[i])'
  BY <1>4 DEF DInv, NewestIsCarried, NamesNewest, Carries
<1>12. QED
  BY <1>8, <1>9, <1>10, <1>11 DEF NewestIsCarried

\* Every step keeps the delivery invariant.
LEMMA NextDInv == DInv /\ [Next]_vars => DInv'
<1> SUFFICES ASSUME DInv, [Next]_vars PROVE DInv'
  OBVIOUS
<1> USE DEF DInv
<1>1. IInv'
  BY NextIInv
<1>2. CASE NextFrame
  BY <1>1, <1>2, ProcessDInv DEF NextFrame
<1>3. CASE Enqueue
  BY <1>1, <1>3, EnqueueDInv
<1>4. CASE SendFrame
  BY <1>1, <1>4, SendFrameDInv
<1>5. CASE \/ Drain \/ RecvTimeout \/ CaptureDisconnected \/ ProcessingStops
           \/ EnqueueFails
  <2>1. /\ UNCHANGED <<newest, epoch, produced, encoded, inFlight, acked>>
        /\ out' = out \/ out' = <<>>
        /\ DOMAIN det' = DOMAIN det
    BY <1>5 DEF Drain, Invalidated, RecvTimeout, CaptureDisconnected, ProcessingStops,
                EnqueueFails, senderVars
  <2>2. QED
    BY <1>1, <2>1, NothingNew
<1>6. CASE Tick \/ SendFails \/ StreamEnds \/ Cancelled
  <2>1. /\ UNCHANGED <<newest, epoch, produced, out, det>>
        /\ encoded' = encoded \/ encoded' = <<>>
        /\ inFlight' \subseteq inFlight
        /\ \A n \in acked' : n \in acked \/ \E b \in inFlight : n = b.no
    BY <1>6 DEF Tick, SendFails, StreamEnds, Cancelled, pipelineVars, senderVars,
                DrainAcksAndExpire, Remaining
  <2>2. QED
    BY <1>1, <2>1, NothingNew
<1>7. ASSUME NEW b \in inFlight, BecomesOverdue(b) PROVE DInv'
  <2>1. /\ UNCHANGED <<newest, epoch, produced, out, det, encoded, acked>>
        /\ inFlight' = (inFlight \ {b}) \cup {[b EXCEPT !.late = TRUE]}
    BY <1>7 DEF BecomesOverdue, pipelineVars
  <2>2. LET x == [b EXCEPT !.late = TRUE]
        IN  x.no = b.no /\ x.cells = b.cells /\ x.epoch = b.epoch
    BY DEF IInv, TypeOK, InFlight
  <2>3. \A x \in inFlight' : \E a \in inFlight :
           x.no = a.no /\ x.cells = a.cells /\ x.epoch = a.epoch
    BY <2>1, <2>2
  <2>4. QED
    BY <1>1, <2>1, <2>3, NothingNew
<1>8. CASE (\E seq \in 1 .. nextSeq : AckArrives(seq)) \/ UNCHANGED vars
  <2>1. UNCHANGED <<newest, epoch, produced, out, det, encoded, acked, inFlight>>
    BY <1>8 DEF AckArrives, vars, pipelineVars, senderVars
  <2>2. QED
    BY <1>1, <2>1, NothingNew
<1>9. QED
  BY <1>2, <1>3, <1>4, <1>5, <1>6, <1>7, <1>8 DEF Next, Recv, Handover

\* It holds in every state.
LEMMA DInvInvariant == Spec => []DInv
BY InitDInv, NextDInv, PTL DEF Spec

-----------------------------------------------------------------------------
(* Each step maps to a step of TileDelivery or a stutter. *)

\* The abstract steps, in terms of the mapped variables.
LEMMA DeliveryMoves ==
  /\ Delivery!Settled("travelling") = {"travelling", "awaiting"}
  /\ Delivery!Settled("awaiting") = {"awaiting", "acked", "reported", "armed"}
  /\ Delivery!Settled("swallowed") = {"swallowed", "reported"}
  /\ Delivery!Settled("acked") = {"acked"}
  /\ Delivery!Settled("reported") = {"reported"}
  /\ Delivery!Settled("armed") = {"armed"}
  /\ Delivery!Passed("armed") = {"armed", "swallowed", "reported"}
  /\ Delivery!Passed("swallowed") = {"swallowed", "armed"}
  /\ Delivery!Passed("reported") = {"reported", "armed"}
  /\ Delivery!Passed("acked") = {"acked"}
  /\ Delivery!Passed("travelling") = {"travelling"}
  /\ Delivery!Passed("awaiting") = {"awaiting"}
BY DEF Delivery!Settled, Delivery!Passed

\* The place of a cell.
LEMMA PlaceMapIs ==
  /\ open => /\ DOMAIN PlaceMap = DOMAIN det
             /\ \A c \in DOMAIN det : PlaceMap[c] = PlaceOf(c)
             /\ PlaceMap = [c \in DOMAIN det |-> PlaceOf(c)]
  /\ ~open => PlaceMap = [c \in {} |-> "armed"]
BY DEF PlaceMap

\* The place of a cell in the next state.
LEMMA PlaceMapIsNext ==
  /\ open' => /\ DOMAIN PlaceMap' = DOMAIN det'
              /\ \A c \in DOMAIN det' : PlaceMap'[c] = PlaceOf(c)'
              /\ PlaceMap' = [c \in DOMAIN det' |-> PlaceOf(c)']
  /\ ~open' => PlaceMap' = [c \in {} |-> "armed"]
BY DEF PlaceMap

\* Initial states map to initial states.
LEMMA InitDelivery == Init => Delivery!Init
BY PlaceMapIs DEF Init, Delivery!Init

\* Nothing happens to any cell.
LEMMA StutterDelivery ==
  ASSUME open, open', DOMAIN det' = DOMAIN det,
         \A c \in DOMAIN det : PlaceOf(c)' = PlaceOf(c)
  PROVE  UNCHANGED Delivery!vars
<1>1. PlaceMap' = PlaceMap
  BY PlaceMapIs, PlaceMapIsNext
<1>2. QED
  BY <1>1 DEF Delivery!vars

\* A pass of the send loop: the hand-over can only shrink, into batches.
LEMMA SendPassDelivery ==
  ASSUME DInv, open, open', UNCHANGED pipelineVars, DrainAcksAndExpire,
         Remaining \subseteq inFlight',
         \A c : InHandover(c)' => InHandover(c),
         \A c : InHandover(c) /\ ~InHandover(c)' => AwaitsAck(c)',
         \A c : AwaitsAck(c)' => AwaitsAck(c) \/ InHandover(c)
  PROVE  Delivery!Next
<1>0. IInv /\ NumbersInOrder /\ NewestIsCarried
  BY DEF DInv
<1>1. /\ UNCHANGED <<det, newest, epoch>>
      /\ acked' = acked \cup {b.no : b \in {x \in inFlight : x.seq \in acks}}
      /\ lost' = lost \cup {[epoch |-> b.epoch, cells |-> b.cells] : b \in Expired}
  BY DEF pipelineVars, DrainAcksAndExpire
<1>2. ASSUME NEW c \in DOMAIN det, newest[c] \in acked', newest[c] \notin acked
      PROVE  AwaitsAck(c) /\ ~InHandover(c)
  <2>1. PICK b \in inFlight : b.no = newest[c]
    BY <1>1, <1>2
  <2>2. AwaitsAck(c)
    BY <1>0, <2>1 DEF NewestIsCarried, NamesNewest, AwaitsAck
  <2>3. SUFFICES ASSUME InHandover(c) PROVE FALSE
    BY <2>2
  <2>4. \/ \E i \in 1 .. Len(out) : out[i].no = b.no
        \/ \E i \in 1 .. Len(encoded) : encoded[i].no = b.no
    BY <2>1, <2>3 DEF InHandover, Carries
  <2>5. b.no \in Nat
    BY <1>0, NumberTypes
  <2>6. QED
    BY <1>0, <2>4, <2>5 DEF NumbersInOrder
<1>3. ASSUME NEW c \in DOMAIN det
      PROVE  /\ Armed(c)' = Armed(c) /\ newest'[c] = newest[c]
             /\ ReportedLost(c) => ReportedLost(c)'
  BY <1>1 DEF Armed, ReportedLost
<1>4. ASSUME NEW c \in DOMAIN det, AwaitsAck(c)
      PROVE  newest[c] \in acked' \/ AwaitsAck(c)' \/ ReportedLost(c)'
  <2>1. PICK b \in inFlight : b.no = newest[c] /\ c \in b.cells /\ b.epoch = epoch
    BY <1>4 DEF AwaitsAck, Carries
  <2>2. CASE b.seq \in acks
    BY <1>1, <2>1, <2>2
  <2>3. CASE b \in Expired
    <3> DEFINE l == [epoch |-> b.epoch, cells |-> b.cells]
    <3>1. l \in lost' /\ l.epoch = epoch' /\ c \in l.cells
      BY <1>1, <2>1, <2>3
    <3>2. QED
      BY <3>1 DEF ReportedLost
  <2>4. CASE b \in Remaining
    BY <1>1, <2>1, <2>4 DEF AwaitsAck, Carries
  <2>5. QED
    BY <2>2, <2>3, <2>4 DEF Expired, Remaining
<1>5. ASSUME NEW c \in DOMAIN det
      PROVE  PlaceOf(c)' \in Delivery!Settled(PlaceOf(c))
  <2>1. CASE newest[c] \in acked
    BY <1>1, <1>3, <2>1, DeliveryMoves DEF PlaceOf
  <2>2. CASE newest[c] \notin acked /\ InHandover(c)
    BY <1>2, <1>3, <2>2, DeliveryMoves DEF PlaceOf
  <2>3. CASE newest[c] \notin acked /\ ~InHandover(c) /\ AwaitsAck(c)
    BY <1>3, <1>4, <2>3, DeliveryMoves DEF PlaceOf
  <2>4. CASE newest[c] \notin acked /\ ~InHandover(c) /\ ~AwaitsAck(c)
    <3>1. newest'[c] \notin acked' /\ ~InHandover(c)' /\ ~AwaitsAck(c)'
      BY <1>2, <1>3, <2>4
    <3>2. QED
      BY <1>3, <2>4, <3>1, DeliveryMoves DEF PlaceOf
  <2>5. QED
    BY <2>1, <2>2, <2>3, <2>4
<1>6. Delivery!SameGrid /\ Delivery!SendPass
  BY <1>1, <1>5, PlaceMapIs, PlaceMapIsNext DEF Delivery!SameGrid, Delivery!SendPass
<1>7. QED
  BY <1>6 DEF Delivery!Next

\* A drain of acknowledgements and timeouts is an abstract step.
LEMMA TickDelivery == ASSUME DInv, Tick PROVE Delivery!Next
<1>1. /\ open /\ open' /\ UNCHANGED pipelineVars /\ DrainAcksAndExpire
      /\ inFlight' = Remaining /\ Remaining \subseteq inFlight /\ encoded' = encoded
  BY DEF Tick, Remaining
<1>2. \A c : /\ InHandover(c)' => InHandover(c)
             /\ InHandover(c) => InHandover(c)'
             /\ AwaitsAck(c)' => AwaitsAck(c)
  BY <1>1 DEF InHandover, AwaitsAck, Carries, pipelineVars
<1>3. QED
  BY <1>1, <1>2, SendPassDelivery

\* A batch that is sent is an abstract step.
LEMMA SendFrameDelivery == ASSUME DInv, SendFrame PROVE Delivery!Next
<1>1. open /\ open' /\ Len(encoded) \in Nat
  BY NumberTypes DEF SendFrame, DInv
<1>2. /\ DrainAcksAndExpire /\ UNCHANGED pipelineVars /\ open' = open
      /\ Len(encoded) > 0 /\ Len(encoded') = Len(encoded) - 1
      /\ \A i \in 1 .. Len(encoded') : encoded'[i] = encoded[i + 1]
      /\ Remaining \subseteq inFlight /\ Remaining \subseteq inFlight'
      /\ \A b \in inFlight' : \/ b \in Remaining
                              \/ /\ b.no = encoded[1].no /\ b.cells = encoded[1].cells
                                 /\ b.epoch = encoded[1].epoch
      /\ encoded[1].cells # {} =>
           \E b \in inFlight' : /\ b.no = encoded[1].no /\ b.cells = encoded[1].cells
                                /\ b.epoch = encoded[1].epoch
  BY SendFrameShape DEF DInv
<1>3. UNCHANGED <<det, newest, epoch, out>>
  BY <1>2 DEF pipelineVars
<1>4. 1 \in 1 .. Len(encoded)
  BY <1>1, <1>2
<1>5. ASSUME NEW c, InHandover(c)' PROVE InHandover(c)
  <2>1. CASE \E i \in 1 .. Len(out') : Carries(out[i], c)'
    BY <1>3, <2>1 DEF InHandover, Carries
  <2>2. CASE \E i \in 1 .. Len(encoded') : Carries(encoded[i], c)'
    <3>1. PICK i \in 1 .. Len(encoded') : Carries(encoded[i], c)'
      BY <2>2
    <3>2. i + 1 \in 1 .. Len(encoded) /\ encoded'[i] = encoded[i + 1]
      BY <1>1, <1>2, <3>1
    <3>3. Carries(encoded[i + 1], c)
      BY <1>3, <3>1, <3>2 DEF Carries
    <3>4. QED
      BY <3>2, <3>3 DEF InHandover
  <2>3. QED
    BY <1>5, <2>1, <2>2 DEF InHandover
<1>6. ASSUME NEW c, InHandover(c), ~InHandover(c)' PROVE AwaitsAck(c)'
  <2>1. PICK i \in 1 .. Len(encoded) : Carries(encoded[i], c)
    BY <1>3, <1>6 DEF InHandover, Carries
  <2>2. i = 1
    <3> SUFFICES ASSUME i # 1 PROVE FALSE
      OBVIOUS
    <3>1. i - 1 \in 1 .. Len(encoded') /\ encoded'[i - 1] = encoded[(i - 1) + 1]
          /\ (i - 1) + 1 = i
      BY <1>1, <1>2, <2>1
    <3>2. Carries(encoded[i - 1], c)'
      BY <1>3, <2>1, <3>1 DEF Carries
    <3>3. QED
      BY <1>6, <3>1, <3>2 DEF InHandover
  <2>3. QED
    BY <1>2, <1>3, <2>1, <2>2 DEF AwaitsAck, Carries
<1>7. ASSUME NEW c, AwaitsAck(c)' PROVE AwaitsAck(c) \/ InHandover(c)
  BY <1>2, <1>3, <1>4, <1>7 DEF AwaitsAck, InHandover, Carries
<1>8. QED
  BY <1>1, <1>2, <1>5, <1>6, <1>7, SendPassDelivery

\* The session ends.
LEMMA OverDelivery == ASSUME SendFails \/ StreamEnds \/ Cancelled PROVE Delivery!Next
<1>1. open /\ open' = FALSE
  BY DEF SendFails, StreamEnds, Cancelled
<1>2. QED
  BY <1>1, PlaceMapIsNext DEF Delivery!Next, Delivery!Over

\* The reports arm their cells.
LEMMA DrainDelivery == ASSUME DInv, Drain PROVE Delivery!Next
<1>1. /\ open /\ open' /\ lost' = {} /\ det' = Invalidated
      /\ UNCHANGED <<epoch, out, newest, encoded, inFlight, acked>>
  BY DEF Drain, senderVars
<1>2. DOMAIN det' = DOMAIN det
  BY <1>1 DEF Invalidated
<1>3. ASSUME NEW c \in DOMAIN det
      PROVE  /\ newest'[c] = newest[c] /\ acked' = acked
             /\ InHandover(c)' = InHandover(c) /\ AwaitsAck(c)' = AwaitsAck(c)
             /\ ~ReportedLost(c)'
             /\ Armed(c)' = (Armed(c) \/ ReportedLost(c))
  <2>1. det[c] \in CellState
    BY DEF DInv, IInv, TypeOK
  <2>2. ForceRedetect(det[c]).prev = NoHash
    BY <2>1 DEF ForceRedetect, CellState
  <2>3. det'[c] = IF ReportedLost(c) THEN ForceRedetect(det[c]) ELSE det[c]
    BY <1>1 DEF Invalidated, ReportedLost
  <2>4. Armed(c)' = (Armed(c) \/ ReportedLost(c))
    BY <2>2, <2>3 DEF Armed
  <2>5. QED
    BY <1>1, <2>4 DEF InHandover, AwaitsAck, Carries, ReportedLost
<1>4. ASSUME NEW c \in DOMAIN det
      PROVE  PlaceOf(c)' = IF PlaceOf(c) = "reported" THEN "armed" ELSE PlaceOf(c)
  BY <1>3 DEF PlaceOf
<1>5. Delivery!SameGrid /\ Delivery!Rearm
  BY <1>1, <1>2, <1>4, PlaceMapIs, PlaceMapIsNext DEF Delivery!SameGrid, Delivery!Rearm
<1>6. QED
  BY <1>1, <1>5 DEF Delivery!Next

\* A frame carries some cells and passes the others by, or starts a new grid.
LEMMA ProcessDelivery ==
  ASSUME DInv, NEW size \in Size, NEW pix \in [Grid[size] -> Pixels],
         NEW dmg \in SUBSET Grid[size], NEW refresh \in BOOLEAN,
         NEW covered \in SUBSET Grid[size],
         Process(size, pix, dmg, refresh, covered)
  PROVE  open => Delivery!Next
<1>0. IInv
  BY DEF DInv
<1>0a. NumbersInOrder
  BY DEF DInv
<1>1. /\ out = <<>> /\ DOMAIN det' = Grid[size]
      /\ size = screenSize => DOMAIN det = Grid[size] /\ epoch' = epoch
      /\ size # screenSize => covered = Grid[size]
      /\ UNCHANGED <<encoded, lost, open, inFlight, acked>>
  BY <1>0, ProcessNumbers
<1>1a. \/ /\ size = screenSize /\ covered = {} /\ out' = <<>>
          /\ newest' = newest /\ produced' = produced
       \/ /\ produced' = produced + 1
          /\ newest' = [c \in Grid[size] |-> IF c \in covered THEN produced + 1
                                             ELSE newest[c]]
          /\ \E f : out' = <<f>> /\ f.no = produced + 1 /\ f.cells = covered
                                 /\ f.epoch = epoch'
  BY <1>0, ProcessNumbers
<1> SUFFICES ASSUME open PROVE Delivery!Next
  OBVIOUS
<1>2. ASSUME NEW c \in covered PROVE PlaceOf(c)' = "travelling"
  <2>1. newest'[c] = produced + 1
    BY <1>1, <1>1a
  <2>2. PICK f : out' = <<f>> /\ f.no = produced + 1 /\ f.cells = covered /\ f.epoch = epoch'
    BY <1>1, <1>1a
  <2>3. 1 \in 1 .. Len(out') /\ Carries(out[1], c)'
    BY <2>1, <2>2 DEF Carries
  <2>4. InHandover(c)'
    BY <2>3 DEF InHandover
  <2>5. newest'[c] \notin acked'
    <3>1. produced \in Nat /\ \A n \in acked : n \in Nat /\ n <= produced
      BY <1>0, <1>0a, NumberTypes DEF NumbersInOrder
    <3>2. QED
      BY <1>1, <1>1a, <2>1, <3>1
  <2>6. QED
    BY <2>4, <2>5 DEF PlaceOf
<1>3. ASSUME NEW c \in Grid[size] \ covered
      PROVE  PlaceOf(c)' \in Delivery!Passed(PlaceOf(c))
  <2>1. size = screenSize /\ epoch' = epoch /\ newest'[c] = newest[c] /\ c \in DOMAIN det
    BY <1>1, <1>1a
  <2>2. \A i \in 1 .. Len(out') : c \notin out'[i].cells
    BY <1>1, <1>1a
  <2>3. InHandover(c)' = InHandover(c)
    BY <1>1, <1>1a, <2>1, <2>2 DEF InHandover, Carries
  <2>4. AwaitsAck(c)' = AwaitsAck(c) /\ ReportedLost(c)' = ReportedLost(c)
    BY <1>1, <1>1a, <2>1 DEF AwaitsAck, Carries, ReportedLost
  <2>5. QED
    BY <1>1, <1>1a, <2>1, <2>3, <2>4, DeliveryMoves DEF PlaceOf
<1>4. CASE size = screenSize
  <2>1. Delivery!SameGrid /\ Delivery!Frame(covered) /\ covered \in SUBSET DOMAIN PlaceMap
    BY <1>1, <1>1a, <1>2, <1>3, <1>4, PlaceMapIs, PlaceMapIsNext
       DEF Delivery!SameGrid, Delivery!Frame
  <2>2. QED
    BY <2>1 DEF Delivery!Next
<1>5. CASE size # screenSize
  <2>1. PlaceMap' = [c \in Grid[size] |-> "travelling"]
    BY <1>1, <1>1a, <1>2, <1>5, PlaceMapIsNext
  <2>2. Grid[size] \in (SUBSET Cell) \ {{}}
    BY SessionAssumption
  <2>3. QED
    BY <1>1, <1>1a, <2>1, <2>2 DEF Delivery!Next, Delivery!Resize
<1>6. QED
  BY <1>4, <1>5

\* Queueing is a stutter.
LEMMA EnqueueDelivery == ASSUME DInv, Enqueue PROVE UNCHANGED Delivery!vars
<1>1. /\ Len(out) = 1 /\ Len(out') = 0
      /\ Len(encoded') = Len(encoded) + 1
      /\ \A i \in 1 .. Len(encoded) : encoded'[i] = encoded[i]
      /\ encoded'[Len(encoded) + 1] = out[1]
      /\ UNCHANGED <<epoch, det, newest, produced, lost, open, inFlight, acked>>
  BY EnqueueShape DEF DInv
<1>2. Len(encoded) \in Nat /\ open
  BY NumberTypes DEF DInv, Enqueue
<1>3. ASSUME NEW c PROVE InHandover(c)' <=> InHandover(c)
  <2>1. ASSUME InHandover(c)' PROVE InHandover(c)
    <3>1. PICK i \in 1 .. Len(encoded') : Carries(encoded[i], c)'
      BY <1>1, <2>1 DEF InHandover
    <3>2. CASE i \in 1 .. Len(encoded)
      BY <1>1, <3>1, <3>2 DEF InHandover, Carries
    <3>3. CASE i = Len(encoded) + 1
      <4>1. 1 \in 1 .. Len(out) /\ Carries(out[1], c)
        BY <1>1, <3>1, <3>3 DEF Carries
      <4>2. QED
        BY <4>1 DEF InHandover
    <3>4. QED
      BY <1>1, <1>2, <3>2, <3>3
  <2>2. ASSUME InHandover(c) PROVE InHandover(c)'
    <3>1. CASE \E i \in 1 .. Len(out) : Carries(out[i], c)
      <4>1. Carries(out[1], c) /\ Len(encoded) + 1 \in 1 .. Len(encoded')
        BY <1>1, <1>2, <3>1
      <4>2. \E k \in 1 .. Len(encoded') : Carries(encoded[k], c)'
        BY <1>1, <4>1 DEF Carries
      <4>3. QED
        BY <4>2 DEF InHandover
    <3>2. CASE \E i \in 1 .. Len(encoded) : Carries(encoded[i], c)
      <4>1. \A i \in 1 .. Len(encoded) : i \in 1 .. Len(encoded')
        BY <1>1, <1>2
      <4>2. \E k \in 1 .. Len(encoded') : Carries(encoded[k], c)'
        BY <1>1, <3>2, <4>1 DEF Carries
      <4>3. QED
        BY <4>2 DEF InHandover
    <3>3. QED
      BY <2>2, <3>1, <3>2 DEF InHandover
  <2>3. QED
    BY <2>1, <2>2
<1>4. ASSUME NEW c \in DOMAIN det PROVE PlaceOf(c)' = PlaceOf(c)
  <2>1. AwaitsAck(c)' = AwaitsAck(c) /\ ReportedLost(c)' = ReportedLost(c)
        /\ Armed(c)' = Armed(c) /\ newest'[c] = newest[c] /\ acked' = acked
    BY <1>1 DEF AwaitsAck, Carries, ReportedLost, Armed
  <2>2. QED
    BY <1>3, <2>1 DEF PlaceOf
<1>5. QED
  BY <1>1, <1>2, <1>4, StutterDelivery

\* A step that moves no content.
LEMMA OtherDelivery ==
  ASSUME open, open',
         UNCHANGED <<det, newest, epoch, acked, out, encoded, lost>>,
         \A c : AwaitsAck(c)' = AwaitsAck(c)
  PROVE  UNCHANGED Delivery!vars
<1>1. ASSUME NEW c \in DOMAIN det PROVE PlaceOf(c)' = PlaceOf(c)
  <2>1. InHandover(c)' = InHandover(c) /\ ReportedLost(c)' = ReportedLost(c)
        /\ Armed(c)' = Armed(c) /\ newest'[c] = newest[c] /\ AwaitsAck(c)' = AwaitsAck(c)
    BY DEF InHandover, Carries, ReportedLost, Armed
  <2>2. QED
    BY <2>1 DEF PlaceOf
<1>2. QED
  BY <1>1, StutterDelivery

\* Once the send loop is gone it stays gone.
LEMMA ClosedDelivery == ASSUME ~open, [Next]_vars PROVE UNCHANGED Delivery!vars
<1>1. open' = open
  <2>1. CASE Drain \/ ProcessingStops \/ RecvTimeout \/ CaptureDisconnected \/ Handover
    BY <2>1 DEF Drain, ProcessingStops, RecvTimeout, CaptureDisconnected, Handover, Enqueue,
                EnqueueFails
  <2>2. CASE NextFrame
    BY <2>2 DEF NextFrame, Process
  <2>3. CASE Tick \/ SendFrame \/ SendFails \/ StreamEnds \/ Cancelled
    BY <2>3 DEF Tick, SendFrame, SendFails, StreamEnds, Cancelled
  <2>4. CASE \E b \in inFlight : BecomesOverdue(b)
    BY <2>4 DEF BecomesOverdue
  <2>5. CASE \E seq \in 1 .. nextSeq : AckArrives(seq)
    BY <2>5 DEF AckArrives
  <2>6. CASE UNCHANGED vars
    BY <2>6 DEF vars
  <2>7. QED
    BY <2>1, <2>2, <2>3, <2>4, <2>5, <2>6 DEF Next, Recv
<1>2. PlaceMap' = PlaceMap
  BY <1>1, PlaceMapIs, PlaceMapIsNext
<1>3. QED
  BY <1>1, <1>2 DEF Delivery!vars

\* Every step is an abstract step or a stutter.
LEMMA NextDelivery == DInv /\ [Next]_vars => [Delivery!Next]_(Delivery!vars)
<1> SUFFICES ASSUME DInv, [Next]_vars, open
             PROVE  Delivery!Next \/ UNCHANGED Delivery!vars
  BY ClosedDelivery
<1>1. CASE Drain
  BY <1>1, DrainDelivery
<1>2. CASE NextFrame
  BY <1>2, ProcessDelivery DEF NextFrame
<1>3. CASE Enqueue
  BY <1>3, EnqueueDelivery
<1>4. CASE Tick
  BY <1>4, TickDelivery
<1>5. CASE SendFrame
  BY <1>5, SendFrameDelivery
<1>6. CASE SendFails \/ StreamEnds \/ Cancelled
  BY <1>6, OverDelivery
<1>7. CASE RecvTimeout \/ CaptureDisconnected \/ ProcessingStops \/ EnqueueFails
  <2>1. /\ UNCHANGED <<det, newest, epoch, acked, out, encoded, lost, inFlight>>
        /\ open'
    BY <1>7 DEF RecvTimeout, CaptureDisconnected, ProcessingStops, EnqueueFails, senderVars
  <2>2. \A c : AwaitsAck(c)' = AwaitsAck(c)
    BY <2>1 DEF AwaitsAck, Carries
  <2>3. QED
    BY <2>1, <2>2, OtherDelivery
<1>8. ASSUME NEW b \in inFlight, BecomesOverdue(b) PROVE UNCHANGED Delivery!vars
  <2> DEFINE b2 == [b EXCEPT !.late = TRUE]
  <2>1. /\ UNCHANGED <<det, newest, epoch, acked, out, encoded, lost>> /\ open'
        /\ inFlight' = (inFlight \ {b}) \cup {b2}
    BY <1>8 DEF BecomesOverdue, pipelineVars
  <2>2. b2.no = b.no /\ b2.cells = b.cells /\ b2.epoch = b.epoch
    BY DEF DInv, IInv, TypeOK, InFlight
  <2> HIDE DEF b2
  <2>3. \A c : Carries(b2, c)' <=> Carries(b, c)
    BY <2>1, <2>2 DEF Carries
  <2>4. \A c : AwaitsAck(c)' = AwaitsAck(c)
    BY <2>1, <2>2 DEF AwaitsAck, Carries
  <2>5. QED
    BY <2>1, <2>4, OtherDelivery
<1>9. CASE (\E seq \in 1 .. nextSeq : AckArrives(seq)) \/ UNCHANGED vars
  <2>1. UNCHANGED <<det, newest, epoch, acked, out, encoded, lost, inFlight>> /\ open'
    BY <1>9 DEF AckArrives, vars, pipelineVars, senderVars
  <2>2. \A c : AwaitsAck(c)' = AwaitsAck(c)
    BY <2>1 DEF AwaitsAck, Carries
  <2>3. QED
    BY <2>1, <2>2, OtherDelivery
<1>10. QED
  BY <1>1, <1>2, <1>3, <1>4, <1>5, <1>6, <1>7, <1>8, <1>9 DEF Next, Recv, Handover

\* A session, with its threads, queues, epochs and lost messages, implements
\* the delivery of every cell.
THEOREM SessionDelivers == Spec => DeliversEveryCell
BY InitDelivery, NextDelivery, DInvInvariant, PTL DEF Spec, DeliversEveryCell, Delivery!Spec

=============================================================================
