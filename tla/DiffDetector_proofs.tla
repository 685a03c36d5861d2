------------------------- MODULE DiffDetector_proofs -------------------------
(***************************************************************************)
(* Theorems about the change detector, for every tile grid, every pixel    *)
(* content and every pair of send intervals.                               *)
(*                                                                         *)
(* The inductive invariant is IInv: the type invariant, Consistent for     *)
(* every cell (see DiffCell_proofs), and the two properties that relate a  *)
(* cell to the last frame and to what was last sent.  None of the safety   *)
(* properties is inductive alone: that a held cell is one the refresh      *)
(* re-arms rests on its two remembered hashes being different, and that an *)
(* armed cell is sent rests on the half hash being zeroed with the full    *)
(* one.                                                                    *)
(***************************************************************************)
EXTENDS DiffDetector, Tiles_proofs

CellsConsistent == \A c \in DOMAIN det : Consistent(det[c])

IInv ==
  /\ TypeOK
  /\ CellsConsistent
  /\ BaselineFollowsFrame
  /\ HeldCellIsRefreshed

-----------------------------------------------------------------------------
\* The cells one frame starts from are all ready for it.
LEMMA FrameIsReady ==
  ASSUME IInv, NEW G \in Grids, FirstFrame \/ G = DOMAIN det
  PROVE  LET old == IF FirstFrame THEN [c \in G |-> Blank] ELSE det IN
         /\ old \in [G -> CellState]
         /\ \A c \in G : Ready(old[c], FirstFrame)
<1>1. CASE FirstFrame
  BY <1>1, BlankType DEF Ready
<1>2. CASE ~FirstFrame
  BY <1>2 DEF IInv, TypeOK, CellsConsistent, Ready
<1>3. QED
  BY <1>1, <1>2

\* A new detector.
LEMMA InitIInv == Init => IInv
<1> SUFFICES ASSUME Init PROVE IInv
  OBVIOUS
<1>1. DOMAIN det = {} /\ DOMAIN shown = {} /\ DOMAIN frame = {}
  BY DEF Init, Empty
<1>2. TypeOK
  <2>1. det \in [{} -> CellState] /\ frame \in [{} -> Pixels] /\ shown \in [{} -> Pixels]
    BY DEF Init, Empty
  <2>2. {} \in Grids \cup {{}}
    OBVIOUS
  <2>3. count \in 0 .. MaxInterval /\ sent \subseteq {}
    BY MaxIntervalNat DEF Init
  <2>4. still \in BOOLEAN
    BY DEF Init
  <2>5. QED
    BY <2>1, <2>2, <2>3, <2>4 DEF TypeOK
<1>3. QED
  BY <1>1, <1>2 DEF IInv, CellsConsistent, BaselineFollowsFrame, HeldCellIsRefreshed

\* A frame.
LEMMA DetectChangesIInv ==
  ASSUME IInv, NEW G \in Grids, NEW pix \in [G -> Pixels], NEW dmg \in SUBSET G,
         DetectChanges(G, pix, dmg)
  PROVE  IInv'
<1> DEFINE first == FirstFrame
           old   == IF first THEN [c \in G |-> Blank] ELSE det
           n     == Saturate(count + 1)
           out   == {c \in G : Sends(old[c], first, n, pix[c], c \notin dmg)}
           new(c) == Detected(old[c], first, n, pix[c], c \notin dmg)
<1>1. /\ first \/ G = DOMAIN det
      /\ ~first => \A c \in G : pix[c] # frame[c] => c \in dmg
      /\ count' = n
      /\ det' = [c \in G |-> new(c)]
      /\ sent' = out
      /\ shown' = [c \in G |-> IF c \in out THEN pix[c] ELSE shown[c]]
      /\ frame' = pix
      /\ still' = still
  BY DEF DetectChanges
<1>2. n \in 0 .. MaxInterval
  BY SaturateType, MaxIntervalNat DEF IInv, TypeOK
<1>3. old \in [G -> CellState] /\ \A c \in G : Ready(old[c], first)
  BY <1>1, FrameIsReady
<1>4. first \in BOOLEAN
  BY DEF FirstFrame
<1> HIDE DEF first, old, n
<1>5. ASSUME NEW c \in G
      PROVE  /\ new(c) \in CellState
             /\ Consistent(new(c))
             /\ new(c).prev # NoHash
             /\ ~Changes(old[c], first, pix[c], c \notin dmg) =>
                  /\ new(c).prev = old[c].prev
                  /\ new(c).sent = old[c].sent
                  /\ new(c).dyn = old[c].dyn
             /\ c \in dmg => new(c).prev.even = pix[c].even
             /\ Changes(old[c], first, pix[c], c \notin dmg) => new(c).prev = pix[c]
             /\ Holds(old[c], first, n, pix[c], c \notin dmg) => ~new(c).sent \/ new(c).dyn
  <2> DEFINE m == old[c]
             p == pix[c]
             outside == c \notin dmg
  <2>1. m \in CellState /\ p \in Pixels /\ Ready(m, first)
    BY <1>3
  <2>2. outside \in BOOLEAN /\ (c \in dmg <=> ~outside)
    OBVIOUS
  <2>3. new(c) = Detected(m, first, n, p, outside)
    OBVIOUS
  <2> HIDE DEF m, p, outside, new
  <2>4. new(c) \in CellState
    BY <1>2, <1>4, <2>1, <2>2, <2>3, DetectedType
  <2>5. /\ Consistent(new(c))
        /\ new(c).prev # NoHash
        /\ ~Changes(m, first, p, outside) =>
             /\ new(c).prev = m.prev
             /\ new(c).sent = m.sent
             /\ new(c).dyn = m.dyn
        /\ ~outside => new(c).prev.even = p.even
        /\ Changes(m, first, p, outside) => new(c).prev = p
        /\ Holds(m, first, n, p, outside) => ~new(c).sent \/ new(c).dyn
    BY <1>2, <1>4, <2>1, <2>2, <2>3, DetectedConsistent
  <2>6. QED
    BY <2>2, <2>4, <2>5 DEF m, p, outside
<1>6. ASSUME NEW c \in G, first
      PROVE  c \in out
  BY <1>2, <1>3, <1>6, FirstIsSent
<1>7. ~first => /\ DOMAIN det = G /\ old = det
                /\ shown \in [G -> Pixels] /\ frame \in [G -> Pixels]
  BY <1>1 DEF IInv, TypeOK, old
<1>8. shown' \in [G -> Pixels]
  BY <1>1, <1>6, <1>7
<1>9. TypeOK'
  <2>1. det' \in [G -> CellState] /\ frame' \in [G -> Pixels] /\ sent' \subseteq G
    BY <1>1, <1>5
  <2>2. G \in Grids \cup {{}} /\ count' \in 0 .. MaxInterval /\ still' \in BOOLEAN
    BY <1>1, <1>2 DEF IInv, TypeOK
  <2>3. QED
    BY <1>8, <2>1, <2>2 DEF TypeOK
<1>10. CellsConsistent'
  BY <1>1, <1>5 DEF CellsConsistent
<1>11. BaselineFollowsFrame'
  <2> SUFFICES ASSUME NEW c \in G
               PROVE  new(c).prev.even = pix[c].even
    BY <1>1 DEF BaselineFollowsFrame
  <2>1. CASE c \in dmg
    BY <2>1, <1>5
  <2>2. CASE Changes(old[c], first, pix[c], c \notin dmg)
    BY <2>2, <1>5
  <2>3. CASE c \notin dmg /\ ~Changes(old[c], first, pix[c], c \notin dmg)
    <3>1. ~first
      BY <2>3, <1>6, <1>1 DEF Sends
    <3>2. pix[c] = frame[c] /\ c \in DOMAIN det /\ old[c] = det[c]
      BY <2>3, <3>1, <1>1, <1>7
    <3>3. new(c).prev = det[c].prev /\ det[c].prev # NoHash
      BY <2>3, <3>2, <1>5
    <3>4. QED
      BY <3>2, <3>3 DEF BaselineFollowsFrame, IInv
  <2>4. QED
    BY <2>1, <2>2, <2>3
<1>12. HeldCellIsRefreshed'
  <2> SUFFICES ASSUME NEW c \in G
               PROVE  \/ new(c).prev = NoHash
                      \/ new(c).prev = shown'[c]
                      \/ new(c).dyn
                      \/ ~new(c).sent /\ new(c).prev # NoHash
    BY <1>1 DEF HeldCellIsRefreshed, Swallowed
  <2>1. CASE Sends(old[c], first, n, pix[c], c \notin dmg)
    BY <2>1, <1>1, <1>5 DEF Sends
  <2>2. CASE Holds(old[c], first, n, pix[c], c \notin dmg)
    BY <2>2, <1>5
  <2>3. CASE ~Changes(old[c], first, pix[c], c \notin dmg)
    <3>1. ~first /\ c \notin out
      BY <2>3, <1>1, <1>6 DEF Sends
    <3>2. old[c] = det[c] /\ c \in DOMAIN det /\ shown'[c] = shown[c]
      BY <3>1, <1>1, <1>7
    <3>3. QED
      BY <2>3, <3>2, <1>5 DEF HeldCellIsRefreshed, Swallowed, IInv
  <2>4. QED
    BY <2>1, <2>2, <2>3 DEF Sends, Holds
<1>13. QED
  BY <1>9, <1>10, <1>11, <1>12 DEF IInv

\* Arming any set of cells: invalidate_tiles and invalidate_cache.
LEMMA ArmingIInv ==
  ASSUME IInv, NEW S,
         det' = [c \in DOMAIN det |-> IF c \in S THEN ForceRedetect(det[c]) ELSE det[c]],
         UNCHANGED <<count, frame, sent, shown, still>>
  PROVE  IInv'
<1>1. ASSUME NEW c \in DOMAIN det
      PROVE  /\ det[c] \in CellState
             /\ ForceRedetect(det[c]) \in CellState
             /\ Consistent(ForceRedetect(det[c]))
             /\ ForceRedetect(det[c]).prev = NoHash
  <2>1. det[c] \in CellState
    BY DEF IInv, TypeOK
  <2>2. QED
    BY <2>1, ForceRedetectType, ForceRedetectConsistent
<1>2. TypeOK'
  <2>1. PICK G \in Grids \cup {{}} : /\ det \in [G -> CellState]
                                     /\ frame \in [G -> Pixels]
                                     /\ shown \in [G -> Pixels]
                                     /\ sent \subseteq G
    BY DEF IInv, TypeOK
  <2>2. det' \in [G -> CellState]
    BY <1>1, <2>1
  <2>3. QED
    BY <2>1, <2>2 DEF IInv, TypeOK
<1>3. CellsConsistent'
  BY <1>1 DEF IInv, CellsConsistent
<1>4. BaselineFollowsFrame'
  BY <1>1 DEF IInv, BaselineFollowsFrame
<1>5. HeldCellIsRefreshed'
  BY <1>1 DEF IInv, HeldCellIsRefreshed, Swallowed
<1>6. QED
  BY <1>2, <1>3, <1>4, <1>5 DEF IInv

\* reset keeps the invariant.
LEMMA ResetIInv == ASSUME IInv, Reset PROVE IInv'
<1>1. DOMAIN det' = {} /\ still' \in BOOLEAN
  BY DEF Reset, Empty, IInv, TypeOK
<1>2. TypeOK'
  <2>1. det' \in [{} -> CellState] /\ frame' \in [{} -> Pixels] /\ shown' \in [{} -> Pixels]
    BY DEF Reset, Empty
  <2>2. {} \in Grids \cup {{}}
    OBVIOUS
  <2>3. count' \in 0 .. MaxInterval /\ sent' \subseteq {}
    BY MaxIntervalNat DEF Reset
  <2>4. QED
    BY <1>1, <2>1, <2>2, <2>3 DEF TypeOK
<1>3. QED
  BY <1>1, <1>2 DEF IInv, CellsConsistent, BaselineFollowsFrame, HeldCellIsRefreshed

\* So does a screen that stops changing.
LEMMA FreezeIInv == ASSUME IInv, Freeze PROVE IInv'
<1>1. TypeOK'
  BY DEF IInv, TypeOK, Freeze
<1>2. QED
  BY <1>1 DEF IInv, CellsConsistent, BaselineFollowsFrame, HeldCellIsRefreshed,
              Swallowed, Freeze

\* Every step keeps the invariant.
LEMMA NextIInv == IInv /\ [Next]_vars => IInv'
<1> SUFFICES ASSUME IInv, [Next]_vars PROVE IInv'
  OBVIOUS
<1>1. CASE NextFrame
  BY <1>1, DetectChangesIInv DEF NextFrame
<1>2. ASSUME NEW S \in SUBSET Cell, InvalidateTiles(S)
      PROVE  IInv'
  BY <1>2, ArmingIInv DEF InvalidateTiles
<1>3. CASE InvalidateCache
  <2> DEFINE S == {c \in DOMAIN det : det[c].dyn}
  <2>1. det' = [c \in DOMAIN det |-> IF c \in S THEN ForceRedetect(det[c]) ELSE det[c]]
    BY <1>3 DEF InvalidateCache
  <2>2. QED
    BY <1>3, <2>1, ArmingIInv DEF InvalidateCache
<1>4. CASE Reset
  BY <1>4, ResetIInv
<1>5. CASE Freeze
  BY <1>5, FreezeIInv
<1>6. CASE UNCHANGED vars
  BY <1>6 DEF vars, IInv, TypeOK, CellsConsistent, BaselineFollowsFrame,
              HeldCellIsRefreshed, Swallowed
<1>7. QED
  BY <1>1, <1>2, <1>3, <1>4, <1>5, <1>6 DEF Next

\* The invariant holds in every state.
LEMMA IInvInvariant == Spec => []IInv
BY InitIInv, NextIInv, PTL DEF Spec

-----------------------------------------------------------------------------
\* The detector's arrays always have the size of one grid and hold what their
\* types say.
THEOREM TypeCorrect == Spec => []TypeOK
BY IInvInvariant, PTL DEF IInv

\* The half hash and the full hash of a cell never disagree.
THEOREM HashesStayInLockstep == Spec => []HashesInLockstep
<1>1. IInv => HashesInLockstep
  BY DEF IInv, CellsConsistent, Consistent, HashesInLockstep
<1>2. QED
  BY <1>1, IInvInvariant, PTL

\* Damage never hides a cell whose baseline was zeroed.
THEOREM ArmedStaysForced == Spec => []ArmedCellIsForced
<1>1. IInv => ArmedCellIsForced
  BY DEF IInv, CellsConsistent, Consistent, ArmedCellIsForced
<1>2. QED
  BY <1>1, IInvInvariant, PTL

\* The baseline agrees with the last frame on the hashed rows.
THEOREM BaselineIsCurrent == Spec => []BaselineFollowsFrame
BY IInvInvariant, PTL DEF IInv

\* A throttled cell is one the periodic refresh re-arms, or a swallowed re-send.
THEOREM HeldIsRefreshed == Spec => []HeldCellIsRefreshed
BY IInvInvariant, PTL DEF IInv

\* An armed cell is sent by the first frame that compares it, once frame_count
\* has reached the static interval.
THEOREM ArmedIsSent == Spec => ArmedCellIsSent
<1> DEFINE Step == \A c \in DOMAIN det :
                     (/\ det[c].prev = NoHash
                      /\ c \in DOMAIN det'
                      /\ det'[c].prev # NoHash
                      /\ count' >= StaticInterval) => c \in sent'
<1>1. IInv /\ [Next]_vars => Step
  <2> SUFFICES ASSUME IInv, [Next]_vars,
                      NEW c \in DOMAIN det,
                      det[c].prev = NoHash,
                      c \in DOMAIN det',
                      det'[c].prev # NoHash,
                      count' >= StaticInterval
               PROVE  c \in sent'
    OBVIOUS
  <2>1. ASSUME NEW G \in Grids, NEW pix \in [G -> Pixels], NEW dmg \in SUBSET G,
               DetectChanges(G, pix, dmg)
        PROVE  c \in sent'
    <3> DEFINE n == Saturate(count + 1)
    <3>1. FirstFrame = FALSE /\ G = DOMAIN det
      BY <2>1 DEF DetectChanges, FirstFrame
    <3>2. /\ count' = n
          /\ sent' = {x \in G : Sends(det[x], FALSE, n, pix[x], x \notin dmg)}
      BY <2>1, <3>1 DEF DetectChanges
    <3>3. det[c] \in CellState /\ Ready(det[c], FALSE) /\ ~det[c].sent
      BY DEF IInv, TypeOK, CellsConsistent, Consistent, Ready
    <3>4. Changes(det[c], FALSE, pix[c], c \notin dmg)
      BY <3>1, <3>3, ChangedIsHashed
    <3>5. SinceSent(det[c], n) = n /\ ~IsDynamic(det[c], FALSE, pix[c])
      BY <3>3 DEF SinceSent, IsDynamic
    <3>6. ShouldSend(det[c], FALSE, n, pix[c])
      BY <3>2, <3>5 DEF ShouldSend
    <3>7. QED
      BY <3>1, <3>2, <3>4, <3>6 DEF Sends
  <2>2. ASSUME NEW S, det' = [x \in DOMAIN det |-> IF x \in S THEN ForceRedetect(det[x])
                                                   ELSE det[x]]
        PROVE  FALSE
    BY <2>2, ForceRedetectConsistent DEF IInv, TypeOK
  <2>3. CASE Reset
    BY <2>3 DEF Reset, Empty
  <2>4. CASE Freeze \/ UNCHANGED vars
    BY <2>4 DEF Freeze, vars
  <2>5. CASE InvalidateCache
    <3> DEFINE S == {x \in DOMAIN det : det[x].dyn}
    <3>1. det' = [x \in DOMAIN det |-> IF x \in S THEN ForceRedetect(det[x]) ELSE det[x]]
      BY <2>5 DEF InvalidateCache
    <3>2. QED
      BY <3>1, <2>2
  <2>6. ASSUME NEW S \in SUBSET Cell, InvalidateTiles(S)
        PROVE  c \in sent'
    BY <2>2, <2>6 DEF InvalidateTiles
  <2>7. QED
    BY <2>1, <2>3, <2>4, <2>5, <2>6 DEF Next, NextFrame
<1>2. Spec => [][Step]_vars
  BY <1>1, IInvInvariant, PTL DEF Spec
<1>3. QED
  BY <1>2 DEF ArmedCellIsSent

=============================================================================
