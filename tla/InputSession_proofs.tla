------------------------- MODULE InputSession_proofs -------------------------
(***************************************************************************)
(* Theorems about remote control, for every set of keys, every modifier    *)
(* map and every queue length.                                             *)
(*                                                                         *)
(* HostMatchesHeld is inductive only together with what holds before the   *)
(* injector runs (nothing held, nothing down) and without a keyboard (no   *)
(* key is ever recorded); NothingStuck then follows at the step that ends  *)
(* the thread.                                                             *)
(***************************************************************************)
EXTENDS RemoteControl, FiniteSetTheorems, SequenceTheorems, TLAPS

NothingBefore ==
  thread \in {"connecting", "draining"} =>
    /\ keys = {} /\ buttons = {} /\ locked = {}
    /\ hostKeys = {} /\ hostButtons = {} /\ hostMods = <<{}, {}>>

NoKeyboardNoKeys == ~HasKeyboard => keys = {}

IInv ==
  /\ TypeOK
  /\ HostMatchesHeld
  /\ NothingStuck
  /\ NothingBefore
  /\ NoKeyboardNoKeys

\* The bits some key of K maps to, as HostMatchesHeld writes them.
LEMMA DepressedIs ==
  ASSUME NEW K \in SUBSET Accepted
  PROVE  /\ Depressed(K) = {b \in Bit : \E k \in K : b \in ModifierBit[k]}
         /\ Depressed(K) \in SUBSET Bit
BY InputAssumption DEF Depressed

\* The locks after a key event.
LEMMA LockedAfterType ==
  ASSUME TypeOK, NEW e \in [kind : {"key"}, code : Key, pressed : BOOLEAN]
  PROVE  LockedAfter(e) \in SUBSET Bit
BY InputAssumption DEF TypeOK, LockedAfter, Toggle

\* The two ends of a sequence.
LEMMA HeadTail ==
  ASSUME TypeOK, queue # <<>>
  PROVE  Head(queue) \in InputEvent /\ Tail(queue) \in Seq(InputEvent)
BY DEF TypeOK

\* A key event keeps the compositor and HeldState together.
LEMMA InjectKeyMatches ==
  ASSUME TypeOK, HostMatchesHeld, NoKeyboardNoKeys, thread = "running",
         NEW e \in InputEvent, InjectKey(e)
  PROVE  /\ keys' \in SUBSET Accepted /\ hostKeys' = keys'
         /\ buttons' = buttons /\ hostButtons' = buttons
         /\ locked' \in SUBSET Bit
         /\ hostMods' = <<Depressed(keys'), locked'>>
         /\ NoKeyboardNoKeys'
<1>1. e \in [kind : {"key"}, code : Key, pressed : BOOLEAN]
  BY DEF InjectKey, InputEvent
<1>2. hostMods = <<Depressed(keys), locked>>
  <2>1. hostMods = <<hostMods[1], hostMods[2]>>
    BY DEF TypeOK
  <2>2. hostMods[1] = Depressed(keys) /\ hostMods[2] = locked
    BY DepressedIs DEF TypeOK, HostMatchesHeld
  <2>3. QED
    BY <2>1, <2>2
<1>3. hostKeys = keys /\ hostButtons = buttons /\ keys \in SUBSET Accepted
  BY DEF TypeOK, HostMatchesHeld
<1>4. CASE HasKeyboard /\ KeyChanges(e)
  <2>1. e.code \in Accepted
    BY <1>4 DEF KeyChanges
  <2>2. /\ keys' = Edit(keys, e.code, e.pressed)
        /\ hostKeys' = Edit(hostKeys, e.code, e.pressed)
        /\ locked' = LockedAfter(e)
        /\ buttons' = buttons /\ hostButtons' = hostButtons
    BY <1>4 DEF InjectKey
  <2>3. keys' \in SUBSET Accepted
    BY <1>3, <2>1, <2>2 DEF Edit
  <2>4. hostMods' = <<Depressed(keys'), locked'>>
    BY <1>2, <1>4, <2>2 DEF InjectKey
  <2>5. QED
    BY <1>1, <1>3, <1>4, <2>2, <2>3, <2>4, LockedAfterType DEF NoKeyboardNoKeys
<1>5. CASE ~(HasKeyboard /\ KeyChanges(e))
  BY <1>2, <1>3, <1>5 DEF InjectKey, TypeOK, NoKeyboardNoKeys
<1>6. QED
  BY <1>4, <1>5

\* Releasing everything clears the compositor's side too.
LEMMA ReleaseAllClears ==
  ASSUME TypeOK, HostMatchesHeld, NoKeyboardNoKeys, thread = "running", ReleaseAll
  PROVE  /\ keys' = {} /\ buttons' = {} /\ locked' = locked
         /\ hostKeys' = {} /\ hostButtons' = {} /\ hostMods'[1] = {}
         /\ hostMods' \in (SUBSET Bit) \X (SUBSET Bit)
<1>1. hostKeys = keys /\ hostButtons = buttons
  BY DEF HostMatchesHeld
<1>2. hostKeys' = {} /\ hostButtons' = {}
  BY <1>1 DEF ReleaseAll, NoKeyboardNoKeys
<1>3. hostMods'[1] = {} /\ hostMods' \in (SUBSET Bit) \X (SUBSET Bit)
  <2>1. CASE HasKeyboard /\ keys # {}
    BY <2>1 DEF ReleaseAll, TypeOK
  <2>2. CASE ~(HasKeyboard /\ keys # {})
    <3>1. hostMods' = hostMods /\ hostKeys = {}
      BY <1>1, <2>2 DEF ReleaseAll, NoKeyboardNoKeys
    <3>2. hostMods[1] = {}
      BY <3>1 DEF HostMatchesHeld
    <3>3. QED
      BY <3>1, <3>2 DEF TypeOK
  <2>3. QED
    BY <2>1, <2>2
<1>4. QED
  BY <1>2, <1>3 DEF ReleaseAll

\* A server that has just started.
LEMMA InitIInv == Init => IInv
<1> SUFFICES ASSUME Init PROVE IInv
  OBVIOUS
<1>1. thread = "connecting" /\ hostMods = <<{}, {}>>
  BY DEF Init
<1>2. queue \in Seq(InputEvent) /\ hostMods \in (SUBSET Bit) \X (SUBSET Bit)
  BY DEF Init
<1>3. TypeOK
  BY <1>2 DEF Init, TypeOK
<1>4. NothingBefore /\ NoKeyboardNoKeys
  BY DEF Init, NothingBefore, NoKeyboardNoKeys
<1>5. HostMatchesHeld /\ NothingStuck
  BY <1>1 DEF HostMatchesHeld, NothingStuck
<1>6. QED
  BY <1>3, <1>4, <1>5 DEF IInv

\* One event injected.
LEMMA InjectIInv == ASSUME IInv, Inject PROVE IInv'
<1> DEFINE e == Head(queue)
<1>1. e \in InputEvent /\ queue' \in Seq(InputEvent)
  BY HeadTail DEF Inject, IInv
<1>2. thread = "running" /\ thread' = "running" /\ UNCHANGED <<sender, detached, broken>>
  BY DEF Inject
<1>3. /\ TypeOK /\ HostMatchesHeld /\ NoKeyboardNoKeys
      /\ hostMods = <<hostMods[1], hostMods[2]>>
  BY DEF IInv, TypeOK
<1> HIDE DEF e
<1>4. CASE InjectKey(e)
  <2>1. /\ keys' \in SUBSET Accepted /\ hostKeys' = keys'
        /\ buttons' = buttons /\ hostButtons' = buttons
        /\ locked' \in SUBSET Bit
        /\ hostMods' = <<Depressed(keys'), locked'>>
        /\ NoKeyboardNoKeys'
    BY <1>1, <1>2, <1>3, <1>4, InjectKeyMatches
  <2>2. /\ Depressed(keys') = {b \in Bit : \E k \in keys' : b \in ModifierBit[k]}
        /\ Depressed(keys') \in SUBSET Bit
    BY <2>1, DepressedIs
  <2>3. TypeOK'
    BY <1>1, <1>2, <1>3, <2>1, <2>2 DEF TypeOK
  <2>4. HostMatchesHeld'
    BY <2>1, <2>2 DEF HostMatchesHeld
  <2>5. QED
    BY <1>2, <2>1, <2>3, <2>4 DEF IInv, NothingStuck, NothingBefore
<1>5. CASE InjectButton(e)
  <2>1. e.code \in Button /\ e.pressed \in BOOLEAN
    BY <1>1, <1>5 DEF InputEvent, InjectButton
  <2>2. /\ buttons' = Edit(buttons, e.code, e.pressed)
        /\ hostButtons' = buttons'
        /\ UNCHANGED <<keys, locked, hostKeys, hostMods>>
    BY <1>2, <1>3, <1>5, <2>1 DEF InjectButton, HostMatchesHeld, Edit
  <2>3. TypeOK'
    BY <1>1, <1>2, <1>3, <2>1, <2>2 DEF TypeOK, Edit
  <2>4. QED
    BY <1>2, <1>3, <2>2, <2>3 DEF IInv, HostMatchesHeld, NothingStuck, NothingBefore,
                                  NoKeyboardNoKeys
<1>6. CASE InjectMotion(e)
  BY <1>1, <1>2, <1>3, <1>6 DEF InjectMotion, held, host, IInv, TypeOK, HostMatchesHeld,
                                NothingStuck, NothingBefore, NoKeyboardNoKeys
<1>7. QED
  BY <1>4, <1>5, <1>6 DEF Inject, e

\* The thread's end releases what is held.
LEMMA ThreadEndsIInv == ASSUME IInv, ThreadEnds PROVE IInv'
<1>1. thread' = "done" /\ UNCHANGED <<sender, detached, queue, broken>>
  BY DEF ThreadEnds
<1>2. CASE thread = "running"
  <2>1. /\ keys' = {} /\ buttons' = {} /\ locked' = locked
        /\ hostKeys' = {} /\ hostButtons' = {} /\ hostMods'[1] = {}
        /\ hostMods' \in (SUBSET Bit) \X (SUBSET Bit)
    BY <1>2, ReleaseAllClears DEF ThreadEnds, IInv
  <2>2. QED
    BY <1>1, <2>1 DEF IInv, TypeOK, HostMatchesHeld, NothingStuck, NothingBefore,
                      NoKeyboardNoKeys
<1>3. CASE thread = "draining"
  <2>1. UNCHANGED <<keys, buttons, locked, hostKeys, hostButtons, hostMods>>
    BY <1>3 DEF ThreadEnds, held, host
  <2>2. hostKeys = {} /\ hostButtons = {} /\ hostMods[1] = {}
    BY <1>3 DEF IInv, NothingBefore
  <2>3. QED
    BY <1>1, <2>1, <2>2 DEF IInv, TypeOK, HostMatchesHeld, NothingStuck, NothingBefore,
                            NoKeyboardNoKeys
<1>4. QED
  BY <1>2, <1>3 DEF ThreadEnds

\* Every step keeps the invariant.
LEMMA NextIInv == IInv /\ [Next]_vars => IInv'
<1> SUFFICES ASSUME IInv, [Next]_vars PROVE IInv'
  OBVIOUS
<1> USE DEF IInv, NothingStuck, NothingBefore, NoKeyboardNoKeys, HostMatchesHeld
<1>1. CASE Connect
  <2>1. /\ thread = "connecting" /\ thread' \in {"running", "draining"}
        /\ UNCHANGED <<sender, detached, queue, keys, buttons, locked,
                       hostKeys, hostButtons, hostMods, broken>>
    BY <1>1 DEF Connect, held, host
  <2>2. /\ keys = {} /\ buttons = {} /\ locked = {}
        /\ hostKeys = {} /\ hostButtons = {} /\ hostMods = <<{}, {}>>
    BY <2>1
  <2>3. hostMods[1] = {} /\ hostMods[2] = {}
    BY <2>2
  <2>4. TypeOK'
    BY <2>1 DEF TypeOK
  <2>5. HostMatchesHeld'
    BY <2>1, <2>2, <2>3
  <2>6. (NothingStuck /\ NothingBefore /\ NoKeyboardNoKeys)'
    BY <2>1, <2>2
  <2>7. QED
    BY <2>4, <2>5, <2>6
<1>2. CASE Inject
  BY <1>2, InjectIInv
<1>3. CASE InjectFails
  BY <1>3 DEF InjectFails, TypeOK, host
<1>4. CASE DrainEvent
  <2>1. Tail(queue) \in Seq(InputEvent)
    BY <1>4, HeadTail DEF DrainEvent
  <2>2. QED
    BY <1>4, <2>1 DEF DrainEvent, TypeOK, held, host
<1>5. CASE ThreadEnds
  BY <1>5, ThreadEndsIInv
<1>6. CASE Detach
  BY <1>6 DEF Detach, TypeOK, held, host
<1>7. ASSUME NEW e \in InputEvent, Receive(e)
      PROVE  IInv'
  <2>1. queue' \in Seq(InputEvent)
    BY <1>7 DEF Receive, TypeOK
  <2>2. QED
    BY <1>7, <2>1 DEF Receive, TypeOK, held, host
<1>8. CASE UNCHANGED vars
  BY <1>8 DEF vars, TypeOK
<1>9. QED
  BY <1>1, <1>2, <1>3, <1>4, <1>5, <1>6, <1>7, <1>8 DEF Next, Run

\* The invariant holds in every state.
LEMMA IInvInvariant == Spec => []IInv
BY InitIInv, NextIInv, PTL DEF Spec

-----------------------------------------------------------------------------
\* The injector's bookkeeping holds only keys a keyboard has.
THEOREM TypeCorrect == Spec => []TypeOK
BY IInvInvariant, PTL DEF IInv

\* The compositor's devices and HeldState agree while the injector runs.
THEOREM HostAlwaysMatches == Spec => []HostMatchesHeld
BY IInvInvariant, PTL DEF IInv

\* Whatever the client held when it went away is released on the host.
THEOREM NothingStaysStuck == Spec => []NothingStuck
BY IInvInvariant, PTL DEF IInv

\* Locks toggle on the compositor only as a key goes down.
THEOREM LocksFollowPresses == Spec => LockFollowsPress
<1> DEFINE Step == hostMods'[2] # hostMods[2] =>
                     \E k \in Accepted : k \notin hostKeys /\ k \in hostKeys'
<1>1. IInv /\ [Next]_vars => Step
  <2> SUFFICES ASSUME IInv, [Next]_vars, hostMods'[2] # hostMods[2]
               PROVE  \E k \in Accepted : k \notin hostKeys /\ k \in hostKeys'
    OBVIOUS
  <2>1. CASE Inject
    <3> DEFINE e == Head(queue)
    <3>1. e \in InputEvent /\ thread = "running"
      BY <2>1, HeadTail DEF Inject, IInv
    <3>2. InjectKey(e)
      BY <2>1 DEF Inject, InjectButton, InjectMotion, host
    <3> HIDE DEF e
    <3>3. HasKeyboard /\ KeyChanges(e)
      BY <3>2 DEF InjectKey
    <3>4. /\ hostMods[2] = locked /\ hostKeys = keys
          /\ hostMods'[2] = locked'
      BY <3>1, <3>2, InjectKeyMatches DEF IInv, HostMatchesHeld
    <3>5. e.pressed
      BY <3>2, <3>3, <3>4 DEF InjectKey, LockedAfter
    <3>6. /\ e.code \in Accepted /\ e.code \notin hostKeys
          /\ e.code \in hostKeys'
      BY <3>2, <3>3, <3>4, <3>5 DEF InjectKey, KeyChanges, Edit
    <3>7. QED
      BY <3>6
  <2>2. CASE ThreadEnds
    <3>1. CASE thread = "running"
      BY <2>2, <3>1 DEF ThreadEnds, ReleaseAll, IInv, HostMatchesHeld
    <3>2. CASE thread # "running"
      BY <2>2, <3>2 DEF ThreadEnds, host
    <3>3. QED
      BY <3>1, <3>2
  <2>3. CASE \/ Connect \/ InjectFails \/ DrainEvent \/ Detach
             \/ \E e \in InputEvent : Receive(e)
             \/ UNCHANGED vars
    BY <2>3 DEF Connect, InjectFails, DrainEvent, Detach, Receive, host, vars
  <2>4. QED
    BY <2>1, <2>2, <2>3 DEF Next, Run
<1>2. Spec => [][Step]_vars
  BY <1>1, IInvInvariant, PTL DEF Spec
<1>3. QED
  BY <1>2 DEF LockFollowsPress

-----------------------------------------------------------------------------
(* The page: what it puts on the channel are events a client can send, so  *)
(* every step of the composition is a step of InputSession or a stutter.   *)

RemoteType ==
  /\ wire \in Seq(InputEvent)
  /\ heldKeys \in SUBSET PageKey /\ IsFiniteSet(heldKeys)
  /\ heldButtons \in SUBSET PageButton /\ IsFiniteSet(heldButtons)

\* A set in some order is a sequence of its elements.
LEMMA SetToSeqType ==
  ASSUME NEW S, IsFiniteSet(S)
  PROVE  SetToSeq(S) \in Seq(S)
<1>1. Cardinality(S) \in Nat /\ ExistsBijection(1 .. Cardinality(S), S)
  BY FS_CardinalityType
<1>2. PICK f \in [1 .. Cardinality(S) -> S] : IsInjective(f)
  BY <1>1 DEF ExistsBijection, Bijection, Injection
<1>3. SetToSeq(S) \in [1 .. Cardinality(S) -> S]
  BY <1>2 DEF SetToSeq
<1>4. QED
  BY <1>1, <1>3

\* Every event is an input event.
LEMMA EventTypes ==
  /\ \A k \in Key, p \in BOOLEAN : KeyEvent(k, p) \in InputEvent
  /\ \A b \in Button, p \in BOOLEAN : ButtonEvent(b, p) \in InputEvent
BY DEF KeyEvent, ButtonEvent, InputEvent

\* The page's keys are keys.
LEMMA PageKeysAreKeys ==
  /\ PageKey \subseteq Key /\ Char \subseteq Key /\ ShiftLeft \in Key
  /\ PageButton \subseteq Button /\ RightButton \in Button
BY InputAssumption, RemoteAssumption

\* Sequences of page events are sequences of input events.
LEMMA EventSeqs ==
  ASSUME NEW e \in InputEvent, NEW f \in InputEvent
  PROVE  <<e>> \in Seq(InputEvent) /\ <<e, f>> \in Seq(InputEvent)
OBVIOUS

\* Sequences end to end.
LEMMA ConcatType ==
  ASSUME NEW s \in Seq(InputEvent), NEW t \in Seq(InputEvent), NEW u \in Seq(InputEvent)
  PROVE  s \o t \o u \in Seq(InputEvent)
OBVIOUS

\* The type of the lock's release.
LEMMA UnpressType == Unpress \in Seq(InputEvent)
<1>1. ButtonEvent(RightButton, FALSE) \in InputEvent
  BY EventTypes, PageKeysAreKeys
<1>2. CASE fired
  BY <1>1, <1>2, EventSeqs DEF Unpress
<1>3. CASE ~fired
  BY <1>3 DEF Unpress
<1>4. QED
  BY <1>2, <1>3

\* The type of what releaseAll sends.
LEMMA ReleasesType == ASSUME RemoteType PROVE Releases \in Seq(InputEvent)
<1>1. SetToSeq(heldKeys) \in Seq(heldKeys) /\ SetToSeq(heldButtons) \in Seq(heldButtons)
  BY SetToSeqType DEF RemoteType
<1>2. ASSUME NEW s \in Seq(heldKeys) PROVE KeyReleases(s) \in Seq(InputEvent)
  <2>1. \A i \in DOMAIN s : s[i] \in Key
    BY PageKeysAreKeys DEF RemoteType
  <2>2. \A i \in DOMAIN s : KeyEvent(s[i], FALSE) \in InputEvent
    BY <2>1, EventTypes
  <2>3. DOMAIN s = 1 .. Len(s) /\ Len(s) \in Nat
    OBVIOUS
  <2>4. KeyReleases(s) \in [1 .. Len(s) -> InputEvent]
    BY <2>2, <2>3 DEF KeyReleases
  <2>5. QED
    BY <2>3, <2>4
<1>3. ASSUME NEW s \in Seq(heldButtons) PROVE ButtonReleases(s) \in Seq(InputEvent)
  <2>1. \A i \in DOMAIN s : s[i] \in Button
    BY PageKeysAreKeys DEF RemoteType
  <2>2. \A i \in DOMAIN s : ButtonEvent(s[i], FALSE) \in InputEvent
    BY <2>1, EventTypes
  <2>3. DOMAIN s = 1 .. Len(s) /\ Len(s) \in Nat
    OBVIOUS
  <2>4. ButtonReleases(s) \in [1 .. Len(s) -> InputEvent]
    BY <2>2, <2>3 DEF ButtonReleases
  <2>5. QED
    BY <2>3, <2>4
<1>4. QED
  BY <1>1, <1>2, <1>3, UnpressType DEF Releases

\* Sending events keeps the channel's type.
LEMMA SendType ==
  ASSUME RemoteType, NEW events \in Seq(InputEvent), Send(events)
  PROVE  wire' \in Seq(InputEvent)
BY DEF Send, RemoteType

\* releaseAll keeps the types.
LEMMA PageReleaseAllType == ASSUME RemoteType, PageReleaseAll PROVE RemoteType'
<1>1. wire' \in Seq(InputEvent)
  BY ReleasesType, SendType DEF PageReleaseAll
<1>2. QED
  BY <1>1, FS_EmptySet DEF PageReleaseAll, RemoteType

\* So does leaving the remote-control mode.
LEMMA DisableType == ASSUME RemoteType, Disable PROVE RemoteType'
BY PageReleaseAllType DEF Disable, RemoteType

\* Each handler of the page keeps the type.
LEMMA PageStepType == ASSUME RemoteType, PageStep PROVE RemoteType'
<1>1. ASSUME NEW k \in PageKey, NEW p \in BOOLEAN, Key_(k, p) PROVE RemoteType'
  <2>1. <<KeyEvent(k, p)>> \in Seq(InputEvent)
    BY EventTypes, PageKeysAreKeys
  <2>2. CASE enabled /\ focused /\ (k \in heldKeys) # p
    <3>1. heldKeys' \in SUBSET PageKey /\ IsFiniteSet(heldKeys')
      BY <1>1, <2>2, FS_AddElement, FS_RemoveElement DEF Key_, Edit, RemoteType
    <3>2. wire' \in Seq(InputEvent)
      BY <1>1, <2>1, <2>2, SendType DEF Key_
    <3>3. QED
      BY <1>1, <3>1, <3>2 DEF Key_, RemoteType
  <2>3. CASE ~(enabled /\ focused /\ (k \in heldKeys) # p)
    BY <1>1, <2>3 DEF Key_, RemoteType
  <2>4. QED
    BY <2>2, <2>3
<1>2. ASSUME NEW b \in PageButton, NEW p \in BOOLEAN, MouseButton(b, p) PROVE RemoteType'
  <2>1. <<ButtonEvent(b, p)>> \in Seq(InputEvent)
    BY EventTypes, PageKeysAreKeys
  <2>2. CASE enabled /\ (b \in heldButtons) # p
    <3>1. heldButtons' \in SUBSET PageButton /\ IsFiniteSet(heldButtons')
      BY <1>2, <2>2, FS_AddElement, FS_RemoveElement DEF MouseButton, Edit, RemoteType
    <3>2. wire' \in Seq(InputEvent)
      BY <1>2, <2>1, <2>2, SendType DEF MouseButton
    <3>3. QED
      BY <1>2, <3>1, <3>2 DEF MouseButton, RemoteType
  <2>3. CASE ~(enabled /\ (b \in heldButtons) # p)
    BY <1>2, <2>3 DEF MouseButton, RemoteType
  <2>4. QED
    BY <2>2, <2>3
<1>3. CASE TouchStart \/ TouchMove \/ TouchEnd \/ TouchCancel
  <2>1. wire' = wire \/ Send(Unpress)
    BY <1>3 DEF TouchStart, TouchMove, TouchEnd, TouchCancel
  <2>2. wire' \in Seq(InputEvent)
    BY <2>1, UnpressType, SendType DEF RemoteType
  <2>3. UNCHANGED <<heldKeys, heldButtons>>
    BY <1>3 DEF TouchStart, TouchMove, TouchEnd, TouchCancel
  <2>4. QED
    BY <2>2, <2>3 DEF RemoteType
<1>4. CASE TimerFires
  <2>1. wire' = wire \/ Send(<<ButtonEvent(RightButton, TRUE)>>)
    BY <1>4 DEF TimerFires
  <2>2. ButtonEvent(RightButton, TRUE) \in InputEvent
    BY EventTypes, PageKeysAreKeys
  <2>3. <<ButtonEvent(RightButton, TRUE)>> \in Seq(InputEvent)
    BY <2>2, EventSeqs
  <2>4. wire' \in Seq(InputEvent)
    BY <2>1, <2>3, SendType DEF RemoteType
  <2>5. QED
    BY <1>4, <2>4 DEF TimerFires, RemoteType
<1>5. CASE TouchBeside \/ GainsFocus \/ ChannelOpens
  BY <1>5 DEF TouchBeside, GainsFocus, ChannelOpens, page, RemoteType
<1>6. ASSUME NEW c \in Char, NEW s \in BOOLEAN, TypeChar(c, s) PROVE RemoteType'
  <2> DEFINE stroke == <<KeyEvent(c, TRUE), KeyEvent(c, FALSE)>>
             shifted == <<KeyEvent(ShiftLeft, TRUE)>> \o stroke \o <<KeyEvent(ShiftLeft, FALSE)>>
  <2>1. stroke \in Seq(InputEvent) /\ shifted \in Seq(InputEvent)
    <3>1. /\ KeyEvent(c, TRUE) \in InputEvent /\ KeyEvent(c, FALSE) \in InputEvent
          /\ KeyEvent(ShiftLeft, TRUE) \in InputEvent
          /\ KeyEvent(ShiftLeft, FALSE) \in InputEvent
      BY EventTypes, PageKeysAreKeys
    <3>2. /\ stroke \in Seq(InputEvent)
          /\ <<KeyEvent(ShiftLeft, TRUE)>> \in Seq(InputEvent)
          /\ <<KeyEvent(ShiftLeft, FALSE)>> \in Seq(InputEvent)
      BY <3>1, EventSeqs
    <3> HIDE DEF stroke
    <3>3. QED
      BY <3>2, ConcatType
  <2>2. Send(IF s THEN shifted ELSE stroke)
    BY <1>6 DEF TypeChar
  <2> HIDE DEF stroke, shifted
  <2>3. wire' \in Seq(InputEvent)
    BY <2>1, <2>2, SendType
  <2>4. QED
    BY <1>6, <2>3 DEF TypeChar, page, RemoteType
<1>7. CASE LosesFocus
  BY <1>7, PageReleaseAllType DEF LosesFocus, RemoteType
<1>8. CASE SetControl
  BY <1>8, DisableType DEF SetControl, RemoteType
<1>9. CASE ChannelCloses
  BY <1>9, DisableType DEF ChannelCloses
<1>10. QED
  BY <1>1, <1>2, <1>3, <1>4, <1>5, <1>6, <1>7, <1>8, <1>9 DEF PageStep

\* The types hold in every state.
LEMMA RemoteTypeInvariant == RemoteSpec => []RemoteType
<1>1. RemoteInit => RemoteType
  BY FS_EmptySet DEF RemoteInit, RemoteType
<1>2. RemoteType /\ [RemoteNext]_remoteVars => RemoteType'
  <2> SUFFICES ASSUME RemoteType, [RemoteNext]_remoteVars PROVE RemoteType'
    OBVIOUS
  <2>1. CASE PageStep
    BY <2>1, PageStepType
  <2>2. CASE Deliver
    BY <2>2 DEF Deliver, page, RemoteType
  <2>3. CASE UNCHANGED <<page, wire>>
    BY <2>3 DEF page, RemoteType
  <2>4. QED
    BY <2>1, <2>2, <2>3 DEF RemoteNext, remoteVars
<1>3. QED
  BY <1>1, <1>2, PTL DEF RemoteSpec

\* The page, its channel and the server together are a behaviour of
\* InputSession, which is all that the theorems above assume of a client.
THEOREM RemoteControlIsInputSession == RemoteSpec => ServerIsInputSession
<1>1. RemoteInit => Init
  BY DEF RemoteInit
<1>2. RemoteType /\ [RemoteNext]_remoteVars => [Next]_vars
  <2> SUFFICES ASSUME RemoteType, [RemoteNext]_remoteVars PROVE [Next]_vars
    OBVIOUS
  <2>1. CASE Deliver
    <3>1. Head(wire) \in InputEvent
      BY <2>1 DEF Deliver, RemoteType
    <3>2. QED
      BY <2>1, <3>1 DEF Deliver, Next
  <2>2. CASE Server \/ UNCHANGED vars \/ \E e \in InputEvent : Receive(e)
    BY <2>2 DEF Server, Next
  <2>3. QED
    BY <2>1, <2>2 DEF RemoteNext, remoteVars
<1>3. QED
  BY <1>1, <1>2, RemoteTypeInvariant, PTL DEF RemoteSpec, Spec, ServerIsInputSession

-----------------------------------------------------------------------------
\* What the host holds, for the remote control as a whole.

\* What is under way to the host.
Flight == queue \o wire

\* Events about one key or button, its presses and its releases.
About(e, kind, code) == e.kind = kind /\ e.code = code
Presses(e, kind, code) == About(e, kind, code) /\ e.pressed
Lifts(e, kind, code) == About(e, kind, code) /\ ~e.pressed

\* Every press in s is followed by a release.
Lifted(s, kind, code) ==
  \A i \in DOMAIN s : Presses(s[i], kind, code) =>
    \E j \in DOMAIN s : j > i /\ Lifts(s[j], kind, code)

\* ... and a release follows if it is down already.
UpAfter(s, down, kind, code) ==
  /\ Lifted(s, kind, code)
  /\ code \in down => \E j \in DOMAIN s : Lifts(s[j], kind, code)

\* The types of what the page and the person keep.
PageTypes ==
  /\ on \in Nat
  /\ focused \in BOOLEAN /\ enabled \in BOOLEAN /\ fired \in BOOLEAN /\ pending \in BOOLEAN
  /\ aside \in BOOLEAN /\ open \in BOOLEAN

\* What the page holds, the person holds too; a page without focus holds no key,
\* and a disabled one nothing.
PersonHolds ==
  /\ heldKeys \subseteq downKeys /\ heldButtons \subseteq downButtons
  /\ ~focused => heldKeys = {}
  /\ ~enabled => heldKeys = {} /\ heldButtons = {} /\ ~pending /\ ~fired
  /\ pending \/ fired => on > 0 \/ aside

\* The buttons the page has pressed on the host.
PressedButtons == heldButtons \cup (IF fired THEN {RightButton} ELSE {})

\* The page drives a session that is not over.
Live == client = "page" /\ sender /\ thread \in {"connecting", "running"}

\* What the page does not hold is up once everything under way has arrived.
FlightReleases ==
  Live =>
    /\ ~open => Flight = <<>> /\ hostKeys = {} /\ hostButtons = {}
    /\ \A k \in Key \ heldKeys : UpAfter(Flight, hostKeys, "key", k)
    /\ \A b \in Button \ PressedButtons : UpAfter(Flight, hostButtons, "button", b)

\* A detached session has dropped its sender.
DetachDrops == sender = ~detached

\* What InputSession does not say of the remote control.
HeldInv == PageTypes /\ DetachDrops /\ PersonHolds /\ FlightReleases

\* Where the elements of two sequences end to end come from, and go.
LEMMA ConcatIs ==
  ASSUME NEW s \in Seq(InputEvent), NEW t \in Seq(InputEvent)
  PROVE  /\ s \o t \in Seq(InputEvent)
         /\ Len(s) \in Nat /\ Len(t) \in Nat
         /\ DOMAIN s = 1 .. Len(s) /\ DOMAIN t = 1 .. Len(t)
         /\ DOMAIN (s \o t) = 1 .. Len(s) + Len(t)
         /\ \A i \in DOMAIN s : (s \o t)[i] = s[i]
         /\ \A i \in DOMAIN t : (s \o t)[Len(s) + i] = t[i]
         /\ \A i \in DOMAIN (s \o t) : i \in DOMAIN s \/ (i - Len(s)) \in DOMAIN t
OBVIOUS

\* A press in the first of two sequences may be released in the second.
LEMMA LiftedConcat ==
  ASSUME NEW s \in Seq(InputEvent), NEW t \in Seq(InputEvent), NEW kind, NEW code,
         Lifted(t, kind, code),
         Lifted(s, kind, code) \/ \E j \in DOMAIN t : Lifts(t[j], kind, code)
  PROVE  Lifted(s \o t, kind, code)
<1> DEFINE u == s \o t
<1>1. /\ Len(s) \in Nat /\ Len(t) \in Nat
      /\ DOMAIN s = 1 .. Len(s) /\ DOMAIN t = 1 .. Len(t)
      /\ DOMAIN u = 1 .. Len(s) + Len(t)
      /\ \A i \in DOMAIN s : u[i] = s[i]
      /\ \A i \in DOMAIN t : u[Len(s) + i] = t[i]
      /\ \A i \in DOMAIN u : i \in DOMAIN s \/ (i - Len(s)) \in DOMAIN t
  BY ConcatIs
<1> HIDE DEF u
<1>2. SUFFICES ASSUME NEW i \in DOMAIN u, Presses(u[i], kind, code)
               PROVE  \E j \in DOMAIN u : j > i /\ Lifts(u[j], kind, code)
  BY DEF Lifted, u
<1>3. CASE i \in DOMAIN s /\ Lifted(s, kind, code)
  <2>1. PICK j \in DOMAIN s : j > i /\ Lifts(s[j], kind, code)
    BY <1>1, <1>2, <1>3 DEF Lifted
  <2>2. j \in DOMAIN u /\ u[j] = s[j]
    BY <1>1
  <2> QED BY <2>1, <2>2
<1>4. CASE i \in DOMAIN s /\ \E j \in DOMAIN t : Lifts(t[j], kind, code)
  <2>1. PICK j \in DOMAIN t : Lifts(t[j], kind, code)
    BY <1>4
  <2>2. Len(s) + j \in DOMAIN u /\ u[Len(s) + j] = t[j] /\ Len(s) + j > i
    BY <1>1, <1>4
  <2> QED BY <2>1, <2>2
<1>5. CASE (i - Len(s)) \in DOMAIN t
  <2> DEFINE h == i - Len(s)
  <2>1. h \in DOMAIN t /\ i = Len(s) + h
    BY <1>1, <1>5
  <2> HIDE DEF h
  <2>2. PICK j \in DOMAIN t : j > h /\ Lifts(t[j], kind, code)
    BY <1>1, <1>2, <2>1 DEF Lifted
  <2>3. Len(s) + j \in DOMAIN u /\ u[Len(s) + j] = t[j] /\ Len(s) + j > i
    BY <1>1, <2>1, <2>2
  <2> QED BY <2>2, <2>3
<1> QED BY <1>1, <1>3, <1>4, <1>5

\* So may a key that is down.
LEMMA UpConcat ==
  ASSUME NEW s \in Seq(InputEvent), NEW t \in Seq(InputEvent), NEW down, NEW kind, NEW code,
         Lifted(t, kind, code),
         UpAfter(s, down, kind, code) \/ \E j \in DOMAIN t : Lifts(t[j], kind, code)
  PROVE  UpAfter(s \o t, down, kind, code)
<1>1. Lifted(s \o t, kind, code)
  BY LiftedConcat DEF UpAfter
<1>2. ASSUME code \in down
      PROVE  \E j \in DOMAIN (s \o t) : Lifts((s \o t)[j], kind, code)
  <2>1. CASE \E j \in DOMAIN t : Lifts(t[j], kind, code)
    <3>1. PICK j \in DOMAIN t : Lifts(t[j], kind, code)
      BY <2>1
    <3>2. Len(s) + j \in DOMAIN (s \o t) /\ (s \o t)[Len(s) + j] = t[j]
      BY ConcatIs
    <3> QED BY <3>1, <3>2
  <2>2. CASE UpAfter(s, down, kind, code)
    <3>1. PICK j \in DOMAIN s : Lifts(s[j], kind, code)
      BY <1>2, <2>2 DEF UpAfter
    <3>2. j \in DOMAIN (s \o t) /\ (s \o t)[j] = s[j]
      BY ConcatIs
    <3> QED BY <3>1, <3>2
  <2> QED BY <2>1, <2>2
<1> QED BY <1>1, <1>2 DEF UpAfter

\* One event taken from the front.
LEMMA UpTail ==
  ASSUME NEW s \in Seq(InputEvent), s # <<>>, NEW down, NEW after, NEW kind, NEW code,
         UpAfter(s, down, kind, code),
         code \in after => \/ Presses(Head(s), kind, code)
                           \/ code \in down /\ ~Lifts(Head(s), kind, code)
  PROVE  UpAfter(Tail(s), after, kind, code)
<1> DEFINE t == Tail(s)
<1>1. /\ Len(s) \in Nat /\ DOMAIN s = 1 .. Len(s) /\ Len(s) > 0 /\ Head(s) = s[1]
      /\ DOMAIN t = 1 .. Len(s) - 1
      /\ \A i \in DOMAIN t : t[i] = s[i + 1]
  OBVIOUS
<1> HIDE DEF t
<1>2. Lifted(t, kind, code)
  <2> SUFFICES ASSUME NEW i \in DOMAIN t, Presses(t[i], kind, code)
               PROVE  \E j \in DOMAIN t : j > i /\ Lifts(t[j], kind, code)
    BY DEF Lifted
  <2>1. i + 1 \in DOMAIN s /\ Presses(s[i + 1], kind, code)
    BY <1>1
  <2>2. PICK j \in DOMAIN s : j > i + 1 /\ Lifts(s[j], kind, code)
    BY <2>1 DEF UpAfter, Lifted
  <2>3. j - 1 \in DOMAIN t /\ j - 1 > i /\ t[j - 1] = s[j]
    BY <1>1, <2>2
  <2> QED BY <2>2, <2>3
<1>3. ASSUME code \in after
      PROVE  \E j \in DOMAIN t : Lifts(t[j], kind, code)
  <2>1. \E j \in DOMAIN s : j > 1 /\ Lifts(s[j], kind, code)
    <3>1. CASE Presses(Head(s), kind, code)
      BY <1>1, <3>1 DEF UpAfter, Lifted
    <3>2. CASE code \in down /\ ~Lifts(Head(s), kind, code)
      <4>1. PICK j \in DOMAIN s : Lifts(s[j], kind, code)
        BY <3>2 DEF UpAfter
      <4>2. j # 1
        BY <1>1, <3>2, <4>1
      <4> QED BY <1>1, <4>1, <4>2
    <3> QED BY <1>3, <3>1, <3>2
  <2>2. PICK j \in DOMAIN s : j > 1 /\ Lifts(s[j], kind, code)
    BY <2>1
  <2>3. j - 1 \in DOMAIN t /\ t[j - 1] = s[j]
    BY <1>1, <2>2
  <2> QED BY <2>2, <2>3
<1> QED BY <1>2, <1>3 DEF UpAfter, t

\* With nothing down and nothing under way everything is up.
LEMMA UpNothing ==
  ASSUME NEW kind, NEW code
  PROVE  UpAfter(<<>>, {}, kind, code)
BY DEF UpAfter, Lifted

\* What the page sends leaves everything up that the page does not hold, if it releases
\* what the page no longer holds and presses nothing else.
LEMMA SendReleases ==
  ASSUME TypeOK, RemoteType, FlightReleases, PageTypes, UNCHANGED <<vars, client, open>>,
         NEW ev \in Seq(InputEvent), wire' = IF open THEN wire \o ev ELSE wire,
         \A k \in Key \ heldKeys' :
           /\ Lifted(ev, "key", k)
           /\ k \in heldKeys => \E j \in DOMAIN ev : Lifts(ev[j], "key", k),
         \A b \in Button \ PressedButtons' :
           /\ Lifted(ev, "button", b)
           /\ b \in PressedButtons => \E j \in DOMAIN ev : Lifts(ev[j], "button", b)
  PROVE  FlightReleases'
<1>1. UNCHANGED <<thread, sender, queue, hostKeys, hostButtons, client, open>>
  BY DEF vars
<1>2. SUFFICES ASSUME Live PROVE
        /\ ~open => Flight' = <<>> /\ hostKeys = {} /\ hostButtons = {}
        /\ \A k \in Key \ heldKeys' : UpAfter(Flight', hostKeys, "key", k)
        /\ \A b \in Button \ PressedButtons' : UpAfter(Flight', hostButtons, "button", b)
  BY <1>1 DEF FlightReleases, Live
<1>3. CASE ~open
  <2>1. Flight' = <<>> /\ hostKeys = {} /\ hostButtons = {}
    BY <1>1, <1>2, <1>3 DEF FlightReleases, Flight
  <2>2. \A kind, code : UpAfter(Flight', {}, kind, code)
    BY <2>1, UpNothing
  <2> QED BY <2>1, <2>2
<1>4. CASE open
  <2>1. Flight \in Seq(InputEvent) /\ Flight' = Flight \o ev
    <3>1. queue \in Seq(InputEvent) /\ wire \in Seq(InputEvent)
      BY DEF TypeOK, RemoteType
    <3>2. queue \o (wire \o ev) = (queue \o wire) \o ev
      BY <3>1, ConcatAssociative
    <3> QED BY <3>1, <3>2, <1>1, <1>4 DEF Flight
  <2>2. ASSUME NEW k \in Key \ heldKeys' PROVE UpAfter(Flight', hostKeys, "key", k)
    <3>1. UpAfter(Flight, hostKeys, "key", k) \/ \E j \in DOMAIN ev : Lifts(ev[j], "key", k)
      BY <1>2 DEF FlightReleases
    <3>2. UpAfter(Flight \o ev, hostKeys, "key", k)
      BY <2>1, <3>1, UpConcat
    <3> QED BY <2>1, <3>2
  <2>3. ASSUME NEW b \in Button \ PressedButtons'
        PROVE  UpAfter(Flight', hostButtons, "button", b)
    <3>1. \/ UpAfter(Flight, hostButtons, "button", b)
          \/ \E j \in DOMAIN ev : Lifts(ev[j], "button", b)
      BY <1>2 DEF FlightReleases
    <3>2. UpAfter(Flight \o ev, hostButtons, "button", b)
      BY <2>1, <3>1, UpConcat
    <3> QED BY <2>1, <3>2
  <2> QED BY <1>4, <2>2, <2>3
<1> QED BY <1>3, <1>4

\* Nothing is sent and nothing let go.
LEMMA SilenceReleases ==
  ASSUME FlightReleases, UNCHANGED <<vars, client, wire>>, open => open',
         heldKeys \subseteq heldKeys', PressedButtons \subseteq PressedButtons'
  PROVE  FlightReleases'
BY DEF FlightReleases, Live, Flight, vars

\* A sequence without a press lifts everything it presses.
LEMMA PressesNothing ==
  ASSUME NEW ev, NEW kind, NEW code, \A i \in DOMAIN ev : ~Presses(ev[i], kind, code)
  PROVE  Lifted(ev, kind, code)
BY DEF Lifted

\* A sequence of one event.
LEMMA OneEvent ==
  ASSUME NEW e
  PROVE  DOMAIN <<e>> = {1} /\ <<e>>[1] = e
OBVIOUS

\* What cancelLongPress sends.
LEMMA UnpressIs ==
  /\ Unpress \in Seq(InputEvent) /\ \A i \in DOMAIN Unpress : ~Unpress[i].pressed
  /\ fired => \E j \in DOMAIN Unpress : Lifts(Unpress[j], "button", RightButton)
<1>1. CASE fired
  <2>1. Unpress = <<ButtonEvent(RightButton, FALSE)>>
    BY <1>1 DEF Unpress
  <2>2. DOMAIN Unpress = {1} /\ Unpress[1] = ButtonEvent(RightButton, FALSE)
    BY <2>1, OneEvent
  <2> QED BY <2>2, UnpressType DEF ButtonEvent, Lifts, About
<1>2. CASE ~fired
  BY <1>2, UnpressType DEF Unpress
<1> QED BY <1>1, <1>2

\* What releaseAll sends presses nothing and releases everything the page holds.
LEMMA ReleasesAre ==
  ASSUME RemoteType
  PROVE  /\ Releases \in Seq(InputEvent)
         /\ \A i \in DOMAIN Releases : ~Releases[i].pressed
         /\ \A k \in heldKeys : \E j \in DOMAIN Releases : Lifts(Releases[j], "key", k)
         /\ \A b \in PressedButtons : \E j \in DOMAIN Releases : Lifts(Releases[j], "button", b)
<1>1. ASSUME NEW S, IsFiniteSet(S)
      PROVE  /\ SetToSeq(S) \in Seq(S) /\ \A x \in S : \E i \in DOMAIN SetToSeq(S) : SetToSeq(S)[i] = x
  <2>1. Cardinality(S) \in Nat /\ ExistsBijection(1 .. Cardinality(S), S)
    BY <1>1, FS_CardinalityType
  <2>2. PICK f \in [1 .. Cardinality(S) -> S] : IsInjective(f)
    BY <2>1 DEF ExistsBijection, Bijection, Injection
  <2>3. SetToSeq(S) \in [1 .. Cardinality(S) -> S] /\ IsInjective(SetToSeq(S))
    BY <2>2 DEF SetToSeq
  <2>4. IsFiniteSet(1 .. Cardinality(S)) /\ Cardinality(1 .. Cardinality(S)) = Cardinality(S)
    BY <2>1, FS_Interval
  <2>5. SetToSeq(S) \in Injection(1 .. Cardinality(S), S)
    BY <2>3 DEF Injection
  <2>6. SetToSeq(S) \in Surjection(1 .. Cardinality(S), S)
    BY <1>1, <2>4, <2>5, FS_Injection
  <2>7. \A x \in S : \E i \in DOMAIN SetToSeq(S) : SetToSeq(S)[i] = x
    BY <2>3, <2>6 DEF Surjection
  <2> QED BY <1>1, <2>7, SetToSeqType
<1> DEFINE K == KeyReleases(SetToSeq(heldKeys))
           B == ButtonReleases(SetToSeq(heldButtons))
<1>2. /\ SetToSeq(heldKeys) \in Seq(heldKeys)
      /\ \A k \in heldKeys : \E i \in DOMAIN SetToSeq(heldKeys) : SetToSeq(heldKeys)[i] = k
      /\ SetToSeq(heldButtons) \in Seq(heldButtons)
      /\ \A b \in heldButtons : \E i \in DOMAIN SetToSeq(heldButtons) : SetToSeq(heldButtons)[i] = b
  BY <1>1 DEF RemoteType
<1>3. ASSUME NEW q \in Seq(heldKeys)
      PROVE  /\ KeyReleases(q) \in Seq(InputEvent) /\ DOMAIN KeyReleases(q) = DOMAIN q
             /\ \A i \in DOMAIN q : KeyReleases(q)[i] = KeyEvent(q[i], FALSE)
  <2>1. \A i \in DOMAIN q : KeyEvent(q[i], FALSE) \in InputEvent
    <3>1. \A i \in DOMAIN q : q[i] \in Key
      BY PageKeysAreKeys DEF RemoteType
    <3> QED BY <3>1, EventTypes
  <2>2. DOMAIN q = 1 .. Len(q) /\ Len(q) \in Nat
    OBVIOUS
  <2>3. KeyReleases(q) \in [1 .. Len(q) -> InputEvent]
    BY <2>1, <2>2 DEF KeyReleases
  <2>4. /\ DOMAIN KeyReleases(q) = DOMAIN q
        /\ \A i \in DOMAIN q : KeyReleases(q)[i] = KeyEvent(q[i], FALSE)
    BY DEF KeyReleases
  <2>5. KeyReleases(q) \in Seq(InputEvent)
    BY <2>2, <2>3
  <2> QED BY <2>4, <2>5
<1>4. ASSUME NEW q \in Seq(heldButtons)
      PROVE  /\ ButtonReleases(q) \in Seq(InputEvent) /\ DOMAIN ButtonReleases(q) = DOMAIN q
             /\ \A i \in DOMAIN q : ButtonReleases(q)[i] = ButtonEvent(q[i], FALSE)
  <2>1. \A i \in DOMAIN q : ButtonEvent(q[i], FALSE) \in InputEvent
    <3>1. \A i \in DOMAIN q : q[i] \in Button
      BY PageKeysAreKeys DEF RemoteType
    <3> QED BY <3>1, EventTypes
  <2>2. DOMAIN q = 1 .. Len(q) /\ Len(q) \in Nat
    OBVIOUS
  <2>3. ButtonReleases(q) \in [1 .. Len(q) -> InputEvent]
    BY <2>1, <2>2 DEF ButtonReleases
  <2>4. /\ DOMAIN ButtonReleases(q) = DOMAIN q
        /\ \A i \in DOMAIN q : ButtonReleases(q)[i] = ButtonEvent(q[i], FALSE)
    BY DEF ButtonReleases
  <2>5. ButtonReleases(q) \in Seq(InputEvent)
    BY <2>2, <2>3
  <2> QED BY <2>4, <2>5
<1>5. /\ K \in Seq(InputEvent) /\ \A i \in DOMAIN K : ~K[i].pressed
      /\ \A k \in heldKeys : \E j \in DOMAIN K : Lifts(K[j], "key", k)
  <2>1. K \in Seq(InputEvent) /\ DOMAIN K = DOMAIN SetToSeq(heldKeys)
        /\ \A i \in DOMAIN K : K[i] = KeyEvent(SetToSeq(heldKeys)[i], FALSE)
    BY <1>2, <1>3
  <2> HIDE DEF K
  <2>2. \A i \in DOMAIN K : ~K[i].pressed /\ K[i].kind = "key" /\ K[i].code = SetToSeq(heldKeys)[i]
    BY <2>1 DEF KeyEvent
  <2> QED BY <1>2, <2>1, <2>2 DEF Lifts, About
<1>6. /\ B \in Seq(InputEvent) /\ \A i \in DOMAIN B : ~B[i].pressed
      /\ \A b \in heldButtons : \E j \in DOMAIN B : Lifts(B[j], "button", b)
  <2>1. B \in Seq(InputEvent) /\ DOMAIN B = DOMAIN SetToSeq(heldButtons)
        /\ \A i \in DOMAIN B : B[i] = ButtonEvent(SetToSeq(heldButtons)[i], FALSE)
    BY <1>2, <1>4
  <2> HIDE DEF B
  <2>2. \A i \in DOMAIN B : ~B[i].pressed /\ B[i].kind = "button" /\ B[i].code = SetToSeq(heldButtons)[i]
    BY <2>1 DEF ButtonEvent
  <2> QED BY <1>2, <2>1, <2>2 DEF Lifts, About
<1>7. /\ Unpress \in Seq(InputEvent) /\ \A i \in DOMAIN Unpress : ~Unpress[i].pressed
      /\ fired => \E j \in DOMAIN Unpress : Lifts(Unpress[j], "button", RightButton)
  BY UnpressIs
<1>8. Releases = K \o B \o Unpress
  BY DEF Releases
<1> HIDE DEF K, B
<1>9. K \o B \in Seq(InputEvent) /\ Releases \in Seq(InputEvent)
  BY <1>5, <1>6, <1>7, <1>8, ConcatIs
<1>10. ASSUME NEW s \in Seq(InputEvent), NEW t \in Seq(InputEvent), \A i \in DOMAIN s : ~s[i].pressed,
              \A i \in DOMAIN t : ~t[i].pressed
       PROVE  \A i \in DOMAIN (s \o t) : ~(s \o t)[i].pressed
  <2> SUFFICES ASSUME NEW i \in DOMAIN (s \o t) PROVE ~(s \o t)[i].pressed
    OBVIOUS
  <2>1. CASE i \in DOMAIN s
    <3>1. (s \o t)[i] = s[i]
      BY <2>1, ConcatIs
    <3> QED BY <2>1, <3>1, <1>10
  <2>2. CASE (i - Len(s)) \in DOMAIN t
    <3> DEFINE h == i - Len(s)
    <3>1. h \in DOMAIN t /\ Len(s) + h = i
      BY <2>2, ConcatIs
    <3> HIDE DEF h
    <3>2. (s \o t)[i] = t[h]
      BY <3>1, ConcatIs
    <3> QED BY <3>1, <3>2, <1>10
  <2> QED BY <2>1, <2>2, ConcatIs
<1>11. ASSUME NEW s \in Seq(InputEvent), NEW t \in Seq(InputEvent), NEW kind, NEW code,
              \/ \E j \in DOMAIN s : Lifts(s[j], kind, code)
              \/ \E j \in DOMAIN t : Lifts(t[j], kind, code)
       PROVE  \E j \in DOMAIN (s \o t) : Lifts((s \o t)[j], kind, code)
  <2>1. CASE \E j \in DOMAIN s : Lifts(s[j], kind, code)
    <3>1. PICK j \in DOMAIN s : Lifts(s[j], kind, code)
      BY <2>1
    <3>2. j \in DOMAIN (s \o t) /\ (s \o t)[j] = s[j]
      BY ConcatIs
    <3> QED BY <3>1, <3>2
  <2>2. CASE \E j \in DOMAIN t : Lifts(t[j], kind, code)
    <3>1. PICK j \in DOMAIN t : Lifts(t[j], kind, code)
      BY <2>2
    <3>2. Len(s) + j \in DOMAIN (s \o t) /\ (s \o t)[Len(s) + j] = t[j]
      BY ConcatIs
    <3> QED BY <3>1, <3>2
  <2> QED BY <2>1, <2>2, <1>11
<1>12. \A i \in DOMAIN Releases : ~Releases[i].pressed
  <2>1. \A i \in DOMAIN (K \o B) : ~(K \o B)[i].pressed
    BY <1>5, <1>6, <1>10
  <2> DEFINE C == K \o B
  <2>2. C \in Seq(InputEvent) /\ (\A i \in DOMAIN C : ~C[i].pressed) /\ Releases = C \o Unpress
    BY <2>1, <1>8, <1>9
  <2> HIDE DEF C
  <2> QED BY <2>2, <1>7, <1>10
<1>13. \A k \in heldKeys : \E j \in DOMAIN Releases : Lifts(Releases[j], "key", k)
  <2> SUFFICES ASSUME NEW k \in heldKeys
               PROVE  \E j \in DOMAIN Releases : Lifts(Releases[j], "key", k)
    OBVIOUS
  <2> DEFINE C == K \o B
  <2>1. \E j \in DOMAIN C : Lifts(C[j], "key", k)
    BY <1>5, <1>6, <1>11
  <2>2. C \in Seq(InputEvent) /\ Releases = C \o Unpress
    BY <1>8, <1>9
  <2> HIDE DEF C
  <2> QED BY <2>1, <2>2, <1>7, <1>11
<1>14. \A b \in PressedButtons : \E j \in DOMAIN Releases : Lifts(Releases[j], "button", b)
  <2> SUFFICES ASSUME NEW b \in PressedButtons
               PROVE  \E j \in DOMAIN Releases : Lifts(Releases[j], "button", b)
    OBVIOUS
  <2> DEFINE C == K \o B
  <2>1. C \in Seq(InputEvent) /\ Releases = C \o Unpress
    BY <1>8, <1>9
  <2>2. CASE b \in heldButtons
    <3>1. \E j \in DOMAIN C : Lifts(C[j], "button", b)
      BY <2>2, <1>5, <1>6, <1>11
    <3> HIDE DEF C
    <3> QED BY <2>1, <3>1, <1>7, <1>11
  <2>3. CASE fired /\ b = RightButton
    <3>1. \E j \in DOMAIN Unpress : Lifts(Unpress[j], "button", b)
      BY <2>3, <1>7
    <3> HIDE DEF C
    <3> QED BY <2>1, <3>1, <1>7, <1>11
  <2> QED BY <2>2, <2>3 DEF PressedButtons
<1> QED BY <1>9, <1>12, <1>13, <1>14

\* The page releases all it holds.
LEMMA ReleaseAllReleases ==
  ASSUME TypeOK, RemoteType, FlightReleases, PageTypes, UNCHANGED <<vars, client, open>>,
         PageReleaseAll
  PROVE  FlightReleases'
<1>1. Releases \in Seq(InputEvent) /\ wire' = IF open THEN wire \o Releases ELSE wire
  BY ReleasesAre DEF PageReleaseAll, Send
<1>2. \A kind, code : Lifted(Releases, kind, code)
  BY ReleasesAre, PressesNothing DEF Presses
<1> QED BY <1>1, <1>2, ReleasesAre, SendReleases

\* A long press is cancelled.
LEMMA CancelReleases ==
  ASSUME TypeOK, RemoteType, FlightReleases, PageTypes, UNCHANGED <<vars, client, open>>,
         UNCHANGED <<heldKeys, heldButtons>>, CancelLongPress, Send(Unpress)
  PROVE  FlightReleases'
<1>1. Unpress \in Seq(InputEvent) /\ wire' = IF open THEN wire \o Unpress ELSE wire
  BY UnpressIs DEF Send
<1>2. \A kind, code : Lifted(Unpress, kind, code)
  BY UnpressIs, PressesNothing DEF Presses
<1>3. \A b \in Button \ PressedButtons' :
        b \in PressedButtons => \E j \in DOMAIN Unpress : Lifts(Unpress[j], "button", b)
  BY UnpressIs DEF CancelLongPress, PressedButtons
<1> QED BY <1>1, <1>2, <1>3, SendReleases

\* One key or button event, sent as the page starts or stops to hold it.
LEMMA KeyReleased ==
  ASSUME IInv, RemoteType, FlightReleases, PageTypes, UNCHANGED <<vars, client>>,
         NEW k \in PageKey, NEW p \in BOOLEAN, Key_(k, p)
  PROVE  FlightReleases'
<1>1. CASE enabled /\ focused /\ (k \in heldKeys) # p
  <2> DEFINE ev == <<KeyEvent(k, p)>>
  <2>1. /\ wire' = (IF open THEN wire \o ev ELSE wire) /\ heldKeys' = Edit(heldKeys, k, p)
        /\ UNCHANGED <<heldButtons, fired, open>>
    BY <1>1 DEF Key_, Send, press
  <2>2. /\ ev \in Seq(InputEvent) /\ DOMAIN ev = {1} /\ ev[1] = KeyEvent(k, p)
    BY EventTypes, PageKeysAreKeys, OneEvent
  <2> HIDE DEF ev
  <2>3. \A c \in Key \ heldKeys' :
          /\ Lifted(ev, "key", c)
          /\ c \in heldKeys => \E j \in DOMAIN ev : Lifts(ev[j], "key", c)
    <3> SUFFICES ASSUME NEW c \in Key \ heldKeys'
                 PROVE  /\ Lifted(ev, "key", c)
                        /\ c \in heldKeys => \E j \in DOMAIN ev : Lifts(ev[j], "key", c)
      OBVIOUS
    <3>1. p => c # k
      BY <2>1 DEF Edit
    <3>2. Lifted(ev, "key", c)
      BY <2>2, <3>1 DEF Lifted, Presses, About, KeyEvent
    <3>3. c \in heldKeys => (c = k /\ ~p)
      BY <2>1 DEF Edit
    <3>4. (c = k /\ ~p) => Lifts(ev[1], "key", c)
      BY <2>2 DEF Lifts, About, KeyEvent
    <3> QED BY <3>2, <3>3, <3>4, <2>2
  <2>4. \A b \in Button \ PressedButtons' :
           /\ Lifted(ev, "button", b)
           /\ b \in PressedButtons => \E j \in DOMAIN ev : Lifts(ev[j], "button", b)
    <3>1. \A b : Lifted(ev, "button", b)
      BY <2>2 DEF Lifted, Presses, About, KeyEvent
    <3> QED BY <3>1, <2>1 DEF PressedButtons
  <2>5. TypeOK /\ UNCHANGED <<vars, client, open>>
    BY <2>1 DEF IInv
  <2>6. wire' = IF open THEN wire \o ev ELSE wire
    BY <2>1
  <2> QED BY <2>2, <2>3, <2>4, <2>5, <2>6, SendReleases
<1>2. CASE ~(enabled /\ focused /\ (k \in heldKeys) # p)
  BY <1>2, SilenceReleases DEF Key_, press, PressedButtons
<1> QED BY <1>1, <1>2

\* A mouse button goes down or up.
LEMMA ButtonReleased ==
  ASSUME IInv, RemoteType, FlightReleases, PageTypes, UNCHANGED <<vars, client>>,
         NEW b \in PageButton, NEW p \in BOOLEAN, MouseButton(b, p)
  PROVE  FlightReleases'
<1>1. CASE enabled /\ (b \in heldButtons) # p
  <2> DEFINE ev == <<ButtonEvent(b, p)>>
  <2>1. /\ wire' = (IF open THEN wire \o ev ELSE wire) /\ heldButtons' = Edit(heldButtons, b, p)
        /\ UNCHANGED <<heldKeys, fired, open>>
    BY <1>1 DEF MouseButton, Send, press
  <2>2. /\ ev \in Seq(InputEvent) /\ DOMAIN ev = {1} /\ ev[1] = ButtonEvent(b, p)
    BY EventTypes, PageKeysAreKeys, OneEvent
  <2> HIDE DEF ev
  <2>3. \A c \in Button \ PressedButtons' :
          /\ Lifted(ev, "button", c)
          /\ c \in PressedButtons => \E j \in DOMAIN ev : Lifts(ev[j], "button", c)
    <3> SUFFICES ASSUME NEW c \in Button \ PressedButtons'
                 PROVE  /\ Lifted(ev, "button", c)
                        /\ c \in PressedButtons => \E j \in DOMAIN ev : Lifts(ev[j], "button", c)
      OBVIOUS
    <3>1. p => c # b
      BY <2>1 DEF Edit, PressedButtons
    <3>2. Lifted(ev, "button", c)
      BY <2>2, <3>1 DEF Lifted, Presses, About, ButtonEvent
    <3>3. c \in PressedButtons => (c = b /\ ~p)
      BY <2>1 DEF Edit, PressedButtons
    <3>4. (c = b /\ ~p) => Lifts(ev[1], "button", c)
      BY <2>2 DEF Lifts, About, ButtonEvent
    <3> QED BY <3>2, <3>3, <3>4, <2>2
  <2>4. \A k \in Key \ heldKeys' :
           /\ Lifted(ev, "key", k)
           /\ k \in heldKeys => \E j \in DOMAIN ev : Lifts(ev[j], "key", k)
    <3>1. \A k : Lifted(ev, "key", k)
      BY <2>2 DEF Lifted, Presses, About, ButtonEvent
    <3> QED BY <3>1, <2>1
  <2>5. TypeOK /\ UNCHANGED <<vars, client, open>>
    BY <2>1 DEF IInv
  <2>6. wire' = IF open THEN wire \o ev ELSE wire
    BY <2>1
  <2> QED BY <2>2, <2>3, <2>4, <2>5, <2>6, SendReleases
<1>2. CASE ~(enabled /\ (b \in heldButtons) # p)
  BY <1>2, SilenceReleases DEF MouseButton, press, PressedButtons
<1> QED BY <1>1, <1>2

\* The long-press timer presses the right button.
LEMMA TimerReleased ==
  ASSUME IInv, RemoteType, FlightReleases, PageTypes, UNCHANGED <<vars, client>>, TimerFires
  PROVE  FlightReleases'
<1>1. CASE pending
  <2> DEFINE ev == <<ButtonEvent(RightButton, TRUE)>>
  <2>1. /\ wire' = (IF open THEN wire \o ev ELSE wire) /\ fired' = TRUE
        /\ UNCHANGED <<heldKeys, heldButtons, open>>
    BY <1>1 DEF TimerFires, Send
  <2>2. /\ ev \in Seq(InputEvent) /\ DOMAIN ev = {1} /\ ev[1] = ButtonEvent(RightButton, TRUE)
    <3>1. ButtonEvent(RightButton, TRUE) \in InputEvent
      BY EventTypes, PageKeysAreKeys
    <3> QED BY <3>1, EventSeqs, OneEvent
  <2> HIDE DEF ev
  <2>3. \A c \in Button \ PressedButtons' : c # RightButton /\ c \notin PressedButtons
    BY <2>1 DEF PressedButtons
  <2>4. \A c : c # RightButton => Lifted(ev, "button", c)
    BY <2>2 DEF Lifted, Presses, About, ButtonEvent
  <2>5. \A k : Lifted(ev, "key", k)
    BY <2>2 DEF Lifted, Presses, About, ButtonEvent
  <2> QED BY <2>1, <2>2, <2>3, <2>4, <2>5, SendReleases DEF IInv
<1>2. CASE ~pending
  BY <1>2, SilenceReleases DEF TimerFires, PressedButtons
<1> QED BY <1>1, <1>2

\* A typed character, and the shift around it, go up again.
LEMMA CharReleased ==
  ASSUME IInv, RemoteType, FlightReleases, PageTypes, UNCHANGED <<vars, client>>,
         NEW c \in Char, NEW shift \in BOOLEAN, TypeChar(c, shift)
  PROVE  FlightReleases'
<1> DEFINE stroke == <<KeyEvent(c, TRUE), KeyEvent(c, FALSE)>>
           down == <<KeyEvent(ShiftLeft, TRUE)>>
           up == <<KeyEvent(ShiftLeft, FALSE)>>
           ev == IF shift THEN down \o stroke \o up ELSE stroke
<1>1. /\ wire' = IF open THEN wire \o ev ELSE wire
      /\ UNCHANGED <<heldKeys, heldButtons, fired, open>>
  BY DEF TypeChar, Send, page, press
<1>2. /\ KeyEvent(c, TRUE) \in InputEvent /\ KeyEvent(c, FALSE) \in InputEvent
      /\ KeyEvent(ShiftLeft, TRUE) \in InputEvent /\ KeyEvent(ShiftLeft, FALSE) \in InputEvent
  BY EventTypes, PageKeysAreKeys
<1>3. stroke \in Seq(InputEvent) /\ down \in Seq(InputEvent) /\ up \in Seq(InputEvent)
  BY <1>2, EventSeqs
<1>4. \A kind, k : Lifted(stroke, kind, k)
  <2>1. DOMAIN stroke = 1 .. 2 /\ stroke[1] = KeyEvent(c, TRUE) /\ stroke[2] = KeyEvent(c, FALSE)
    OBVIOUS
  <2> HIDE DEF stroke
  <2> QED BY <2>1 DEF Lifted, Presses, Lifts, About, KeyEvent
<1>5. /\ \A kind, k : Lifted(up, kind, k)
      /\ \E j \in DOMAIN up : Lifts(up[j], "key", ShiftLeft)
      /\ \A kind, k : (kind # "key" \/ k # ShiftLeft) => Lifted(down, kind, k)
  <2>1. /\ DOMAIN up = {1} /\ up[1] = KeyEvent(ShiftLeft, FALSE)
        /\ DOMAIN down = {1} /\ down[1] = KeyEvent(ShiftLeft, TRUE)
    BY OneEvent
  <2> HIDE DEF up, down
  <2> QED BY <2>1 DEF Lifted, Presses, Lifts, About, KeyEvent
<1> HIDE DEF stroke, up, down
<1>6. /\ down \o stroke \in Seq(InputEvent) /\ (down \o stroke) \o up \in Seq(InputEvent)
  BY <1>3, ConcatIs
<1>7. ASSUME NEW kind, NEW k PROVE Lifted((down \o stroke) \o up, kind, k)
  <2>1. CASE kind = "key" /\ k = ShiftLeft
    BY <2>1, <1>3, <1>5, <1>6, LiftedConcat
  <2>2. CASE kind # "key" \/ k # ShiftLeft
    <3>1. Lifted(down \o stroke, kind, k)
      BY <2>2, <1>3, <1>4, <1>5, LiftedConcat
    <3> QED BY <3>1, <1>3, <1>5, <1>6, LiftedConcat
  <2> QED BY <2>1, <2>2
<1>8. ev \in Seq(InputEvent) /\ \A kind, k : Lifted(ev, kind, k)
  BY <1>3, <1>4, <1>6, <1>7
<1> HIDE DEF ev
<1>9. PressedButtons' = PressedButtons
  BY <1>1 DEF PressedButtons
<1> QED BY <1>1, <1>8, <1>9, SendReleases DEF IInv

\* Remote control is switched off.
LEMMA DisableReleases ==
  ASSUME IInv, RemoteType, FlightReleases, PageTypes, UNCHANGED <<vars, client, open>>, Disable
  PROVE  FlightReleases'
<1>1. CASE enabled
  BY <1>1, ReleaseAllReleases DEF Disable, IInv
<1>2. CASE ~enabled
  BY <1>2, SilenceReleases DEF Disable, press, PressedButtons
<1> QED BY <1>1, <1>2

\* Every step of the page.
LEMMA PageStepReleases ==
  ASSUME IInv, RemoteType, FlightReleases, PageTypes, DetachDrops, UNCHANGED <<vars, client>>, PageStep
  PROVE  FlightReleases'
<1>1. ASSUME NEW k \in PageKey, NEW p \in BOOLEAN, Key_(k, p) PROVE FlightReleases'
  BY <1>1, KeyReleased
<1>2. ASSUME NEW b \in PageButton, NEW p \in BOOLEAN, MouseButton(b, p) PROVE FlightReleases'
  BY <1>2, ButtonReleased
<1>3. ASSUME TouchStart \/ TouchMove \/ TouchEnd \/ TouchCancel PROVE FlightReleases'
  <2>1. /\ UNCHANGED <<heldKeys, heldButtons, open>>
        /\ \/ CancelLongPress /\ Send(Unpress)
           \/ UNCHANGED <<fired, wire>>
    BY <1>3 DEF TouchStart, TouchMove, TouchEnd, TouchCancel, press
  <2>2. CASE CancelLongPress /\ Send(Unpress)
    BY <2>1, <2>2, CancelReleases DEF IInv
  <2>3. CASE UNCHANGED <<fired, wire>>
    BY <2>1, <2>3, SilenceReleases DEF PressedButtons
  <2> QED BY <2>1, <2>2, <2>3
<1>4. ASSUME TimerFires PROVE FlightReleases'
  BY <1>4, TimerReleased
<1>5. ASSUME TouchBeside \/ GainsFocus \/ ChannelOpens PROVE FlightReleases'
  BY <1>5, SilenceReleases DEF TouchBeside, GainsFocus, ChannelOpens, page, press, PressedButtons
<1>6. ASSUME NEW c \in Char, NEW s \in BOOLEAN, TypeChar(c, s) PROVE FlightReleases'
  BY <1>6, CharReleased
<1>7. ASSUME LosesFocus PROVE FlightReleases'
  <2>1. UNCHANGED <<enabled, open>>
    BY <1>7 DEF LosesFocus
  <2>2. CASE enabled
    BY <1>7, <2>1, <2>2, ReleaseAllReleases DEF LosesFocus, IInv
  <2>3. CASE ~enabled
    BY <1>7, <2>1, <2>3, SilenceReleases DEF LosesFocus, press, PressedButtons
  <2> QED BY <2>2, <2>3
<1>8. ASSUME SetControl PROVE FlightReleases'
  <2>1. open' = open
    BY <1>8 DEF SetControl
  <2>2. CASE enabled /\ Disable
    BY <2>1, <2>2, DisableReleases
  <2>3. CASE UNCHANGED <<heldKeys, heldButtons, press, wire>>
    BY <2>1, <2>3, SilenceReleases DEF press, PressedButtons
  <2> QED BY <1>8, <2>2, <2>3 DEF SetControl
<1>9. ASSUME ChannelCloses PROVE FlightReleases'
  BY <1>9 DEF ChannelCloses, DetachDrops, FlightReleases, Live, vars
<1> QED BY <1>1, <1>2, <1>3, <1>4, <1>5, <1>6, <1>7, <1>8, <1>9 DEF PageStep

\* One event injected.
LEMMA InjectReleases ==
  ASSUME IInv, RemoteType, FlightReleases, Inject, UNCHANGED <<client, page, open, wire>>
  PROVE  FlightReleases'
<1> DEFINE e == Head(queue)
<1>1. /\ queue \in Seq(InputEvent) /\ wire \in Seq(InputEvent) /\ queue # <<>>
      /\ thread = "running" /\ thread' = "running" /\ sender' = sender
      /\ queue' = Tail(queue) /\ e \in InputEvent
      /\ hostKeys = keys /\ hostButtons = buttons /\ keys \subseteq Accepted
  BY HeadTail DEF IInv, TypeOK, RemoteType, HostMatchesHeld, Inject
<1>2. Flight \in Seq(InputEvent) /\ Flight # <<>> /\ Head(Flight) = e /\ Flight' = Tail(Flight)
  BY <1>1 DEF Flight
<1>3. e.pressed \in BOOLEAN \/ e.kind = "motion"
  BY <1>1 DEF InputEvent
<1> HIDE DEF e
<1>4. ASSUME NEW k \in hostKeys'
      PROVE  Presses(e, "key", k) \/ (k \in hostKeys /\ ~Lifts(e, "key", k))
  <2>1. CASE InjectKey(e)
    <3>1. CASE HasKeyboard /\ KeyChanges(e)
      BY <1>3, <1>4, <2>1, <3>1 DEF InjectKey, Edit, Presses, Lifts, About
    <3>2. CASE ~(HasKeyboard /\ KeyChanges(e))
      <4>1. k \in keys /\ k \in hostKeys
        BY <1>1, <1>4, <2>1, <3>2 DEF InjectKey
      <4>2. ~KeyChanges(e)
        BY <4>1, <3>2 DEF IInv, NoKeyboardNoKeys
      <4> QED BY <4>1, <4>2, <1>1, <1>3 DEF KeyChanges, Lifts, About
    <3> QED BY <3>1, <3>2
  <2>2. CASE InjectButton(e)
    BY <1>4, <2>2 DEF InjectButton, Lifts, About
  <2>3. CASE InjectMotion(e)
    BY <1>4, <2>3 DEF InjectMotion, host, Lifts, About
  <2> QED BY <2>1, <2>2, <2>3 DEF Inject, e
<1>5. ASSUME NEW b \in hostButtons'
      PROVE  Presses(e, "button", b) \/ (b \in hostButtons /\ ~Lifts(e, "button", b))
  <2>1. CASE InjectKey(e)
    BY <1>5, <2>1 DEF InjectKey, Lifts, About
  <2>2. CASE InjectButton(e)
    BY <1>1, <1>3, <1>5, <2>2 DEF InjectButton, Edit, Presses, Lifts, About
  <2>3. CASE InjectMotion(e)
    BY <1>5, <2>3 DEF InjectMotion, host, Lifts, About
  <2> QED BY <2>1, <2>2, <2>3 DEF Inject, e
<1>6. UNCHANGED <<client, open, heldKeys, heldButtons, fired>>
  BY DEF page, press
<1>7. SUFFICES ASSUME Live
      PROVE  /\ ~open => Flight' = <<>> /\ hostKeys' = {} /\ hostButtons' = {}
             /\ \A k \in Key \ heldKeys : UpAfter(Flight', hostKeys', "key", k)
             /\ \A b \in Button \ PressedButtons : UpAfter(Flight', hostButtons', "button", b)
  BY <1>1, <1>6 DEF FlightReleases, Live, PressedButtons
<1>8. open
  BY <1>2, <1>7 DEF FlightReleases
<1>9. ASSUME NEW k \in Key \ heldKeys PROVE UpAfter(Flight', hostKeys', "key", k)
  <2>1. UpAfter(Flight, hostKeys, "key", k)
    BY <1>7 DEF FlightReleases
  <2> DEFINE after == hostKeys'
  <2>2. k \in after => \/ Presses(Head(Flight), "key", k)
                       \/ k \in hostKeys /\ ~Lifts(Head(Flight), "key", k)
    <3>1. ASSUME k \in hostKeys'
          PROVE  Presses(e, "key", k) \/ (k \in hostKeys /\ ~Lifts(e, "key", k))
      BY <1>4, <3>1
    <3>2. Head(Flight) = e
      BY <1>2
    <3> QED BY <3>1, <3>2 DEF Presses, Lifts, About
  <2> HIDE DEF after
  <2>3. UpAfter(Tail(Flight), after, "key", k)
    BY <1>2, <2>1, <2>2, UpTail
  <2> QED BY <1>2, <2>3 DEF after
<1>10. ASSUME NEW b \in Button \ PressedButtons PROVE UpAfter(Flight', hostButtons', "button", b)
  <2>1. UpAfter(Flight, hostButtons, "button", b)
    BY <1>7 DEF FlightReleases
  <2> DEFINE after == hostButtons'
  <2>2. b \in after => \/ Presses(Head(Flight), "button", b)
                       \/ b \in hostButtons /\ ~Lifts(Head(Flight), "button", b)
    <3>1. ASSUME b \in hostButtons'
          PROVE  Presses(e, "button", b) \/ (b \in hostButtons /\ ~Lifts(e, "button", b))
      BY <1>5, <3>1
    <3>2. Head(Flight) = e
      BY <1>2
    <3> QED BY <3>1, <3>2 DEF Presses, Lifts, About
  <2> HIDE DEF after
  <2>3. UpAfter(Tail(Flight), after, "button", b)
    BY <1>2, <2>1, <2>2, UpTail
  <2> QED BY <1>2, <2>3 DEF after
<1> QED BY <1>8, <1>9, <1>10

\* An event passes from the channel to the queue: what is under way stays the same.
LEMMA DeliverReleases ==
  ASSUME IInv, RemoteType, FlightReleases, Deliver
  PROVE  FlightReleases'
<1>1. UNCHANGED <<client, open, heldKeys, heldButtons, fired>> /\ wire # <<>>
  BY DEF Deliver, page, press
<1>2. UNCHANGED <<thread, sender, hostKeys, hostButtons>>
  BY DEF Deliver, Receive, vars, host
<1>3. SUFFICES ASSUME Live PROVE Flight' = Flight
  BY <1>1, <1>2 DEF FlightReleases, Live, PressedButtons
<1> DEFINE e == Head(wire)
<1>4. queue' = Append(queue, e) /\ wire' = Tail(wire)
  BY <1>3 DEF Deliver, Receive, Live
<1>5. /\ queue \in Seq(InputEvent) /\ wire \in Seq(InputEvent)
      /\ e \in InputEvent /\ Tail(wire) \in Seq(InputEvent)
  BY <1>1 DEF IInv, TypeOK, RemoteType
<1>6. wire = <<e>> \o Tail(wire)
  BY <1>1, <1>5
<1>7. Append(queue, e) = queue \o <<e>> /\ <<e>> \in Seq(InputEvent)
  BY <1>5
<1> HIDE DEF e
<1>8. (queue \o <<e>>) \o Tail(wire) = queue \o (<<e>> \o Tail(wire))
  BY <1>5, <1>7, ConcatAssociative
<1> QED BY <1>4, <1>6, <1>7, <1>8 DEF Flight

\* Steps of the injector and of the session that inject nothing.
LEMMA ServerReleases ==
  ASSUME IInv, RemoteType, FlightReleases, Server, UNCHANGED <<client, page, open, wire>>
  PROVE  FlightReleases'
<1>1. UNCHANGED <<client, open, heldKeys, heldButtons, fired, wire>>
  BY DEF page, press
<1>2. CASE Connect
  BY <1>1, <1>2 DEF Connect, host, FlightReleases, Live, Flight, PressedButtons
<1>3. CASE Inject
  BY <1>3, InjectReleases
<1>4. CASE InjectFails \/ DrainEvent \/ ThreadEnds \/ Detach
  BY <1>4 DEF InjectFails, DrainEvent, ThreadEnds, Detach, FlightReleases, Live
<1> QED BY <1>2, <1>3, <1>4 DEF Server, Run

\* The person and the page.
LEMMA PageStepHolds ==
  ASSUME RemoteType, PageTypes, PersonHolds, PageStep
  PROVE  PageTypes' /\ PersonHolds'
<1> USE DEF PageTypes, PersonHolds
<1>1. ASSUME NEW k \in PageKey, NEW p \in BOOLEAN, Key_(k, p) PROVE PageTypes' /\ PersonHolds'
  BY <1>1 DEF Key_, Edit, press
<1>2. ASSUME NEW b \in PageButton, NEW p \in BOOLEAN, MouseButton(b, p)
      PROVE  PageTypes' /\ PersonHolds'
  BY <1>2 DEF MouseButton, Edit, press
<1>3. ASSUME TouchStart PROVE PageTypes' /\ PersonHolds'
  <2>1. /\ on' = on + 1 /\ UNCHANGED <<downKeys, downButtons, focused, enabled, heldKeys, heldButtons, open>>
        /\ \/ UNCHANGED <<pending, fired, aside>>
           \/ enabled /\ pending' = TRUE /\ UNCHANGED <<fired, aside>>
           \/ pending' = FALSE /\ fired' = FALSE /\ aside' = FALSE
    BY <1>3 DEF TouchStart, CancelLongPress, press
  <2>2. on' \in Nat /\ on' > 0
    BY <2>1
  <2>3. pending' \in BOOLEAN /\ fired' \in BOOLEAN /\ aside' \in BOOLEAN
    BY <2>1
  <2>4. ~enabled => (~pending' /\ ~fired')
    BY <2>1
  <2> QED BY <2>1, <2>2, <2>3, <2>4
<1>4. ASSUME TouchMove PROVE PageTypes' /\ PersonHolds'
  BY <1>4 DEF TouchMove, CancelLongPress, person
<1>5. ASSUME TouchEnd PROVE PageTypes' /\ PersonHolds'
  <2>1. /\ on > 0 /\ on' = on - 1
        /\ UNCHANGED <<downKeys, downButtons, focused, enabled, heldKeys, heldButtons, open>>
        /\ \/ pending' = FALSE /\ fired' = FALSE /\ aside' = FALSE
           \/ /\ UNCHANGED <<pending, fired>>
              /\ aside' = (aside \/ (on = 1 /\ (pending \/ fired)))
    BY <1>5 DEF TouchEnd, CancelLongPress, press
  <2>2. on' \in Nat /\ (on # 1 => on' > 0)
    BY <2>1
  <2>3. CASE pending' = FALSE /\ fired' = FALSE /\ aside' = FALSE
    BY <2>1, <2>2, <2>3
  <2>4. CASE UNCHANGED <<pending, fired>> /\ aside' = (aside \/ (on = 1 /\ (pending \/ fired)))
    <3>1. aside' \in BOOLEAN
      BY <2>4
    <3>2. (pending \/ fired) => (on' > 0 \/ aside')
      <4>1. CASE on = 1
        BY <2>4, <4>1
      <4>2. CASE on # 1
        BY <2>2, <4>2
      <4> QED BY <4>1, <4>2
    <3> QED BY <2>1, <2>2, <2>4, <3>1, <3>2
  <2> QED BY <2>1, <2>3, <2>4
<1>6. ASSUME TouchCancel PROVE PageTypes' /\ PersonHolds'
  BY <1>6 DEF TouchCancel, CancelLongPress, press
<1>7. ASSUME TimerFires PROVE PageTypes' /\ PersonHolds'
  BY <1>7 DEF TimerFires, person
<1>8. ASSUME TouchBeside \/ GainsFocus \/ ChannelOpens PROVE PageTypes' /\ PersonHolds'
  <2>1. /\ UNCHANGED <<downKeys, downButtons, on, enabled, heldKeys, heldButtons, pending, fired, aside>>
        /\ focused' = focused \/ focused' = TRUE
        /\ open' = open \/ open' = TRUE
    BY <1>8 DEF TouchBeside, GainsFocus, ChannelOpens, page, press, person
  <2>2. focused' \in BOOLEAN /\ (~focused' => ~focused)
    <3>1. CASE focused' = focused
      BY <3>1
    <3>2. CASE focused' = TRUE
      BY <3>2
    <3> QED BY <2>1, <3>1, <3>2
  <2>3. open' \in BOOLEAN
    BY <2>1
  <2> QED BY <2>1, <2>2, <2>3
<1>9. ASSUME NEW c \in Char, NEW s \in BOOLEAN, TypeChar(c, s) PROVE PageTypes' /\ PersonHolds'
  BY <1>9 DEF TypeChar, page, press, person
<1>10. ASSUME LosesFocus PROVE PageTypes' /\ PersonHolds'
  BY <1>10 DEF LosesFocus, PageReleaseAll, CancelLongPress, press
<1>11. ASSUME SetControl PROVE PageTypes' /\ PersonHolds'
  <2>1. UNCHANGED <<downKeys, downButtons, on, focused, open>>
    BY <1>11 DEF SetControl, person
  <2>2. CASE enabled /\ Disable
    BY <2>1, <2>2 DEF Disable, PageReleaseAll, CancelLongPress
  <2>3. CASE ~enabled /\ enabled' = TRUE /\ UNCHANGED <<heldKeys, heldButtons, press, aside>>
    BY <2>1, <2>3 DEF press
  <2> QED BY <1>11, <2>2, <2>3 DEF SetControl
<1>12. ASSUME ChannelCloses PROVE PageTypes' /\ PersonHolds'
  BY <1>12 DEF ChannelCloses, Disable, PageReleaseAll, CancelLongPress, press, person
<1> QED BY <1>1, <1>2, <1>3, <1>4, <1>5, <1>6, <1>7, <1>8, <1>9, <1>10, <1>11, <1>12 DEF PageStep

\* Every step keeps the sender and the session together.
LEMMA DetachDropsStays ==
  ASSUME DetachDrops, RemoteNext
  PROVE  DetachDrops'
<1>1. CASE Server
  <2>1. CASE Run
    BY <2>1 DEF Run, Connect, Inject, InjectFails, DrainEvent, ThreadEnds, DetachDrops
  <2>2. CASE Detach
    BY <2>2 DEF Detach, DetachDrops
  <2> QED BY <1>1, <2>1, <2>2 DEF Server
<1>2. CASE UNCHANGED vars \/ \E e \in InputEvent : Receive(e)
  BY <1>2 DEF Receive, vars, DetachDrops
<1>3. CASE Deliver
  BY <1>3 DEF Deliver, Receive, vars, DetachDrops
<1> QED BY <1>1, <1>2, <1>3 DEF RemoteNext

\* HeldInv holds initially.
LEMMA InitHeldInv == ASSUME RemoteInit PROVE HeldInv
<1>1. PageTypes /\ DetachDrops /\ PersonHolds
  BY DEF RemoteInit, Init, PageTypes, DetachDrops, PersonHolds
<1>2. Flight = <<>> /\ hostKeys = {} /\ hostButtons = {}
  BY DEF RemoteInit, Init, Flight
<1> QED BY <1>1, <1>2, UpNothing DEF HeldInv, FlightReleases

\* Every step keeps it.
LEMMA HeldInvStays ==
  ASSUME IInv, RemoteType, HeldInv, [RemoteNext]_remoteVars
  PROVE  HeldInv'
<1>1. CASE Server /\ UNCHANGED <<client, person, page, open, wire>>
  <2>1. PageTypes' /\ PersonHolds'
    BY <1>1 DEF HeldInv, PageTypes, PersonHolds, person, page, press
  <2>2. RemoteNext
    BY <1>1 DEF RemoteNext
  <2> QED BY <1>1, <2>1, <2>2, ServerReleases, DetachDropsStays DEF HeldInv
<1>2. CASE client = "page" /\ PageStep /\ UNCHANGED <<vars, client>>
  BY <1>2, PageStepHolds, PageStepReleases, DetachDropsStays DEF HeldInv, RemoteNext
<1>3. CASE Deliver
  <2>1. PageTypes' /\ PersonHolds'
    BY <1>3 DEF Deliver, HeldInv, PageTypes, PersonHolds, person, page, press
  <2> QED BY <1>3, <2>1, DeliverReleases, DetachDropsStays DEF HeldInv, RemoteNext
<1>4. CASE /\ client = "other"
           /\ \E e \in InputEvent : Receive(e)
           /\ UNCHANGED <<client, person, page, open, wire>>
  <2>1. PageTypes' /\ PersonHolds'
    BY <1>4 DEF HeldInv, PageTypes, PersonHolds, person, page, press
  <2>2. FlightReleases'
    BY <1>4 DEF FlightReleases, Live
  <2> QED BY <1>4, <2>1, <2>2, DetachDropsStays DEF HeldInv, RemoteNext
<1>5. CASE UNCHANGED remoteVars
  <2>1. PageTypes' /\ PersonHolds' /\ DetachDrops'
    BY <1>5 DEF HeldInv, PageTypes, PersonHolds, DetachDrops, remoteVars, vars, person, page, press
  <2>2. FlightReleases'
    BY <1>5, SilenceReleases DEF HeldInv, remoteVars, page, press, PressedButtons
  <2> QED BY <2>1, <2>2 DEF HeldInv
<1> QED BY <1>1, <1>2, <1>3, <1>4, <1>5 DEF RemoteNext

\* The invariant implies the property: with nothing under way, what is down on the host
\* is what the page holds.
LEMMA HeldInvImplies ==
  ASSUME IInv, RemoteType, HeldInv
  PROVE  HostHoldsWhatIsHeld
<1> SUFFICES ASSUME Quiet
             PROVE  /\ hostKeys \subseteq downKeys
                    /\ hostButtons \subseteq
                         downButtons \cup (IF on > 0 \/ aside THEN {RightButton} ELSE {})
                    /\ ~enabled \/ ~focused => hostKeys = {}
                    /\ ~enabled => hostButtons = {}
  BY DEF HostHoldsWhatIsHeld
<1>1. Live /\ Flight = <<>>
  BY DEF Quiet, Live, Flight
<1>2. hostKeys \subseteq Key /\ hostButtons \subseteq Button
  BY InputAssumption DEF IInv, TypeOK
<1>3. \A S, kind, x : UpAfter(<<>>, S, kind, x) => x \notin S
  BY DEF UpAfter
<1>4. hostKeys \subseteq heldKeys /\ hostButtons \subseteq PressedButtons
  BY <1>1, <1>2, <1>3 DEF HeldInv, FlightReleases
<1> QED BY <1>4 DEF HeldInv, PersonHolds, PressedButtons

\* Once everything the page sent has been injected, the host holds down only what
\* the person holds, but for the long press no touch event ends.
THEOREM HeldCorrect == RemoteSpec => []HostHoldsWhatIsHeld
<1>1. RemoteSpec => []IInv
  BY RemoteControlIsInputSession, IInvInvariant, PTL DEF ServerIsInputSession
<1>2. IInv /\ RemoteType /\ HeldInv /\ [RemoteNext]_remoteVars => HeldInv'
  BY HeldInvStays
<1>3. RemoteInit => HeldInv
  BY InitHeldInv
<1>4. RemoteSpec => []HeldInv
  BY <1>1, <1>2, <1>3, RemoteTypeInvariant, PTL DEF RemoteSpec
<1>5. IInv /\ RemoteType /\ HeldInv => HostHoldsWhatIsHeld
  BY HeldInvImplies
<1> QED BY <1>1, <1>4, <1>5, RemoteTypeInvariant, PTL

=============================================================================
