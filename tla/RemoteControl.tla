---------------------------- MODULE RemoteControl ----------------------------
(***************************************************************************)
(* Remote control end to end: the person at the page, client.html's input  *)
(* capture, the reliable and ordered "input" channel, and InputSession.    *)
(*                                                                         *)
(* A client is either the page or any other program that speaks the wire   *)
(* protocol, which may send every event there is.  Motion and wheel events *)
(* of the page hold nothing down and are left out.  The browser is         *)
(* external: a button pressed on the canvas is captured, so that its       *)
(* mouseup reaches the canvas, and a touch event is delivered where the    *)
(* finger went down, while `touches' counts every finger on the page.      *)
(***************************************************************************)
EXTENDS InputSession, SequencesExt

CONSTANTS PageKey,      \* KEYMAP: the codes of physical keys the page knows
          ShiftLeft,
          Char,         \* codes the on-screen keyboard types
          PageButton,   \* the buttons of the person's mouse
          RightButton,  \* what a long press holds down
          MaxBehind     \* bound: events still on the channel when a handler sends

ASSUME RemoteAssumption ==
  /\ PageKey \subseteq Accepted /\ Char \subseteq Accepted
  /\ ShiftLeft \in PageKey
  /\ PageButton \subseteq Button /\ RightButton \in Button
  /\ MaxBehind \in Nat

VARIABLES
  client,                   \* "page" or "other"
  downKeys, downButtons,    \* what the person really holds down,
  on, off,                  \* ... and the fingers on the canvas and beside it
  focused,                  \* the window has the focus and is visible
  enabled,                  \* createInputCapture: control is switched on
  heldKeys, heldButtons,
  timer, orphan,            \* longPressTimer runs; one it no longer names runs
  pending, fired,           \* longPressButton2Pending, longPressButton2Fired
  open, wire,               \* the channel and the events on it
  aside                     \* history: a pressing finger was lifted while another was beside

press == <<timer, orphan, pending, fired>>
person == <<downKeys, downButtons, on, off, focused>>
page == <<enabled, heldKeys, heldButtons, press, aside>>
remoteVars == <<vars, client, person, page, open, wire>>

RemoteInit ==
  /\ Init
  /\ client \in {"page", "other"}
  /\ downKeys = {} /\ downButtons = {} /\ on = 0 /\ off = 0 /\ focused = TRUE
  /\ enabled = FALSE
  /\ heldKeys = {} /\ heldButtons = {}
  /\ timer = FALSE /\ orphan = FALSE /\ pending = FALSE /\ fired = FALSE
  /\ open = FALSE /\ wire = <<>>
  /\ aside = FALSE

-----------------------------------------------------------------------------
(* Sending. *)

KeyEvent(k, p) == [kind |-> "key", code |-> k, pressed |-> p]
ButtonEvent(b, p) == [kind |-> "button", code |-> b, pressed |-> p]

\* send: nothing leaves the page unless the channel is open.
Send(events) ==
  /\ Len(wire) <= MaxBehind
  /\ wire' = IF open THEN wire \o events ELSE wire

\* What cancelLongPress sends.
Unpress == IF fired THEN <<ButtonEvent(RightButton, FALSE)>> ELSE <<>>

\* cancelLongPress; the caller sends Unpress.
CancelLongPress ==
  /\ timer' = FALSE /\ pending' = FALSE /\ fired' = FALSE /\ aside' = FALSE
  /\ UNCHANGED orphan

KeyReleases(codes) == [i \in DOMAIN codes |-> KeyEvent(codes[i], FALSE)]
ButtonReleases(codes) == [i \in DOMAIN codes |-> ButtonEvent(codes[i], FALSE)]

\* A long press in flight is not part of what is released (mutant).
Releases_KeysAndButtons ==
  KeyReleases(SetToSeq(heldKeys)) \o ButtonReleases(SetToSeq(heldButtons))

\* What releaseAll sends.
Releases ==
  KeyReleases(SetToSeq(heldKeys)) \o ButtonReleases(SetToSeq(heldButtons)) \o Unpress

PageReleaseAll ==
  /\ Send(Releases)
  /\ heldKeys' = {} /\ heldButtons' = {}
  /\ CancelLongPress

-----------------------------------------------------------------------------
(* Handlers; without `enabled' no listener is attached. *)

\* onKey: an autorepeat or redundant event does nothing.
Key_(k, p) ==
  /\ (k \in downKeys) # p
  /\ downKeys' = Edit(downKeys, k, p)
  /\ IF enabled /\ focused /\ (k \in heldKeys) # p
     THEN heldKeys' = Edit(heldKeys, k, p) /\ Send(<<KeyEvent(k, p)>>)
     ELSE UNCHANGED <<heldKeys, wire>>
  /\ UNCHANGED <<downButtons, on, off, focused, enabled, heldButtons, press, aside, open>>

\* onMouseButton.
MouseButton(b, p) ==
  /\ (b \in downButtons) # p
  /\ downButtons' = Edit(downButtons, b, p)
  /\ IF enabled /\ (b \in heldButtons) # p
     THEN heldButtons' = Edit(heldButtons, b, p) /\ Send(<<ButtonEvent(b, p)>>)
     ELSE UNCHANGED <<heldButtons, wire>>
  /\ UNCHANGED <<downKeys, on, off, focused, enabled, heldKeys, press, aside, open>>

\* onTouchStart: one finger starts a long press, more of them end it.
TouchStart ==
  /\ on + off < 2
  /\ on' = on + 1
  /\ IF ~enabled THEN UNCHANGED <<press, aside, wire>>
     ELSE IF on + off = 0
          THEN /\ timer' = TRUE /\ orphan' = (orphan \/ timer) /\ pending' = TRUE
               /\ UNCHANGED <<fired, aside, wire>>
          ELSE CancelLongPress /\ Send(Unpress)
  /\ UNCHANGED <<downKeys, downButtons, off, focused, enabled, heldKeys, heldButtons, open>>

\* The long-press timer, or one that a later touch replaced.
TimerFires ==
  /\ \/ timer /\ timer' = FALSE /\ UNCHANGED orphan
     \/ orphan /\ orphan' = FALSE /\ UNCHANGED timer
  /\ IF pending
     THEN /\ pending' = FALSE /\ fired' = TRUE
          /\ Send(<<ButtonEvent(RightButton, TRUE)>>)
     ELSE UNCHANGED <<pending, fired, wire>>
  /\ UNCHANGED <<person, enabled, heldKeys, heldButtons, aside, open>>

\* onTouchMove: the only finger moved too far for a long press.
TouchMove ==
  /\ enabled /\ on = 1 /\ off = 0
  /\ CancelLongPress /\ Send(Unpress)
  /\ UNCHANGED <<person, enabled, heldKeys, heldButtons, open>>

\* onTouchEnd: only the last finger on the page ends a long press.
TouchEnd ==
  /\ on > 0
  /\ on' = on - 1
  /\ IF enabled /\ on + off = 1 THEN CancelLongPress /\ Send(Unpress)
     ELSE /\ aside' = (aside \/ (on = 1 /\ (pending \/ fired)))
          /\ UNCHANGED <<press, wire>>
  /\ UNCHANGED <<downKeys, downButtons, off, focused, enabled, heldKeys, heldButtons, open>>

\* onTouchCancel: the system took the touches over.
TouchCancel ==
  /\ on > 0
  /\ on' = 0
  /\ IF enabled THEN CancelLongPress /\ Send(Unpress)
     ELSE UNCHANGED <<press, aside, wire>>
  /\ UNCHANGED <<downKeys, downButtons, off, focused, enabled, heldKeys, heldButtons, open>>

\* A finger beside the canvas: no handler of the capture sees it.
TouchBeside ==
  /\ \/ on + off < 2 /\ off' = off + 1
     \/ off > 0 /\ off' = off - 1
  /\ UNCHANGED <<downKeys, downButtons, on, focused, page, open, wire>>

\* onKbInput, sendChar: the on-screen keyboard types a character.
TypeChar(c, shift) ==
  /\ enabled
  /\ LET stroke == <<KeyEvent(c, TRUE), KeyEvent(c, FALSE)>>
     IN  Send(IF shift THEN <<KeyEvent(ShiftLeft, TRUE)>> \o stroke
                            \o <<KeyEvent(ShiftLeft, FALSE)>>
              ELSE stroke)
  /\ UNCHANGED <<person, page, open>>

\* blur, visibilitychange.
LosesFocus ==
  /\ focused
  /\ focused' = FALSE
  /\ IF enabled THEN PageReleaseAll
     ELSE UNCHANGED <<heldKeys, heldButtons, press, aside, wire>>
  /\ UNCHANGED <<downKeys, downButtons, on, off, enabled, open>>

GainsFocus ==
  /\ ~focused
  /\ focused' = TRUE
  /\ UNCHANGED <<downKeys, downButtons, on, off, page, open, wire>>

\* disable: everything is released before the listeners go.
Disable ==
  /\ enabled' = FALSE
  /\ IF enabled THEN PageReleaseAll
     ELSE UNCHANGED <<heldKeys, heldButtons, press, aside, wire>>

\* setControl: the person switches control on or off.
SetControl ==
  /\ \/ enabled /\ Disable
     \/ ~enabled /\ enabled' = TRUE /\ UNCHANGED <<heldKeys, heldButtons, press, aside, wire>>
  /\ UNCHANGED <<person, open>>

\* attachInputChannel.
ChannelOpens ==
  /\ ~open /\ ~detached
  /\ open' = TRUE
  /\ UNCHANGED <<person, page, wire>>

\* channel.onclose, after the server ended the session.
ChannelCloses ==
  /\ open /\ detached
  /\ open' = FALSE
  /\ Disable
  /\ UNCHANGED person

PageStep ==
  \/ \E k \in PageKey, p \in BOOLEAN : Key_(k, p)
  \/ \E b \in PageButton, p \in BOOLEAN : MouseButton(b, p)
  \/ TouchStart \/ TimerFires \/ TouchMove \/ TouchEnd \/ TouchCancel \/ TouchBeside
  \/ \E c \in Char, shift \in BOOLEAN : TypeChar(c, shift)
  \/ LosesFocus \/ GainsFocus \/ SetControl \/ ChannelOpens \/ ChannelCloses

-----------------------------------------------------------------------------
(* The channel delivers in order; what is on it when the session detaches  *)
(* is lost.                                                                *)

Deliver ==
  /\ wire # <<>>
  /\ IF sender THEN Receive(Head(wire)) ELSE UNCHANGED vars
  /\ wire' = Tail(wire)
  /\ UNCHANGED <<client, person, page, open>>

Server == Run \/ Detach

RemoteNext ==
  \/ Server /\ UNCHANGED <<client, person, page, open, wire>>
  \/ client = "page" /\ PageStep /\ UNCHANGED <<vars, client>>
  \/ Deliver
  \/ /\ client = "other"
     /\ \E e \in InputEvent : Receive(e)
     /\ UNCHANGED <<client, person, page, open, wire>>

RemoteSpec == RemoteInit /\ [][RemoteNext]_remoteVars

\* The injector thread is scheduled.
RemoteFairSpec == RemoteSpec /\ WF_vars(Run)

-----------------------------------------------------------------------------
\* Everything the page sent has been injected.
Quiet ==
  /\ client = "page"
  /\ thread = "running" /\ sender
  /\ wire = <<>> /\ queue = <<>>

\* Once everything sent has been injected, the host holds nothing down that
\* the person does not hold down - through lost focus, keys released while
\* the window had none, control switched off and on, touches that become long
\* presses and characters typed in between ("Everything held is released on
\* disable, blur and tab hide - otherwise a key held while focus leaves stays
\* stuck on the host").  The exception is a long press whose finger is lifted
\* while another finger rests beside the canvas: onTouchEnd waits for the last
\* finger on the page, whose end the canvas never sees, and the right button
\* stays down, or goes down, until the next touch, blur or disable.
HostHoldsWhatIsHeld ==
  Quiet =>
    /\ hostKeys \subseteq downKeys
    /\ hostButtons \subseteq
         downButtons \cup (IF on > 0 \/ aside THEN {RightButton} ELSE {})
    /\ ~enabled \/ ~focused => hostKeys = {}
    /\ ~enabled => hostButtons = {}

\* What the composition does to the server is a behaviour of InputSession: all
\* that is shown there for every client holds for this page.
ServerIsInputSession == Spec

=============================================================================
