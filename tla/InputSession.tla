---------------------------- MODULE InputSession ----------------------------
(***************************************************************************)
(* input.rs: remote control of one session.  The DataChannel handler puts  *)
(* decoded events in an unbounded queue; the injector thread connects to   *)
(* the compositor, injects one event after the other and, when the session *)
(* detaches, releases whatever the client still held.                      *)
(*                                                                         *)
(* The compositor (external) is what it believes of the two virtual        *)
(* devices: the keys and buttons down and the modifiers it was last told.  *)
(* Modifier masks are sets of bits.  A failed flush means the Wayland      *)
(* connection is gone; the compositor then drops the devices by itself, so *)
(* nothing is claimed of the host after it.                                *)
(***************************************************************************)
EXTENDS Integers, Sequences

CONSTANTS Key,           \* key codes a client can send
          Accepted,      \* codes in 1 .. KEY_MAX
          Button,
          Bit,           \* modifier mask bits
          ModifierBit,   \* modifier_bit: code -> the bit it holds down, as a set
          LockBit,       \* the lock bit a code toggles, as a set
          HasKeyboard,   \* the virtual keyboard could be created
          MaxQueue       \* bound: events waiting in the queue

ASSUME InputAssumption ==
  /\ Accepted \subseteq Key
  /\ ModifierBit \in [Key -> SUBSET Bit]
  /\ LockBit \in [Key -> SUBSET Bit]
  /\ HasKeyboard \in BOOLEAN
  /\ MaxQueue \in Nat

VARIABLES
  thread,                   \* run_injector: "connecting", "running", "draining", "done"
  sender,                   \* the handler still owns the queue's sender
  detached,                 \* detach was called
  queue,                    \* events received and not yet taken
  keys, buttons, locked,    \* HeldState
  hostKeys, hostButtons,    \* the compositor: what is down,
  hostMods,                 \* ... and the <<depressed, locked>> it was told last
  broken                    \* a flush failed

host == <<hostKeys, hostButtons, hostMods>>
held == <<keys, buttons, locked>>
vars == <<thread, sender, detached, queue, keys, buttons, locked,
          hostKeys, hostButtons, hostMods, broken>>

InputEvent ==
       [kind : {"key"}, code : Key, pressed : BOOLEAN]
  \cup [kind : {"button"}, code : Button, pressed : BOOLEAN]
  \cup [kind : {"motion"}]

TypeOK ==
  /\ thread \in {"connecting", "running", "draining", "done"}
  /\ sender \in BOOLEAN
  /\ detached \in BOOLEAN
  /\ queue \in Seq(InputEvent)
  /\ keys \subseteq Accepted /\ hostKeys \subseteq Accepted
  /\ buttons \subseteq Button /\ hostButtons \subseteq Button
  /\ locked \subseteq Bit
  /\ hostMods \in (SUBSET Bit) \X (SUBSET Bit)
  /\ broken \in BOOLEAN

\* attach.
Init ==
  /\ thread = "connecting"
  /\ sender = TRUE
  /\ detached = FALSE
  /\ queue = <<>>
  /\ keys = {} /\ buttons = {} /\ locked = {}
  /\ hostKeys = {} /\ hostButtons = {} /\ hostMods = <<{}, {}>>
  /\ broken = FALSE

-----------------------------------------------------------------------------
(* HeldState. *)

Toggle(S, T) == (S \ T) \cup (T \ S)

\* Two held keys that share a bit cancel it, as an xor fold would (mutant).
Depressed_Xor(K) ==
  {b \in Bit : \E k \in K : b \in ModifierBit[k] /\ \A x \in K \ {k} : b \notin ModifierBit[x]}

\* A modifier bit is set while any key mapping to it is held.
Depressed(K) == UNION {ModifierBit[k] : k \in K}

Edit(S, x, pressed) == IF pressed THEN S \cup {x} ELSE S \ {x}

\* key() answers Forward: a valid code whose held state the event changes.
KeyChanges(e) == e.code \in Accepted /\ (e.code \in keys) # e.pressed

LockedAfter(e) == IF e.pressed THEN Toggle(locked, LockBit[e.code]) ELSE locked

-----------------------------------------------------------------------------
(* The injector. *)

\* A key event.  Without a virtual keyboard nothing happens at all.
InjectKey(e) ==
  /\ e.kind = "key"
  /\ IF HasKeyboard /\ KeyChanges(e)
     THEN LET after == <<Depressed(Edit(keys, e.code, e.pressed)), LockedAfter(e)>>
          IN  /\ keys' = Edit(keys, e.code, e.pressed)
              /\ locked' = LockedAfter(e)
              /\ hostKeys' = Edit(hostKeys, e.code, e.pressed)
              /\ hostMods' = IF after # <<Depressed(keys), locked>> THEN after ELSE hostMods
     ELSE UNCHANGED <<keys, locked, hostKeys, hostMods>>
  /\ UNCHANGED <<buttons, hostButtons>>

\* A button event; a redundant one is not forwarded.
InjectButton(e) ==
  /\ e.kind = "button"
  /\ buttons' = Edit(buttons, e.code, e.pressed)
  /\ hostButtons' = IF (e.code \in buttons) # e.pressed
                    THEN Edit(hostButtons, e.code, e.pressed) ELSE hostButtons
  /\ UNCHANGED <<keys, locked, hostKeys, hostMods>>

\* Pointer motion and wheel events hold nothing down.
InjectMotion(e) == e.kind = "motion" /\ UNCHANGED <<held, host>>

\* The buttons are only released when a key was held too (mutant).
ReleaseAll_KeysFirst ==
  /\ keys' = {} /\ buttons' = {}
  /\ hostKeys' = IF HasKeyboard THEN hostKeys \ keys ELSE hostKeys
  /\ hostMods' = IF HasKeyboard /\ keys # {} THEN <<{}, locked>> ELSE hostMods
  /\ hostButtons' = IF keys # {} THEN hostButtons \ buttons ELSE hostButtons
  /\ UNCHANGED locked

\* release_all: everything held is released; locks are kept.
ReleaseAll ==
  /\ keys' = {} /\ buttons' = {}
  /\ hostKeys' = IF HasKeyboard THEN hostKeys \ keys ELSE hostKeys
  /\ hostMods' = IF HasKeyboard /\ keys # {} THEN <<{}, locked>> ELSE hostMods
  /\ hostButtons' = hostButtons \ buttons
  /\ UNCHANGED locked

-----------------------------------------------------------------------------
(* The session. *)

\* on_message: binary messages that decode are queued; once the thread has
\* dropped the receiver the send fails and is ignored.
Receive(e) ==
  /\ sender
  /\ Len(queue) < MaxQueue
  /\ queue' = IF thread = "done" THEN queue ELSE Append(queue, e)
  /\ UNCHANGED <<thread, sender, detached, held, host, broken>>

Connect ==
  /\ thread = "connecting"
  /\ thread' \in {"running", "draining"}
  /\ UNCHANGED <<sender, detached, queue, held, host, broken>>

\* Injection works: the event reaches the compositor.
Inject ==
  /\ thread = "running"
  /\ queue # <<>>
  /\ queue' = Tail(queue)
  /\ InjectKey(Head(queue)) \/ InjectButton(Head(queue)) \/ InjectMotion(Head(queue))
  /\ UNCHANGED <<thread, sender, detached, broken>>

\* The flush fails: the thread gives up and drops the injector (release_all on
\* a dead connection) and the receiver.
InjectFails ==
  /\ thread = "running"
  /\ queue # <<>>
  /\ ~(Head(queue).kind = "key" /\ ~HasKeyboard)
  /\ broken' = TRUE
  /\ thread' = "done"
  /\ queue' = <<>>
  /\ keys' = {} /\ buttons' = {}
  /\ UNCHANGED <<sender, detached, locked, host>>

\* Control is unavailable: events are thrown away until the session ends.
DrainEvent ==
  /\ thread = "draining"
  /\ queue # <<>>
  /\ queue' = Tail(queue)
  /\ UNCHANGED <<thread, sender, detached, held, host, broken>>

\* recv fails: no sender, no events left.  The injector is dropped.
ThreadEnds ==
  /\ thread \in {"running", "draining"}
  /\ queue = <<>>
  /\ ~sender
  /\ thread' = "done"
  /\ IF thread = "running" THEN ReleaseAll ELSE UNCHANGED <<held, host>>
  /\ UNCHANGED <<sender, detached, queue, broken>>

\* detach leaves a sender alive (mutant).
Detach_KeepsSender ==
  /\ ~detached
  /\ detached' = TRUE
  /\ UNCHANGED <<thread, sender, queue, held, host, broken>>

\* detach replaces the handler, and with it drops the only sender.
Detach ==
  /\ ~detached
  /\ detached' = TRUE
  /\ sender' = FALSE
  /\ UNCHANGED <<thread, queue, held, host, broken>>

Run == Connect \/ Inject \/ InjectFails \/ DrainEvent \/ ThreadEnds

Next == Run \/ Detach \/ \E e \in InputEvent : Receive(e)

Spec == Init /\ [][Next]_vars

\* The injector thread is scheduled.
FairSpec == Spec /\ WF_vars(Run)

-----------------------------------------------------------------------------
\* While the thread runs, the compositor's idea of the devices is HeldState's:
\* the same keys and buttons down, and exactly those modifier bits that some
\* key which is down maps to - although modifiers are only sent on a change.
HostMatchesHeld ==
  thread = "running" =>
    /\ hostKeys = keys
    /\ hostButtons = buttons
    /\ hostMods[1] = {b \in Bit : \E k \in hostKeys : b \in ModifierBit[k]}
    /\ hostMods[2] = locked

\* Nothing stays pressed on the host once the thread is gone, in whatever
\* state the disconnect found the client ("otherwise a disconnect mid-keypress
\* leaves a key or mouse button stuck down on the host").
NothingStuck ==
  thread = "done" /\ ~broken =>
    /\ hostKeys = {}
    /\ hostButtons = {}
    /\ hostMods[1] = {}

\* Lock bits change on the compositor only as a key goes down: neither
\* autorepeat, nor a release, nor the release of everything toggles them.
LockFollowsPress ==
  [][hostMods'[2] # hostMods[2] =>
       \E k \in Accepted : k \notin hostKeys /\ k \in hostKeys']_vars

\* The injector thread ends after detach, however many events are queued.
DetachEnds == detached ~> thread = "done"

=============================================================================
