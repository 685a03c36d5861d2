-------------------------- MODULE MCRemoteControl --------------------------
\* A small instance of RemoteControl for TLC: both shifts, caps lock, a letter,
\* a code out of range, two mouse buttons.  The person has a
\* left shift, a left button, two fingers and an on-screen keyboard with the
\* letter.
EXTENDS RemoteControl

CONSTANTS lshift, rshift, caps, letter, bad, left, right, shift, lock

MCKey == {lshift, rshift, caps, letter, bad}
MCAccepted == MCKey \ {bad}
MCButton == {left, right}
MCBit == {shift, lock}
MCModifierBit == [k \in MCKey |-> IF k \in {lshift, rshift} THEN {shift} ELSE {}]
MCLockBit == [k \in MCKey |-> IF k = caps THEN {lock} ELSE {}]
MCPageKey == {lshift}
MCPageButton == {left}
MCChar == {letter}

=============================================================================
