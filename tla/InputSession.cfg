SPECIFICATION RemoteFairSpec
CONSTANTS
  lshift = lshift
  rshift = rshift
  caps = caps
  letter = letter
  bad = bad
  left = left
  right = right
  shift = shift
  lock = lock
  Key <- MCKey
  Accepted <- MCAccepted
  Button <- MCButton
  Bit <- MCBit
  ModifierBit <- MCModifierBit
  LockBit <- MCLockBit
  PageKey <- MCPageKey
  PageButton <- MCPageButton
  ShiftLeft = lshift
  Char <- MCChar
  RightButton = right
  HasKeyboard = TRUE
  MaxQueue = 1
  MaxBehind = 0
INVARIANTS HostMatchesHeld NothingStuck HostHoldsWhatIsHeld
PROPERTIES DetachEnds
CHECK_DEADLOCK FALSE
