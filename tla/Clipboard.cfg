SPECIFICATION FairSpec
CONSTANTS
  MaxCopies = 3
  MaxSessions = 2
INVARIANT QuietMeansSame
PROPERTY FallsSilent
CHECK_DEADLOCK FALSE
