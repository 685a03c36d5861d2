SPECIFICATION FairSpec
CONSTANTS
  Thread = {t1, t2}
  MaxCalls = 2
INVARIANT ClosedExactlyOnce NoAnswerMissed
PROPERTY StopIsHonoured
CHECK_DEADLOCK FALSE
