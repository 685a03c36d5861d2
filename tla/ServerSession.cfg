SPECIFICATION FairSpec
CONSTANT Workers = {"input", "clipboard", "capture"}
CONSTANT MaxFaults = 1
INVARIANT AppliedIsOwnOrOlder NoOrphanWorker
PROPERTY EventuallyStreams ClientGoneIsNoticed
CHECK_DEADLOCK FALSE
