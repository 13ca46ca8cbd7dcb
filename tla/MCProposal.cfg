SPECIFICATION FairSpec
CONSTANTS
  MaxAttempts = 2
  Window = 2
  MaxCrashes = 1
  MaxSignals = 2
INVARIANTS SignedChain Custody
PROPERTIES ImplementsChain Settles ApprovalIsPrepared
CHECK_DEADLOCK FALSE
