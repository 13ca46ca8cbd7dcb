SPECIFICATION FairSpec
CONSTANTS
  Hosts = {serve, command}
  Gates = {g1, g2}
  Answers = {yes, no}
  Shared = FALSE
  MaxDeliveries = 3
  MaxCrashes = 2
INVARIANTS OpensOnce
PROPERTIES AppendOnly Delivered
CHECK_DEADLOCK FALSE
