SPECIFICATION FairSpec
CONSTANTS
  Years = {2026, 2027}
  FirstYear = 2026
  Standing = {s1}
  Checks = {k1}
  Books <- Quarter
  MaxUpsets = 2
INVARIANTS YearStands
PROPERTIES RecordAsks NeverSilent
CHECK_DEADLOCK FALSE
