SPECIFICATION FairSpec
CONSTANTS
  Runs = {n1, n2}
  Subjects = {acct}
  Dates = {1}
  Kinds = {"manual", "own_ids"}
  Answerers = {gui}
  MaxCrashes = 1
  MaxAborts = 1
PROPERTIES HeldIsAsked
CHECK_DEADLOCK FALSE
