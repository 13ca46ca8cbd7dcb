SPECIFICATION Spec
CONSTANTS
  Runs = {n1, n2}
  Subjects = {acct}
  Dates = {1}
  Kinds = {"manual", "own_ids"}
  Answerers = {gui, cli}
  MaxCrashes = 1
  MaxAborts = 1
SYMMETRY Symmetry
INVARIANTS HeldHasQuestion OneQuestion
PROPERTIES AnswersStand WakeOnSettled
CHECK_DEADLOCK FALSE
