SPECIFICATION Spec
CONSTANTS
  Reals = {1}
  Movements = {1, 2}
  On <- ModelOn
  Content <- ModelContent
  MaxLinks = 3
  MaxNights = 3
  MaxUpsets = 2
  Subjects <- ModelSubjects
  Keys <- ModelKeys
  Payloads <- ModelPayloads
  Batches <- ModelBatches
  Times = {1, 2, 3, 4, 5, 6, 7, 8, 9, 10}
INVARIANTS OneAccount
PROPERTIES HiddenStays
CHECK_DEADLOCK FALSE
