SPECIFICATION Spec
CONSTANTS
  MaxId = 2
  Links = {l1}
  Addresses = {mixed, lower}
  mixed = mixed
  lower = lower
  AddressKey <- ModelKey
  Amounts = {1}
  NoValue = NoValue
  MaxRuns = 1
  MaxActs = 5
  MaxUpsets = 1
INVARIANTS OwnedByOne ToldAsDone
CHECK_DEADLOCK FALSE
