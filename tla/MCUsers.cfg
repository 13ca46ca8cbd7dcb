SPECIFICATION Spec
CONSTANTS
  primary = primary
  ann = ann
  word1 = word1
  word2 = word2
  doc = doc
  token1 = token1
  token2 = token2
  NoValue = NoValue
  Ids <- AllIds
  Primary = primary
  Passwords <- AllPasswords
  Docs <- AllDocs
  Tokens <- AllTokens
  Volume = TRUE
  Legacy <- AtRoot
  MaxUsers = 2
  MaxUpsets = 1
SYMMETRY Symmetry
INVARIANTS StoresWhole OpenedByOwner StandingDriven
