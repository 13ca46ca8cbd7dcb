SPECIFICATION BooksSpec
CONSTANTS
  Subjects = {"a", "b"}
  Keys = {"account", "VTI", "t1", "t2"}
  Payloads <- ModelPayloads
  Batches = {"seed", "close", "restate", "moves", "more"}
  Times = {1, 2, 3}
  Display = "USD"
  NotStated = NotStated
  Rates <- NoRates
  Inputs <- ModelInputs
  Months = {1, 2}
  MaxFacts = 9
  FeedLots = {1, 2}
  OwnLots = {3}
  LotReports <- ModelReports
  NoLots = NoLots
  Unknown = Unknown
  EnteredTotals = {1, 2}
  Days = {1, 2}
  MaxInstant = 4
  Movements = {1,2,3,4,5,6}
  MovementOf <- ModelMovements
  TransferWindow = 3
  FeeParts = 50
  NoQuantity = NoQuantity
  MaxPairings = 2
  Books <- ModelBooks
  PlanTargets <- ModelTargets
  Band = 500
  MaxOrder = 30
  CashClass = 4
  NoPrice = NoPrice
  NoDraft = NoDraft
  ReviewDay = 400
  MaxMoves = 1
  EstateFiles <- ModelEstates
  EstateRuns = {"r1", "r2"}
  EstateAccounts = {"a", "b"}
  Shas = {"s"}
  NoTrust = NoTrust
  EstateToday = 9
  NoSha = NoSha
  NoFact = NoFact
  NoFile = NoFile
  MaxEstateEdits = 1
  MaxEstateCuts = 1
  MaxAnswers = 2
  Quarters <- ModelQuarters
  YearLength = 2
  WashDays = 1
  Postings <- ModelPostings
  FirstLots <- ModelFirstLots
  Profile <- ModelProfile
  NoBasis = NoBasis
  NotAsked = NotAsked
  Refused = Refused
  Throws = Throws
  Topics = {"answers", "accounts", "wallets", "totals", "forms", "lots", "sums", "moves"}
  MaxNights <- ModelNights
  MaxOverlaps <- ModelOverlaps
  Institutions = {"bank", "broker"}
  Wallets = {1, 2}
  Addresses = {"x"}
  Totals = {300, 303}
  FedForms <- ModelForms
  FedLots <- ModelFedLots
  FedHoldings <- ModelHoldings
  Pairs <- ModelPairs
  Instants <- ModelInstants
  MaxAge = 1
  LastEvening <- ModelEvenings
  MaxDismissals = 1
  NoValue = NoValue
INVARIANT EstimateAnswers
CHECK_DEADLOCK FALSE
