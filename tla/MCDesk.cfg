SPECIFICATION DeskSpec
CONSTANTS
  Targets = {t1, t2}
  SecretValues = {s, l2, l3}
  s = s
  l2 = l2
  l3 = l3
  Pieces <- ModelPieces
  Platforms = {"manager", "file", "keychain"}
  NoValue = NoValue
  Unread = Unread
  Torn = Torn
  FromEnv = FromEnv
  MaxCallUpsets = 1
  Timers = {a, b}
  CHUNK_MS = 2
  Clamp = 6
  OVERDUE_STAGGER_MS = 2
  Deadlines = {1, 3, 8}
  Horizon = 12
  MaxJumps = 1
  Subscribers = {a, b}
  bufferLimit = 2
  MaxEvents = 5
  Messages = {m1, m2, m3}
  strategist = strategist
  AgentOf <- ModelAgents
  Engines = {e1, e2}
  Runs = {r1, r2}
  MaxParks = 2
  MaxFaults = 1
  Nobody = Nobody
  Nightlies = {n1, n2, n3}
  Proposals = {p1, p2}
  Pictures = {A}
  NoPicture = NoPicture
  REARM = 1
  LastDay = 2
  MaxDeaths = 1
  People = {u, v}
  firstWindow = firstWindow
  extraWindow = extraWindow
  Windows = {firstWindow, extraWindow}
  FreshWindows = {extraWindow}
  NoOne = NoOne
  MaxLogins = 3
  MaxOnWire = 2
  Loaders = {"header", "queue", "page"}
  MaxSeq = 3
  MaxAsks = 3
  MaxFailures = 1
  FormKinds = {"profile", "providers", "plan", "key"}
  Edits = {e1, e2, e3}
  Extracted = {e3}
  MaxRequests = 3
  MaxRefusals = 1
  Shells = {s1, s2}
  MaxMishaps = 1
  Household = {u1, u2}
  NoUser = NoUser
  LastSecond = 1
  MaxSwitches = 3
  Members = {u1, u2}
  MaxRequestsIn = 2
  MaxTurns = 4
  MaxRebinds = 2
INVARIANTS DeskTypeOK SecretsWhole NobodyStranded ScreensTrue ProcessesApart
PROPERTIES TimersKeepTime AgentsAct ScreensKeep ReadsWhole
CHECK_DEADLOCK FALSE
