\* The three MCP servers, bad cases, accounts, the client tab, the rate limiter and billing, one at a time.
SPECIFICATION ServicesSpec
CONSTANTS
  w1 = w1
  w2 = w2
  w3 = w3
  oneProcess = oneProcess
  otherProcess = otherProcess
  q1 = q1
  q2 = q2
  city = city
  r1 = r1
  r2 = r2
  r3 = r3
  ta = ta
  tb = tb
  ann = ann
  WriteCalls = {w1, w2, w3}
  Processes = {oneProcess, otherProcess}
  ServedBy <- ServedByProcess
  Paths = {note}
  Outside = Outside
  NewNote = NewNote
  NoFile = NoFile
  Old = Old
  MapCalls = {m1, m2, m3}
  MinInterval = 2
  MapTimeout = 3
  Queries = {q1, q2}
  Cities = {city}
  CityOf <- SameCity
  WeatherProcesses = {oneProcess, otherProcess}
  TTL = 2
  MaxAttempts = 2
  GatewayAttempts = 2
  WeatherTimeout = 2
  FirstPause = 1
  LongestPause = 1
  Turns = {t1, t2, e1}
  EvalCases = {e1}
  CaseIds = {1, 2, 3}
  Retention = 1
  NoCase = NoCase
  Clients = {ann, bob}
  Emails = {mail}
  Passwords = {secret, guess}
  MaxConversations = 2
  Nobody = Nobody
  Threads = {v1, v2}
  MaxPosts = 3
  StreamsBreak = TRUE
  Users = {ann, bob}
  Capacity = 8
  Price = 3
  Refill = 2
  MaxTime = 5
  ChatRequests = {r1, r2, r3}
  Conversations = {ta, tb}
  Payers = {ann}
  ThreadOf <- Spread
  UserOf <- AnnsConversations
  Limit = 2
  Reports = {TRUE}
  MaxInvokes = 2
  MaxPerThread = 1
  MaxClock = 1
CHECK_DEADLOCK FALSE
INVARIANTS
  ServicesTypeOK
  ReportsMatchDisk
  RetriesAreBounded
  FailureIsOnRecord
  ConversationsStayPrivate
  PatientUserIsSerial
  DecisionsReachTheirAsker
  WindowBound
  RefusalIsNeeded
  FinishedTurnsPay
  TurnsPayOnlyTheirOwn
  RefusalIsEarned
  OvershootIsBounded
PROPERTIES
  OverwritesAreAskedFor
  AnsweredRequestsAreSpaced
