CONSTANTS
  Clients <- MCClients
  Ceiling <- MCCeiling
  MaxAttempts = 2
  Statuses = {"redirect", "beyond", "quota", "limited"}
  Bills = {"observed", "vast"}
  Copies = 2
  MaxCalls <- MCMaxCalls
  MaxEvents = 2
  Threads = {1, 2, 3}
  Backends = {b1, b2}
  Keys = {k1, k2}
  Flights = {1, 2, 3}
  Allowance = 1
  Responses = 2
  Calls = 1
  None = None
SPECIFICATION MCSpec
INVARIANT BooksAgree
INVARIANT RetriesEarned
INVARIANT ReadableUnlessForeign
INVARIANT OneLeader
INVARIANT MissIsFresh
INVARIANT Overshoot
PROPERTY EveryoneReturns
CHECK_DEADLOCK FALSE
