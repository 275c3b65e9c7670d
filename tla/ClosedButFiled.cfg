SPECIFICATION Spec
CONSTANTS
  Requests = {r1}
  Approvals = {a1}
  Refreshes = {}
  Balances = {1}
  PutBalances = {}
  ForceValues = {FALSE}
  Unparseable = {}
  Dtos <- OneDay
  Faults = {}
  Pairs = {p1}
  NotFiled = NotFiled
  p1 = p1
  p2 = p2
  k1 = k1
  Keys = {k1}
  NoKey = NoKey
  NoDto = NoDto
  NoRow = NoRow
  NoAttempt = NoAttempt
  NoRequest = NoRequest
  NoWriter = NoWriter
  NoUndo = NoUndo
INVARIANTS
  ClosedIsNotFiled
CHECK_DEADLOCK FALSE
