SPECIFICATION Spec
CONSTANTS
  Requests = {r1}
  Approvals = {a1, a2}
  Refreshes = {f1}
  Balances = {1, 3, 4}
  PutBalances = {0}
  ForceValues = {TRUE, FALSE}
  Unparseable = {3}
  Dtos <- PlainDtos
  Faults = {"crash", "tx"}
  Pairs = {p1}
  NotFiled = NotFiled
  p1 = p1
  p2 = p2
  k1 = k1
  Keys = {k1}
  NoKey = NoKey
  NoDto = NoDto
  NoRow = NoRow
  NoAttempt = NoAttempt
  NoRequest = NoRequest
  NoWriter = NoWriter
  NoUndo = NoUndo
SYMMETRY Symmetry
INVARIANTS
  TypeOK
  ApprovalLock
  ApprovedIsFiled
  DivergenceIsAudited
  AuditReplays
PROPERTIES
  DeductedOnce
  LifecycleSpec
  LedgerSpec
CHECK_DEADLOCK FALSE
