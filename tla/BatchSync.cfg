SPECIFICATION FairSpec
CONSTANTS
  Syncs = {s1, s2}
  Writers = {w1}
  Refreshes = {f1}
  Batches = {b1, b2}
  Pairs = {p1, p2}
  Answers = {4}
  Days = {3}
  Lowest <- MinusOne
  Versions = {NoVersion}
  Unparseable = {1}
  Works <- AllWorks
  Rank <- TwoRanks
  Starts <- SomeBalances
  Posts <- MixedPosts
  b1 = b1
  b2 = b2
  p1 = p1
  p2 = p2
  NoWork = NoWork
  NoRow = NoRow
  NoEvent = NoEvent
  NoUndo = NoUndo
  NoBatch = NoBatch
  NoPair = NoPair
  NoVersion = NoVersion
INVARIANTS
  TypeOK
  AnswersTrue
  BatchIsAtomic
  CacheNeverLow
PROPERTIES
  FifoSpec
  BatchLands
  ReplayIsAnswered
  SyncEnds
CHECK_DEADLOCK FALSE
