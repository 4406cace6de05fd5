SPECIFICATION FairSpec
CONSTANTS
  a = a
  b = b
  c = c
  other = other
  NUL = NUL
  SPACE = SPACE
  Null = Null
  w1 = w1
  w2 = w2
  f1 = f1
  f2 = f2
  Bytes <- AllBytes
  Digest <- MCDigest
  HASH_CHARS = 1
  PAGE_LENGTH = 2
  Tails <- NoTail
  Writers = {w1, w2}
  Paths = {f1}
  OldFiles <- TwoPages
  Requests <- SpanRequests
  NbThreads = 2
  MaxCalls = 2
  PerFile = FALSE
  Supported <- EveryRequest
  NewSizes = {4}
  Removable = {f1}
  Copied = {}
  AnyValue = TRUE
  BufTails <- EarlierBytes
  Faults = {"pwrite", "getxattr", "fopen", "setxattr", "crash"}
INVARIANTS TypeOK CompareFindsChanges AttributeIsMerkleTree
PROPERTY Answered
