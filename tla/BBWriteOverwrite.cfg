SPECIFICATION Spec
CONSTANTS
  a = a
  b = b
  c = c
  other = other
  NUL = NUL
  SPACE = SPACE
  Null = Null
  w1 = w1
  w2 = w2
  f1 = f1
  f2 = f2
  Bytes <- AllBytes
  Digest <- MCDigest
  HASH_CHARS = 1
  PAGE_LENGTH = 3
  Tails <- NoTail
  Writers = {w1}
  Paths = {f1}
  OldFiles <- OtherFile
  Requests <- PageBeginning
  NbThreads = 8
  MaxCalls = 1
  PerFile = TRUE
  Supported <- EveryRequest
  NewSizes = {}
  Removable = {}
  Copied = {}
  AnyValue = FALSE
  BufTails <- NoTail
  Faults = {}
INVARIANT AttributeDescribesFile
