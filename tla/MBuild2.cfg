SPECIFICATION FairSpec
CONSTANTS
  a = a
  b = b
  c = c
  other = other
  NUL = NUL
  SPACE = SPACE
  Null = Null
  Bytes <- AllBytes
  Digest <- MCDigest
  HASH_CHARS = 1
  PAGE_LENGTH = 2
  tree_height = 4
  nb_of_threads = 2
  Files <- FilesOf8
  Tails <- NoTail
  CreateMayFail = FALSE
INVARIANTS TypeOK RaceFree WaitsForEveryThread ChildrenReady BuiltIsMerkleTree
PROPERTIES HashedOnce Returns ImplementsTreeOfFile
