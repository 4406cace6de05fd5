SPECIFICATION FairSpec
CONSTANTS
  a = a
  b = b
  c = c
  other = other
  NUL = NUL
  SPACE = SPACE
  Null = Null
  Bytes <- AllBytes
  Digest <- MCDigest
  HASH_CHARS = 1
  PAGE_LENGTH = 2
  tree_height = 4
  nb_of_threads = 2
  Files <- AnyFilesOf8
  Tails <- TwoTails
  CreateMayFail = TRUE
INVARIANT ResultIsMerkleTree
PROPERTIES Ends FailedBuildEndsProcess
