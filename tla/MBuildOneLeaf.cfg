SPECIFICATION Spec
CONSTANTS
  a = a
  b = b
  c = c
  other = other
  NUL = NUL
  SPACE = SPACE
  Null = Null
  Bytes <- AllBytes
  Digest <- MCDigest
  HASH_CHARS = 1
  PAGE_LENGTH = 2
  tree_height = 3
  nb_of_threads = 4
  Files <- FilesOf4
  Tails <- NoTail
  CreateMayFail = FALSE
INVARIANT BuiltIsMerkleTree
