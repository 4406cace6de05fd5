SPECIFICATION Spec
CONSTANTS
  Names = {n1, n2}
  Hidden = {x1, x2}
  Inodes = {i1, i2}
  Handles = {h1, h2}
  Pages = {p1, p2}
  Blank = Blank
  Data = Data
  Null = Null
  Modes <- ReadWrite
  PerInode = FALSE
  MaxWrites = 4
INVARIANT TreesFollowFiles
