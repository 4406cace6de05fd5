SPECIFICATION Spec
CONSTANTS
  t1 = t1
  t2 = t2
  h1 = h1
  h2 = h2
  h3 = h3
  COMMA = COMMA
  COLON = COLON
  Null = Null
  Threads = {t1, t2}
  Hashes = {h1, h2, h3}
  Trees <- OneAndTwoLeaves
  MaxCalls = 3
INVARIANTS ParsesWhatWasPrinted AssertionsHold
PROPERTY ImplementsTreeParser
