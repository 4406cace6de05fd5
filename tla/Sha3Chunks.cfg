SPECIFICATION Spec
CONSTANTS
  WORD = 3
  SPONGE_WORDS = 3
  capacityWords = 1
  keccakf <- MCKeccakf
  Messages <- MCMessages
  MaxLen = 15
INVARIANTS IndicesInRange CallsDoNotMatter DigestIsSponge
