-------------------------------- MODULE Sha3 --------------------------------
(***************************************************************************)
(* sha3.c as an incremental hash: Init256, any number of calls of Update   *)
(* that together pass the message, Finalize.  Words of the message are     *)
(* added to the sponge as they fill up, across the calls; bytes that do    *)
(* not fill a word wait in saved.                                          *)
(*                                                                         *)
(* A byte is the set of its bits.  A word is a set, too: <<n>> is its bit  *)
(* n, and keccakf, about which nothing is assumed, may put anything else   *)
(* into it.  So |= of bits that are not set is a union, and ^= is the      *)
(* symmetric difference.                                                   *)
(***************************************************************************)
EXTENDS Integers, Sequences

CONSTANTS
  WORD,             \* sizeof(uint64_t): 8
  SPONGE_WORDS,     \* SHA3_KECCAK_SPONGE_WORDS: 25
  capacityWords,    \* 8 for 256 bits
  keccakf(_),       \* the permutation of the sponge
  Messages          \* what is hashed

RATE == SPONGE_WORDS - capacityWords

ASSUME SpongeAssumption ==
  /\ WORD \in Nat \ {0} /\ SPONGE_WORDS \in Nat /\ capacityWords \in Nat
  /\ RATE > 0
  /\ \A m \in Messages : m \in Seq(SUBSET (0..7))

VARIABLES
  saved, s, byteIndex, wordIndex,    \* the context
  message,    \* all that the caller is going to pass
  pos,        \* how much of it has been taken from the buffers
  end,        \* where the buffer of the current call ends
  pc          \* "idle" between calls, "words" in the loop of Update, "final" when done

ctx  == <<saved, s, byteIndex, wordIndex>>
vars == <<saved, s, byteIndex, wordIndex, message, pos, end, pc>>

Xor(v, w) == (v \ w) \cup (w \ v)

\* The n bytes of m behind the first k, as bits of a word from byte number i on.
Bits(m, k, n, i) == UNION {{<<8 * (i + x) + b>> : b \in m[k + x + 1]} : x \in 0..n - 1}

Zero == [w \in 0..SPONGE_WORDS - 1 |-> {}]

Init ==
  /\ saved = {} /\ s = Zero /\ byteIndex = 0 /\ wordIndex = 0
  /\ message \in Messages /\ pos = 0 /\ end = 0 /\ pc = "idle"

\* sha3_Init256 for another message; memset also forgets what was left unfinished.
Init256 ==
  /\ pc # "words"
  /\ saved' = {} /\ s' = Zero /\ byteIndex' = 0 /\ wordIndex' = 0
  /\ message' \in Messages /\ pos' = 0 /\ end' = 0 /\ pc' = "idle"

old_tail == (WORD - byteIndex) % WORD

\* A complete word goes into the sponge.
AddWord(t) ==
  LET sum == [s EXCEPT ![wordIndex] = Xor(@, t)]
  IN  IF wordIndex + 1 = RATE
      THEN s' = keccakf(sum) /\ wordIndex' = 0
      ELSE s' = sum /\ wordIndex' = wordIndex + 1

\* A slip: a buffer that completes the word is kept like a shorter one.
UpdateShortOrFull(len) ==
  /\ pc = "idle" /\ len <= old_tail /\ pos + len <= Len(message)
  /\ saved' = saved \cup Bits(message, pos, len, byteIndex)
  /\ byteIndex' = byteIndex + len
  /\ pos' = pos + len /\ end' = pos + len
  /\ UNCHANGED <<s, wordIndex, message, pc>>

\* sha3_Update with a buffer that does not complete the word.
UpdateShort(len) ==
  /\ pc = "idle" /\ len < old_tail /\ pos + len <= Len(message)
  /\ saved' = saved \cup Bits(message, pos, len, byteIndex)
  /\ byteIndex' = byteIndex + len
  /\ pos' = pos + len /\ end' = pos + len
  /\ UNCHANGED <<s, wordIndex, message, pc>>

\* A slip: the bytes of the completed word stay in saved.
UpdateKeepsSaved(len) ==
  /\ pc = "idle" /\ len >= old_tail /\ pos + len <= Len(message)
  /\ IF old_tail > 0
     THEN /\ AddWord(saved \cup Bits(message, pos, old_tail, byteIndex))
          /\ saved' = saved /\ byteIndex' = 0
     ELSE UNCHANGED ctx
  /\ pos' = pos + old_tail /\ end' = pos + len
  /\ pc' = "words"
  /\ UNCHANGED message

\* sha3_Update with any other one, up to the loop: the word that has been begun.
Update(len) ==
  /\ pc = "idle" /\ len >= old_tail /\ pos + len <= Len(message)
  /\ IF old_tail > 0
     THEN /\ AddWord(saved \cup Bits(message, pos, old_tail, byteIndex))
          /\ saved' = {} /\ byteIndex' = 0
     ELSE UNCHANGED ctx
  /\ pos' = pos + old_tail /\ end' = pos + len
  /\ pc' = "words"
  /\ UNCHANGED message

\* An iteration of the loop, on a word of the buffer.
UpdateWord ==
  /\ pc = "words" /\ end - pos >= WORD
  /\ AddWord(Bits(message, pos, WORD, 0))
  /\ pos' = pos + WORD
  /\ UNCHANGED <<saved, byteIndex, message, end, pc>>

\* What is left of the buffer waits in saved.
UpdateTail ==
  /\ pc = "words" /\ end - pos < WORD
  /\ saved' = saved \cup Bits(message, pos, end - pos, byteIndex)
  /\ byteIndex' = byteIndex + (end - pos)
  /\ pos' = end
  /\ pc' = "idle"
  /\ UNCHANGED <<s, wordIndex, message, end>>

\* A slip: the padding ends in the word it begins in.
FinalizeOneWord ==
  /\ pc = "idle" /\ pos = Len(message)
  /\ LET pad == Xor(saved, {<<8 * byteIndex + 1>>, <<8 * byteIndex + 2>>})
     IN  s' = keccakf([s EXCEPT ![wordIndex] = Xor(Xor(@, pad), {<<8 * WORD - 1>>})])
  /\ pc' = "final"
  /\ UNCHANGED <<saved, byteIndex, wordIndex, message, pos, end>>

\* sha3_Finalize: the suffix 01 and the first bit of the padding behind the message,
\* the last bit at the end of the block; the digest is the first bytes of s.
Finalize ==
  /\ pc = "idle" /\ pos = Len(message)
  /\ LET pad    == Xor(saved, {<<8 * byteIndex + 1>>, <<8 * byteIndex + 2>>})
         padded == [s EXCEPT ![wordIndex] = Xor(@, pad)]
     IN  s' = keccakf([padded EXCEPT ![RATE - 1] = Xor(@, {<<8 * WORD - 1>>})])
  /\ pc' = "final"
  /\ UNCHANGED <<saved, byteIndex, wordIndex, message, pos, end>>

Next ==
  \/ Init256
  \/ \E len \in 0..Len(message) : UpdateShort(len) \/ Update(len)
  \/ UpdateWord \/ UpdateTail \/ Finalize

Spec == Init /\ [][Next]_vars

(***************************************************************************)
(* Properties.                                                             *)
(***************************************************************************)

\* Block b of m is added to the first RATE words of the state, and the state is permuted.
AddBlock(state, m, b) ==
  keccakf([w \in DOMAIN Zero |->
             IF w < RATE THEN Xor(state[w], Bits(m, (b * RATE + w) * WORD, WORD, 0))
                         ELSE state[w]])

\* The sponge after the first n words of m, given by its definition: the message is cut
\* into blocks of RATE words.
Absorbed(m, n) ==
  LET absorbed[b \in Nat] == IF b = 0 THEN Zero ELSE AddBlock(absorbed[b - 1], m, b - 1)
      full == n \div RATE
  IN  [w \in DOMAIN Zero |->
         IF w < n % RATE THEN Xor(absorbed[full][w], Bits(m, (full * RATE + w) * WORD, WORD, 0))
                         ELSE absorbed[full][w]]

\* m, the suffix, and the padding up to the end of the block.
Padded(m) ==
  LET block == RATE * WORD
      size  == block * (Len(m) \div block + 1)
  IN  [x \in 1..size |->
         IF x <= Len(m) THEN m[x]
         ELSE (IF x = Len(m) + 1 THEN {1, 2} ELSE {}) \cup (IF x = size THEN {7} ELSE {})]

Sponge(m) == Absorbed(Padded(m), Len(Padded(m)) \div WORD)

\* What the assertions of sha3_Update say of the indices: the shifts stay in the word, and
\* the words of the message in the first words of the sponge.
IndicesInRange ==
  /\ byteIndex \in 0..WORD - 1 /\ wordIndex \in 0..RATE - 1
  /\ pos <= end /\ end <= Len(message)
  /\ pc = "words" => byteIndex = 0 /\ saved = {}

\* Between two calls the context only depends on the bytes that have been passed, and not
\* on how the caller has cut them into buffers.
CallsDoNotMatter ==
  pc = "idle" =>
    LET words == pos \div WORD
    IN  /\ pos = end
        /\ byteIndex = pos % WORD /\ wordIndex = words % RATE
        /\ saved = Bits(message, words * WORD, byteIndex, 0)
        /\ s = Absorbed(message, words)

\* "Single-buffer hashing" and "IUF hashing" (README) give the same hash: the sponge
\* function with the padding of SHA-3, also where the first and the last bit of
\* the padding are in one word, or in one byte.
DigestIsSponge == pc = "final" => s = Sponge(message)
=============================================================================
