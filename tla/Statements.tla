------------------------------ MODULE Statements ------------------------------
(***************************************************************************)
(* How the circuits encode what they prove.  The Poseidon2 sponge, as the  *)
(* host hash and the circuits share it; integers cut into chunks that fit  *)
(* the field, their words, and the commitments the host computes.          *)
(*                                                                         *)
(* The permutation is ideal: two chains of blocks absorbed since the label *)
(* have the same output only if they are the same chain, and a chain whose *)
(* first state is free can be made to have any output.                     *)
(***************************************************************************)
EXTENDS Integers, Sequences

CONSTANTS P,      \* the order of the field
          Rate    \* limbs in a word, and in a block

ASSUME SpongeAssumption == P \in Nat \ {0, 1} /\ Rate \in Nat \ {0}

\* KoalaBear::from_int: limbs that differ by P are the same element.
FromInt(limb) == limb % P

\* A word of u32 limbs, loaded into the field; missing limbs are zero.
Word(limbs) ==
  [digest |-> <<>>,
   limbs |-> [i \in 1..Rate |-> IF i <= Len(limbs) THEN FromInt(limbs[i]) ELSE 0]]

ZeroWord == Word(<<>>)

\* A word that is itself the output of the sponge.
DigestWord(digest) == [digest |-> digest, limbs |-> ZeroWord.limbs]

Sentinel == Word(<<1>>)

\* The padded words as blocks: a word fills one block exactly.
Expand(words) == Append(words, Sentinel)

\* The state of the permutation chain in a trace.
FreeChain == [rooted |-> FALSE, blocks |-> <<>>]
LabelChain == [rooted |-> TRUE, blocks |-> <<>>]

Absorb(chain, block) ==
  IF chain.rooted THEN [chain EXCEPT !.blocks = Append(@, block)] ELSE chain

\* poseidon_note_commitment: an output stands for the chain behind it.
NoteCommitment(words) == Expand(words)
-----------------------------------------------------------------------------
CONSTANTS K,          \* CHUNK_BITS
          N,          \* NUM_CHUNKS
          WordBits,   \* width of the program's integers
          Pow         \* the powers of two up to 2^K

(* A chunk, and every power of two on the way to it, fits the field.       *)
ASSUME ChunkAssumption == /\ K \in Nat \ {0, 1}
                          /\ N \in Nat \ {0}
                          /\ Pow \in [0..K -> Nat] /\ Pow[0] = 1
                          /\ \A k \in 0..(K - 1) : Pow[k + 1] = 2 * Pow[k]
                          /\ \A k \in 0..K : Pow[k] < P

Zones == 0..(N - 1)
Field == 0..(P - 1)
Bit == {0, 1}

\* chunks30, the highest chunk first.
Chunk(v, z) == (v \div 2 ^ (K * (N - 1 - z))) % 2 ^ K
Chunks(v) == [z \in Zones |-> Chunk(v, z)]

\* The integer that chunks stand for.
Value(chunks) ==
  LET upTo[n \in 0..N] == IF n = 0 THEN 0 ELSE 2 ^ K * upTo[n - 1] + chunks[n - 1]
  IN upTo[N]

\* x_word: the chunks of x, the lowest first.
XWord(chunks) == Word([i \in 1..N |-> chunks[N - i]])

\* salt_word: the salt, as one limb.
SaltWord(s) == Word(<<s>>)

\* range_commitment_parts and range_commitment: what the host computes.
RangeParts(chunks, s) == <<XWord(chunks), SaltWord(s)>>
RangeCommitment(chunks, s) == NoteCommitment(RangeParts(chunks, s))

\* t_word: a reading is one limb.
TWord(v) == Word(<<v>>)

\* coldchain_root: a fresh sponge for every reading, chained.
ColdchainRoot(readings) ==
  LET upTo[n \in 0..Len(readings)] ==
        IF n = 0 THEN ZeroWord
        ELSE DigestWord(NoteCommitment(<<upTo[n - 1], TWord(readings[n])>>))
  IN upTo[Len(readings)]
===============================================================================
