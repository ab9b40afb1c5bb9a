------------------------------ MODULE RangeCheck ------------------------------
(***************************************************************************)
(* The range_check circuit as the system of the traces it accepts, which   *)
(* are to show that x, of which only a commitment is public, is at most    *)
(* the public bound.  Both are cut into Zones chunks of K bits and laid    *)
(* bit by bit, the highest first, beside the permutation chain that        *)
(* commits to the chunks of x.                                             *)
(* Columns are field elements; two integers, read off the bits after the   *)
(* first one, are kept only to state what the comparison columns mean.     *)
(***************************************************************************)
EXTENDS Statements

CONSTANTS Trailer,    \* rows after the bits: padding, then the real rows
          Salts,      \* salts, as u32 limbs
          Spare       \* bound: values of cells that no constraint reads

ASSUME TrailerAssumption == /\ Trailer \in Nat /\ Trailer >= 4
                            /\ Bit \subseteq Spare /\ Spare \subseteq Field

VARIABLES claim,      \* the faithful prover's x, bound and salt, or none
          zone, bit,  \* the last row laid: bit of zone, or a row of the tail
          t, c,       \* flag and block counter of the permutation chain
          xb, bb,     \* the bits of x and of the bound
          xa, ba,     \* the accumulators, one per zone
          eq, lt,     \* the prefixes are equal; x is below the bound
          xc, salt,   \* the chunks of x and the salt, constant columns
          bound,      \* public: the chunks of the bound
          chain,      \* the permutation chain
          lowx, lowb, \* the bits so far after the first, as integers
          verdict     \* building, accepted or refused

columns == <<t, c, xb, bb, xa, ba, eq, lt, chain, lowx, lowb>>
constant == <<claim, xc, salt, bound>>
vars == <<zone, bit, columns, constant, verdict>>

\* Mutant: the lowest bit of a chunk comes first.
BitAtReversed(v, z, k) == (Chunk(v, z) \div 2 ^ k) % 2

\* The bit of v that a row carries.
BitAt(v, z, k) == (Chunk(v, z) \div 2 ^ (K - 1 - k)) % 2

\* The preprocessed columns: rows in the bit zones, the last row of one.
InBits == zone < N
ZoneEnds == zone < N /\ bit = K - 1
LastRow == zone = N /\ bit = Trailer - 1

RowsOf(z) == IF z < N THEN K ELSE Trailer

\* Mutant: the block of x is left to the prover.
PinnedBlockFree(counter) ==
  CASE counter = 1 -> XWord([z \in Zones |-> 0])
    [] counter = 2 -> SaltWord(salt)
    [] counter = 3 -> Sentinel
    [] OTHER -> ZeroWord

\* Constraint 6: the counter pins what a row absorbs.
PinnedBlock(counter) ==
  CASE counter = 1 -> XWord(xc)
    [] counter = 2 -> SaltWord(salt)
    [] counter = 3 -> Sentinel
    [] OTHER -> ZeroWord

\* Constraint 10b: after the bit zones the two bits are equal.
BitsMatch == InBits \/ xb = bb

\* Constraint 12: the accumulators are the chunks, and the comparison ends.
Binding == /\ ZoneEnds => xa[zone] = xc[zone] /\ ba[zone] = bound[zone]
           /\ ZoneEnds /\ zone = N - 1 => (lt + eq) % P = 1

\* Constraints on one row alone.
RowHolds == /\ t \in Bit /\ c \in 0..3 /\ xb \in Bit /\ bb \in Bit
            /\ eq \in Bit /\ lt \in Bit
            /\ t = 0 => c = 0
            /\ BitsMatch
            /\ Binding
            /\ LastRow => t = 1 /\ c = 3

\* build_witness: the bits and the flag of a row, and the constant columns.
WitnessHolds ==
  claim # {} =>
    \A w \in claim :
      /\ xc = Chunks(w.x) /\ bound = Chunks(w.bound) /\ salt = FromInt(w.salt)
      /\ xb = IF zone < N THEN BitAt(w.x, zone, bit) ELSE 0
      /\ bb = IF zone < N THEN BitAt(w.bound, zone, bit) ELSE 0
      /\ t = IF zone = N /\ bit >= Trailer - 4 THEN 1 ELSE 0

Integers == 0..(2 ^ WordBits - 1)

\* prove_range_check refuses an x above the bound.
Claims == {w \in [x : Integers, bound : Integers, salt : Salts] : w.x <= w.bound}

\* Constraints 2 and 8 on the first row: padding, and equal so far.
FirstRow == t = 0 /\ eq = 1 /\ lt = 0

Init == /\ claim \in {{}} \cup {{w} : w \in Claims}
        /\ zone = 0 /\ bit = 0
        /\ xc \in [Zones -> Field] /\ bound \in [Zones -> Field]
        /\ salt \in {FromInt(s) : s \in Salts}
        /\ xb \in Bit /\ bb \in Bit
        /\ t \in Bit /\ c = 0 /\ eq \in Bit /\ lt \in Bit
        /\ FirstRow
        /\ xa \in [Zones -> Spare] /\ xa[0] = xb
        /\ ba \in [Zones -> Spare] /\ ba[0] = bb
        /\ chain = FreeChain
        /\ lowx = 0 /\ lowb = 0
        /\ verdict = "building"
        /\ WitnessHolds
        /\ RowHolds

\* The row after this one.
Advance == IF bit + 1 < RowsOf(zone) THEN zone' = zone /\ bit' = bit + 1
                                     ELSE zone' = zone + 1 /\ bit' = 0

\* Constraint 9: double and add in the zone of the new row, zero elsewhere.
Accumulate(acc, b) ==
  [z \in Zones |-> IF z = zone' THEN (2 * acc[z] + b) % P ELSE 0]

\* Mutant: every difference is a win for the bound.
CompareLoose == /\ eq' = IF xb' = bb' THEN eq ELSE 0
                /\ lt' = lt + eq * (IF xb' = bb' THEN 0 ELSE 1)

\* Constraint 10: the comparison goes on over the new bits.
Compare == /\ eq' = IF xb' = bb' THEN eq ELSE 0
           /\ lt' = lt + eq * bb' * (1 - xb')

\* Constraints 2 to 5: the start row resets the chain and the counter, a
\* real row counts and absorbs the pinned block.
Chain == /\ t' \in Bit /\ t <= t'
         /\ c' \in 0..3
         /\ t' - t = 1 => c' = 0
         /\ t = 1 => c' = c + 1
         /\ chain' = IF t' - t = 1 THEN LabelChain ELSE Absorb(chain, PinnedBlock(c'))

LayRow ==
  /\ verdict = "building"
  /\ ~LastRow
  /\ Advance
  /\ xb' \in Bit /\ bb' \in Bit
  /\ xa' = Accumulate(xa, xb') /\ ba' = Accumulate(ba, bb')
  /\ Compare
  /\ Chain
  /\ lowx' = IF zone' < N THEN 2 * lowx + xb' ELSE lowx
  /\ lowb' = IF zone' < N THEN 2 * lowb + bb' ELSE lowb
  /\ UNCHANGED <<constant, verdict>>
  /\ WitnessHolds'
  /\ RowHolds'

\* verify_range_check: a whole trace within the constraints.
Accept == /\ verdict = "building"
          /\ LastRow
          /\ verdict' = "accepted"
          /\ UNCHANGED <<zone, bit, columns, constant>>

\* No row satisfies the constraints.
Refuse == /\ verdict = "building"
          /\ ~ENABLED (LayRow \/ Accept)
          /\ verdict' = "refused"
          /\ UNCHANGED <<zone, bit, columns, constant>>

Next == LayRow \/ Accept \/ Refuse

Spec == Init /\ [][Next]_vars

-------------------------------------------------------------------------------

\* What is left of an integer of Zones chunks without its highest bit: the
\* first row fixes eq and lt and not its two bits, and the comparison starts
\* on the second row.
Compared(v) == v % 2 ^ (K * N - 1)

(* range_check.rs: no accumulator wraps around the field.                  *)
NoWrap == zone < N => xa[zone] < Pow[bit + 1] /\ ba[zone] < Pow[bit + 1]

(* range_check.rs: over the bits after the first, eq says that x and the   *)
(* bound are equal so far, lt that x is below.                             *)
ComparisonIsOrder == (eq = 1 <=> lowx = lowb) /\ (lt = 1 <=> lowx < lowb)

(* range_check.rs: an accepted proof commits to chunks of an integer that  *)
(* is at most the public bound, the highest bit of each left out: those    *)
(* two may be any, and the integer above the bound.                        *)
RangeIsSound ==
  verdict = "accepted" =>
    /\ chain.rooted /\ chain.blocks = RangeCommitment(xc, salt)
    /\ \A z \in Zones : xc[z] < 2 ^ K /\ bound[z] < 2 ^ K
    /\ Compared(Value(xc)) <= Compared(Value(bound))

(* range_check.rs: a claim the prover takes is never refused, and proves   *)
(* the commitment that the host computes.                                  *)
RangeIsProvable ==
  \A w \in claim : /\ verdict # "refused"
                   /\ verdict = "accepted" => chain.blocks = RangeCommitment(Chunks(w.x), w.salt)
===============================================================================
