------------------------------- MODULE ColdChain ------------------------------
(***************************************************************************)
(* The coldchain_max circuit as the system of the traces it accepts, which *)
(* are to show that every reading behind a public root is at most the      *)
(* public limit.  A reading has a block of rows: its bits, the highest     *)
(* first, laid beside those of the limit, then four rows that chain its    *)
(* commitment to the last one.                                             *)
(* The rows of the padding come after the public root and bind nothing.    *)
(***************************************************************************)
EXTENDS Statements

CONSTANT M   \* NUM_READINGS

VARIABLES claim,      \* the faithful prover's readings and limit, or none
          place,      \* the last row laid: which reading, which row of it
          pv, tv,     \* constant in a block: last commitment, the reading
          xb, bb,     \* the bits of the reading and of the limit
          xa, ba,     \* their accumulators
          eq, lt,     \* the prefixes are equal; the reading is below
          tmax,       \* public: the limit
          chain,      \* the permutation chain
          seen,       \* the readings so far
          verdict     \* building, accepted or refused

columns == <<pv, tv, xb, bb, xa, ba, eq, lt, chain, seen>>
vars == <<claim, place, columns, tmax, verdict>>

\* The preprocessed columns.
ZB == place.row < K
ZEnd == place.row = K - 1
BEnd == place.row = K + 3
Final == BEnd /\ place.reading = M

NextPlace == IF BEnd THEN [reading |-> place.reading + 1, row |-> 0]
                     ELSE [place EXCEPT !.row = @ + 1]

\* The bit of v on a row.
BitAt(v, row) == (v \div 2 ^ (K - 1 - row)) % 2

\* Constraint 2: the row pins what is absorbed.
PinnedBlock(row, prev, value) ==
  CASE row = K + 1 -> prev
    [] row = K + 2 -> TWord(value)
    [] row = K + 3 -> Sentinel
    [] OTHER -> ZeroWord

\* Mutant: a reading at the limit does not pass.
RowHoldsStrict == /\ xb \in Bit /\ bb \in Bit /\ eq \in Bit /\ lt \in Bit
                  /\ ~ZB => xb = bb
                  /\ ZEnd => xa = tv /\ ba = tmax /\ lt = 1

\* Constraints 5, 6 and 9: on one row alone.
RowHolds == /\ xb \in Bit /\ bb \in Bit /\ eq \in Bit /\ lt \in Bit
            /\ ~ZB => xb = bb
            /\ ZEnd => xa = tv /\ ba = tmax /\ (lt + eq) % P = 1

\* build_witness: the columns that the constraints leave open.
WitnessHolds ==
  \A w \in claim :
    /\ tv = w.readings[place.reading] /\ tmax = w.tmax
    /\ xb = IF ZB THEN BitAt(w.readings[place.reading], place.row) ELSE 0
    /\ bb = IF ZB THEN BitAt(w.tmax, place.row) ELSE 0

Values == 0..(2 ^ K - 1)

\* prove_coldchain refuses a limit or a reading that is too wide, and a
\* reading above the limit.
Claims == {w \in [readings : [1..M -> Values], tmax : Values] :
             \A i \in 1..M : w.readings[i] <= w.tmax}

Init == /\ claim \in {{}} \cup {{w} : w \in Claims}
        /\ place = [reading |-> 1, row |-> 0]
        /\ pv = ZeroWord /\ tv \in Field /\ tmax \in Field
        /\ xb \in Bit /\ bb \in Bit
        /\ xa = xb /\ ba = bb
        /\ eq = 1 /\ lt = 0
        /\ chain = FreeChain
        /\ seen = <<tv>>
        /\ verdict = "building"
        /\ WitnessHolds
        /\ RowHolds

\* Mutant: the first block alone starts its own sponge.
ExtendOnce == chain' = IF place'.row = K /\ place'.reading = 1
                       THEN LabelChain
                       ELSE Absorb(chain, PinnedBlock(place'.row, pv', tv'))

\* The permutation chain: the start row of a block resets it.
Extend == chain' = IF place'.row = K
                   THEN LabelChain
                   ELSE Absorb(chain, PinnedBlock(place'.row, pv', tv'))

\* Constraints 3 and 4: in a block pv and tv stay; the next block has the
\* output of this one and a reading of its own.
Carry == /\ tv' \in IF BEnd THEN Field ELSE {tv}
         /\ pv' = IF BEnd THEN DigestWord(chain.blocks) ELSE pv

\* Constraint 7: double and add, from the bit itself at the start.
Accumulate(acc, b) ==
  CASE place'.row = 0 -> b
    [] place'.row \in 1..(K - 1) -> (2 * acc + b) % P
    [] OTHER -> 0

\* Constraint 8: compare from the start of a block.
Compare == IF place'.row = 0
           THEN eq' = 1 /\ lt' = 0
           ELSE /\ eq' = IF xb' = bb' THEN eq ELSE 0
                /\ lt' = lt + eq * bb' * (1 - xb')

LayRow == /\ verdict = "building"
          /\ ~Final
          /\ place' = NextPlace
          /\ xb' \in Bit /\ bb' \in Bit
          /\ Carry
          /\ Extend
          /\ xa' = Accumulate(xa, xb') /\ ba' = Accumulate(ba, bb')
          /\ Compare
          /\ seen' = IF BEnd THEN Append(seen, tv') ELSE seen
          /\ UNCHANGED <<claim, tmax, verdict>>
          /\ WitnessHolds'
          /\ RowHolds'

\* verify_coldchain: a whole trace within the constraints.
Accept == /\ verdict = "building"
          /\ Final
          /\ verdict' = "accepted"
          /\ UNCHANGED <<claim, place, columns, tmax>>

\* No row satisfies the constraints.
Refuse == /\ verdict = "building"
          /\ ~ENABLED (LayRow \/ Accept)
          /\ verdict' = "refused"
          /\ UNCHANGED <<claim, place, columns, tmax>>

Next == LayRow \/ Accept \/ Refuse

Spec == Init /\ [][Next]_vars

-------------------------------------------------------------------------------

TopBit(v) == BitAt(v, 0)

\* What the comparison reads of a value: all but the bit of the first row.
Compared(v) == v % 2 ^ (K - 1)

(* coldchain.rs: an accepted proof has the root of its readings, and each  *)
(* reading is at most the limit, the highest bit of both left out.         *)
ReadingsAreBounded ==
  verdict = "accepted" =>
    /\ chain.rooted /\ DigestWord(chain.blocks) = ColdchainRoot(seen)
    /\ \A i \in 1..M : Compared(seen[i]) <= Compared(tmax)

(* coldchain.rs: readings the prover takes are refused only where the      *)
(* highest bit of one differs from that of the limit, and accepted for the *)
(* root that the host computes.                                            *)
ReadingsAreProvable ==
  \A w \in claim :
    /\ verdict = "refused" => \E i \in 1..M : TopBit(w.readings[i]) # TopBit(w.tmax)
    /\ verdict = "accepted" => DigestWord(chain.blocks) = ColdchainRoot(w.readings)

===============================================================================
