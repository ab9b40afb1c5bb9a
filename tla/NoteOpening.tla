----------------------------- MODULE NoteOpening ------------------------------
(***************************************************************************)
(* The note_opening circuit as the system of the traces it accepts: a      *)
(* prover lays the rows of a trace one by one, each within the             *)
(* constraints, and the trace of the highest row is judged.  A faithful    *)
(* prover follows build_witness; any other chooses freely.                 *)
(***************************************************************************)
EXTENDS Statements

CONSTANTS Words,       \* the words a note is opened into
          MaxParts,    \* bound: words handed to the prover
          MaxHeight    \* 2^MAX_LOG_HEIGHT

VARIABLES parts,      \* the faithful prover's input
          faithful,   \* whether the prover is the one of the code
          height,     \* rows of the trace
          row,        \* how many rows are laid
          t,          \* the flag of the last one: 0 padding, 1 real
          chain,      \* the permutation chain after it
          verdict     \* building, accepted or refused

vars == <<parts, faithful, height, row, t, chain, verdict>>

Powers == {h \in 1..MaxHeight : \E k \in 0..h : h = 2 ^ k}

\* next_power_of_two, or none when it is above the cap.
Heights(rows) == {h \in Powers : h >= rows /\ \A g \in Powers : g >= rows => h <= g}

RealRows == Len(Expand(parts)) + 1
Pad == height - RealRows

\* build_witness: the flag and the block of a row.
WitnessT(r) == IF r >= Pad THEN 1 ELSE 0
WitnessBlock(r) ==
  IF r > Pad THEN Expand([i \in DOMAIN parts |-> Word(parts[i])])[r - Pad] ELSE ZeroWord

\* Mutant: no padding row is reserved.
HeightUnpadded == Heights(RealRows)

\* At least one padding row, then the next power of two.
WitnessHeight == Heights(RealRows + 1)

\* build_witness refuses no parts and too many.
Begin == /\ faithful \in BOOLEAN
         /\ parts \in UNION {[1..n -> Words] : n \in 0..MaxParts}
         /\ IF faithful
            THEN IF parts = <<>> \/ WitnessHeight = {}
                 THEN height = 0 /\ verdict = "rejected"
                 ELSE height \in WitnessHeight /\ verdict = "building"
            ELSE parts = <<>> /\ height \in Powers /\ verdict = "building"

\* Nothing is laid yet.
Init == Begin /\ row = 0 /\ t = 0 /\ chain = FreeChain

\* Mutant: the first row may be real already.
LayAnyFirstRow ==
  /\ verdict = "building"
  /\ row = 0 /\ row' = 1
  /\ t' \in {0, 1}
  /\ faithful => t' = WitnessT(0)
  /\ UNCHANGED <<parts, faithful, height, chain, verdict>>

\* The first row is padding; its input, and so the chain, is free.
LayFirstRow ==
  /\ verdict = "building"
  /\ row = 0 /\ row' = 1
  /\ t' = 0
  /\ faithful => t' = WitnessT(0)
  /\ UNCHANGED <<parts, faithful, height, chain, verdict>>

\* The permutation chain: the start row resets it, the others absorb a block.
Extend(entering, block) == IF entering THEN LabelChain ELSE Absorb(chain, block)

\* A row after another: t stays boolean and never falls.
LayRow ==
  /\ verdict = "building"
  /\ row \in 1..(height - 1) /\ row' = row + 1
  /\ \E block \in {ZeroWord, Sentinel} \cup {Word(w) : w \in Words} :
        /\ t' \in {0, 1}
        /\ t <= t'
        /\ faithful => t' = WitnessT(row) /\ block = WitnessBlock(row)
        /\ chain' = Extend(t' - t = 1, block)
  /\ UNCHANGED <<parts, faithful, height, verdict>>

\* The last row is real; its output is the public commitment.
Accept ==
  /\ verdict = "building"
  /\ row = height /\ t = 1
  /\ verdict' = "accepted"
  /\ UNCHANGED <<parts, faithful, height, row, t, chain>>

\* No row satisfies the constraints.
Refuse ==
  /\ verdict = "building"
  /\ ~ENABLED (LayFirstRow \/ LayRow \/ Accept)
  /\ verdict' = "refused"
  /\ UNCHANGED <<parts, faithful, height, row, t, chain>>

Next == LayFirstRow \/ LayRow \/ Accept \/ Refuse

Spec == Init /\ [][Next]_vars

-------------------------------------------------------------------------------

(* note_opening.rs: an accepted proof knows a chain of blocks that starts  *)
(* at the label and ends in the public commitment, and the prover of the   *)
(* code is accepted for exactly the commitment the host computes.          *)
OpeningIsKnown ==
  verdict = "accepted" => /\ chain.rooted
                          /\ faithful => chain.blocks = NoteCommitment([i \in DOMAIN parts |-> Word(parts[i])])

(* note_opening.rs: a note the prover takes is never refused.              *)
OpeningIsProvable == faithful => verdict # "refused"
===============================================================================
