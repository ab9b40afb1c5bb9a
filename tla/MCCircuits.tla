------------------------------ MODULE MCCircuits ------------------------------
(***************************************************************************)
(* Small instances of the three circuits, of the dispatcher and of the     *)
(* hidden notes, side by side: a behavior is one of them, and the columns  *)
(* that two circuits have in common are the same variables.                *)
(***************************************************************************)
EXTENDS RangeCheck, HiddenNotes

CONSTANTS ColdK, ColdP, M, Words, MaxParts, MaxHeight, NoteWords, Limbs, Laps

VARIABLES part,
          place, pv, tv, coldEq, coldLt, tmax, seen,
          parts, faithful, height, row,
          bundles, answer

MCPow == [k \in 0..K |-> 2 ^ k]
MCWords == {<<1, 2>>, <<6, 0>>}
MCLimbs == {<<1>>, <<6>>}
\* The hash of an x coordinate, once below the order and twice above it.
MCKeccak == [x \in 0..2 |-> <<3, 6, 8>>[x + 1]]
MCWallets == {[view |-> v, spend |-> s] : v \in {1, 3}, s \in {2, 4}}

Note == INSTANCE NoteOpening
Cold == INSTANCE ColdChain WITH K <- ColdK, P <- ColdP, eq <- coldEq, lt <- coldLt
Dispatch == INSTANCE ProofDispatcher

\* What the proofs about the notes assume, for this instance.
ASSUME NotesHold == NotesAssumption

rangeOnly == <<zone, bit, c, eq, lt, xc, salt, bound, lowx, lowb>>
common == <<claim, xb, bb, xa, ba>>
coldOnly == <<place, pv, tv, coldEq, coldLt, tmax, seen>>
noteOnly == <<parts, faithful, height, row>>
dispatchOnly == <<bundles, answer>>

NoRange == /\ zone = N /\ bit = 0 /\ c = 0 /\ eq = 1 /\ lt = 0 /\ xc = 0 /\ salt = 0
           /\ bound = 0 /\ lowx = 0 /\ lowb = 0
NoCommon == claim = {} /\ xb = 0 /\ bb = 0 /\ xa = 0 /\ ba = 0
NoCold == /\ place = 0 /\ pv = 0 /\ tv = 0 /\ coldEq = 0 /\ coldLt = 0 /\ tmax = 0
          /\ seen = 0
NoNote == parts = 0 /\ faithful = FALSE /\ height = 0 /\ row = 0
NoDispatch == bundles = {} /\ answer = "none"
NoNotes == notes = {} /\ spent = {} /\ ciphers = {}

InitRange == part = "range" /\ Init /\ NoCold /\ NoNote /\ NoDispatch /\ NoNotes
InitCold == /\ part = "cold" /\ Cold!Init /\ t = 0
            /\ NoRange /\ NoNote /\ NoDispatch /\ NoNotes
InitNote == /\ part = "note" /\ Note!Init
            /\ NoRange /\ NoCommon /\ NoCold /\ NoDispatch /\ NoNotes
InitDispatch == /\ part = "dispatch" /\ Dispatch!Init
                /\ t = 0 /\ chain = FreeChain /\ verdict = "none"
                /\ NoRange /\ NoCommon /\ NoCold /\ NoNote /\ NoNotes
InitNotes == /\ part = "notes" /\ HiddenInit
             /\ t = 0 /\ chain = FreeChain /\ verdict = "none"
             /\ NoRange /\ NoCommon /\ NoCold /\ NoNote /\ NoDispatch

RangeStep == /\ part = "range" /\ Next
             /\ UNCHANGED <<part, coldOnly, noteOnly, dispatchOnly, hidden>>
ColdStep == /\ part = "cold" /\ Cold!Next
            /\ UNCHANGED <<part, rangeOnly, t, noteOnly, dispatchOnly, hidden>>
NoteStep == /\ part = "note" /\ Note!Next
            /\ UNCHANGED <<part, rangeOnly, common, coldOnly, dispatchOnly, hidden>>
DispatchStep == /\ part = "dispatch" /\ Dispatch!Next
                /\ UNCHANGED <<part, rangeOnly, common, t, chain, verdict, coldOnly, noteOnly,
                               hidden>>
NotesStep == /\ part = "notes" /\ HiddenNext
             /\ UNCHANGED <<part, vars, coldOnly, noteOnly, dispatchOnly>>

CircuitsInit == InitRange \/ InitCold \/ InitNote \/ InitDispatch \/ InitNotes
CircuitsNext == RangeStep \/ ColdStep \/ NoteStep \/ DispatchStep \/ NotesStep
everything == <<part, vars, coldOnly, noteOnly, dispatchOnly, hidden>>
CircuitsSpec == CircuitsInit /\ [][CircuitsNext]_everything

(* The invariants of each circuit, in the behaviors that are its own.      *)

(* What an accepted proof has established, and no more: a range proof that  *)
(* the integer it commits to is at most the bound, and a cold chain proof   *)
(* that the readings of its root are at most the limit, each without its    *)
(* highest bit, which neither circuit compares; a note proof that what it   *)
(* opens is known; and a proof is issued for the words that were sent only. *)
ProofsAreSound ==
  /\ part = "range" => RangeIsSound
  /\ part = "cold" => Cold!ReadingsAreBounded
  /\ part = "note" => Note!OpeningIsKnown
  /\ Dispatch!IssuedAsAsked

(* What a prover takes is accepted, a cold chain that compares in the       *)
(* highest bit apart.                                                       *)
ClaimsAreProvable ==
  /\ part = "range" => RangeIsProvable
  /\ part = "cold" => Cold!ReadingsAreProvable
  /\ part = "note" => Note!OpeningIsProvable
===============================================================================
