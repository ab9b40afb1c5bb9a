---------------------------- MODULE ProofDispatcher ---------------------------
(***************************************************************************)
(* The prover port: requests are routed by circuit and version, decoded,   *)
(* handed to the prover of that circuit, and the public inputs of the      *)
(* proof compared with those of the request.  Proofs are ideal: one holds  *)
(* the public inputs its circuit was given, and is sound if a trace within *)
(* the constraints of RangeCheck, ColdChain or NoteOpening exists.         *)
(***************************************************************************)
EXTENDS Statements

CONSTANTS NoteWords,   \* words of a note
          Limbs,       \* the words a client sends
          Salts,
          Laps         \* bound: how often P is added to a public limb

VARIABLES bundles,   \* the proofs issued
          answer     \* the last answer: issued, invalid, true or false

vars == <<bundles, answer>>

Versions == [note_opening |-> 1, range_check |-> 2, coldchain_max |-> 1]

\* Chunks as they come in a request: one may be too wide.
WideChunks == [Zones -> 0..2 ^ K]

\* The u64 shifts of the dispatcher drop what does not fit.
Truncated(v) == v % 2 ^ WordBits

\* Mutant: the public inputs are counted, not compared.
PublicsCounted(given, proved) == Len(given.ints) = Len(proved.ints)

\* check_publics: the public inputs asked for are those of the proof.
CheckPublics(given, proved) == given = proved

Bundle(id, publics, sound, asked, holds) ==
  [id |-> id, version |-> Versions[id], publics |-> publics, sound |-> sound,
   asked |-> asked, holds |-> holds]

Issue(bundle) == bundles' = bundles \cup {bundle} /\ answer' = "issued"
Invalid == bundles' = bundles /\ answer' = "invalid"

\* note_opening: a fixed number of words and the commitment to them.
ProveNote(version, words, digest) ==
  LET parts == [i \in DOMAIN words |-> Word(words[i])]
      given == [ints |-> <<>>, digest |-> digest]
      proved == [ints |-> <<>>, digest |-> NoteCommitment(parts)]
  IN IF /\ version = Versions.note_opening
        /\ Len(words) = NoteWords
        /\ CheckPublics(given, proved)
     THEN Issue(Bundle("note_opening", proved, TRUE, NoteCommitment(parts), TRUE))
     ELSE Invalid

\* range_check: chunks within their width make up x and the bound.
ProveRange(version, xs, salt, bs, digest) ==
  LET x == Truncated(Value(xs))
      b == Truncated(Value(bs))
      given == [ints |-> [i \in 1..N |-> bs[i - 1]], digest |-> digest]
      proved == [ints |-> [i \in 1..N |-> Chunk(b, i - 1)],
                 digest |-> RangeCommitment(Chunks(x), salt)]
  IN IF /\ version = Versions.range_check
        /\ \A z \in Zones : xs[z] < 2 ^ K /\ bs[z] < 2 ^ K
        /\ x <= b
        /\ CheckPublics(given, proved)
     THEN Issue(Bundle("range_check", proved, TRUE, RangeCommitment(xs, salt),
                       Value(xs) <= Value(bs)))
     ELSE Invalid

\* The comparison of the circuit leaves out the highest bit.
Low(v) == v % 2 ^ (K - 1)

\* coldchain_max: readings and limit within their width.
ProveColdchain(version, readings, tmax, digest) ==
  LET given == [ints |-> <<tmax>>, digest |-> digest]
      proved == [ints |-> <<tmax>>, digest |-> ColdchainRoot(readings).digest]
      all == DOMAIN readings
  IN IF /\ version = Versions.coldchain_max
        /\ tmax < 2 ^ K
        /\ \A i \in all : readings[i] < 2 ^ K /\ readings[i] <= tmax
        /\ CheckPublics(given, proved)
     THEN Issue(Bundle("coldchain_max", proved, \A i \in all : Low(readings[i]) <= Low(tmax),
                       ColdchainRoot(readings).digest, \A i \in all : readings[i] <= tmax))
     ELSE Invalid

\* The verifier of a circuit takes sound proofs of its own for these inputs.
Verifies(bundle, id, version, publics) ==
  /\ bundle.id = id /\ bundle.version = version
  /\ bundle.sound
  /\ bundle.publics = publics

\* verify: the limbs are loaded into the field, whatever laps they carry.
Verify(id, version, bundle, laps) ==
  LET raw == [i \in DOMAIN bundle.publics.ints |-> bundle.publics.ints[i] + laps * P]
      loaded == [bundle.publics EXCEPT !.ints = [i \in DOMAIN raw |-> FromInt(raw[i])]]
  IN /\ answer' = IF version # Versions[id] THEN "invalid"
                  ELSE IF Verifies(bundle, id, version, loaded) THEN "true" ELSE "false"
     /\ UNCHANGED bundles

Init == bundles = {} /\ answer = "none"

\* Bound: one proof at a time is issued.
Free == bundles = {}

NoteRequest ==
  \E version \in {1, 2}, words \in UNION {[1..n -> Limbs] : n \in 1..(NoteWords + 1)},
     limbs \in Limbs :
    ProveNote(version, words, NoteCommitment([i \in 1..NoteWords |-> Word(limbs)]))

\* The client commits to the chunks as it sends them.
RangeRequest ==
  \E version \in {1, 2}, xs, bs \in WideChunks, salt \in Salts :
    ProveRange(version, xs, salt, bs, RangeCommitment(xs, salt))

ColdchainRequest ==
  \E version \in {1, 2}, readings \in [1..2 -> 0..2 ^ K], tmax \in 0..2 ^ K :
    ProveColdchain(version, readings, tmax, ColdchainRoot(readings).digest)

VerifyRequest ==
  \E id \in DOMAIN Versions, version \in {1, 2}, bundle \in bundles, laps \in Laps :
    Verify(id, version, bundle, laps)

Next == \/ Free /\ (NoteRequest \/ RangeRequest \/ ColdchainRequest)
        \/ VerifyRequest

Spec == Init /\ [][Next]_vars

-------------------------------------------------------------------------------

(* dispatcher.rs: a proof is issued only for the words of the request, as  *)
(* they were sent, and only if the statement is true of them.              *)
IssuedAsAsked == \A b \in bundles : b.publics.digest = b.asked /\ b.holds
===============================================================================
