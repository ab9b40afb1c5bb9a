----------------------------- MODULE HiddenNotes -----------------------------
(***************************************************************************)
(* What the shielded transfer writes and what its receiver makes of it:    *)
(* the handler derives a one-time address, makes a note for it and a       *)
(* cipher for the regulator; the receiver scans the table with the view    *)
(* key, and what the row holds is the old note of the next transfer. One   *)
(* transfer at a time, after its approval.                                 *)
(*                                                                         *)
(* The keys are those of a group of prime order: the point s*G is the      *)
(* scalar s, and zero is the point at infinity, which no key and no        *)
(* encoding stands for.                                                    *)
(***************************************************************************)
EXTENDS Integers, FiniteSets

CONSTANTS
  Order,       \* the order of the group, an odd prime
  Keccak,      \* x coordinate -> its hash, which may be the order or above
  Wallets,     \* [view, spend]: private keys
  Regulators,  \* private view keys of regulators
  Assets,      \* subjects
  Amounts,     \* amounts that requests name
  Secrets,     \* random secrets
  AmountBits,  \* width of the integers: 64
  LimbModulus, \* the field: KoalaBear
  MaxNotes     \* bound: rows of the table

VARIABLES
  notes,    \* notes table, and the wallet of the receiver as history
  spent,    \* nullifiers table
  ciphers   \* shielded_txs: extra, and what it was made from as history

hidden == <<notes, spent, ciphers>>

-----------------------------------------------------------------------------
(* Keys, one-time addresses and the cipher.                                *)

Scalars == 1 .. Order - 1

Times(point, s) == (point * s) % Order
Opposite(point) == (Order - point) % Order
Pub(s) == Times(1, s)

\* A point and its opposite have one x coordinate.
XOf(point) == IF point <= Opposite(point) THEN point ELSE Opposite(point)

\* The compressed encoding: the prefix tells the two apart. Other prefixes are
\* refused when the bytes are read, and no point has another x coordinate.
Compress(point) == [prefix |-> IF point = XOf(point) THEN 2 ELSE 3, x |-> XOf(point)]
IsPoint(bytes) == bytes.prefix \in {2, 3}
Decompress(bytes) == IF bytes.prefix = 2 THEN bytes.x ELSE Opposite(bytes.x)
-----------------------------------------------------------------------------
\* The hash of the shared point's x coordinate, reduced to a scalar.
Shift(shared) == Keccak[XOf(shared)] % Order

\* Mutant: the address is derived from the view key.
DeriveFromView(r, meta) ==
  LET addr == (Decompress(meta.view) + Shift(Times(Decompress(meta.view), r))) % Order
  IN  IF r = 0 \/ addr = 0 THEN {}
      ELSE {[addr |-> Compress(addr), ephemeral |-> Compress(Pub(r))]}

\* derive_one_time_with_r: nothing when a point degenerates.
DeriveOneTime(r, meta) ==
  LET addr == (Decompress(meta.spend) + Shift(Times(Decompress(meta.view), r))) % Order
  IN  IF r = 0 \/ addr = 0 THEN {}
      ELSE {[addr |-> Compress(addr), ephemeral |-> Compress(Pub(r))]}

\* scan_and_unlock: the hash and the point of a hit.
ScanAndUnlock(viewPriv, ot, spendPub) ==
  LET shared == Times(Decompress(ot.ephemeral), viewPriv)
      point == (spendPub + Shift(shared)) % Order
  IN  IF point # 0 /\ Compress(point) = ot.addr
      THEN {[t |-> Keccak[XOf(shared)], point |-> point]}
      ELSE {}

\* unlock_spend_key: the hash is reduced again.
UnlockSpendKey(spendPriv, info) == (spendPriv + info.t) % Order
-----------------------------------------------------------------------------
\* ecdh_x and derive_key: a key depends on the x coordinate only.
DeriveKey(s, peer) == <<"vg-ecies-key", XOf(Times(peer, s))>>

\* Mutant: nothing is authenticated besides the text.
NoAad(ephemeral) == 0

\* The data a cipher authenticates: its first segment.
Aad(ephemeral) == ephemeral

\* The sealed text of AES-256-GCM opens under its key, nonce and data only.
Seal(key, nonce, aad, msg) == [key |-> key, nonce |-> nonce, aad |-> aad, msg |-> msg]
Opens(box, key, nonce, aad) == box.key = key /\ box.nonce = nonce /\ box.aad = aad

\* encrypt_to: ephemeral key, nonce, sealed text.
EncryptTo(peer, k, nonce, msg) ==
  LET ephemeral == Compress(Pub(k)) IN
  [ephemeral |-> ephemeral, nonce |-> nonce,
   box |-> Seal(DeriveKey(k, peer), nonce, Aad(ephemeral), msg)]

\* decrypt_with: the text, or nothing.
DecryptWith(s, cipher) ==
  IF /\ IsPoint(cipher.ephemeral)
     /\ Opens(cipher.box, DeriveKey(s, Decompress(cipher.ephemeral)), cipher.nonce,
              Aad(cipher.ephemeral))
  THEN {cipher.box.msg} ELSE {}
-----------------------------------------------------------------------------
(* Notes and their rows.                                                   *)

\* What is asked of the parameters: the order is a prime, a hash is a number,
\* keys and drawn secrets are not zero, and amounts fit their width.
NotesAssumption ==
  /\ Order \in Nat /\ Order >= 3
  /\ \A a, b \in Scalars : (a * b) % Order # 0
  /\ \A p \in 0 .. Order - 1 : Keccak[XOf(p)] \in Nat
  /\ Wallets \subseteq [view : Scalars, spend : Scalars] /\ Regulators \subseteq Scalars
  /\ Secrets \subseteq Nat \ {0}
  /\ {2 ^ AmountBits, 2 ^ (AmountBits - 1)} \subseteq Nat
  /\ Amounts \subseteq 0 .. 2 ^ AmountBits - 1

\* u64 as i64, as the column stores it.
Signed(n) == IF n < 2 ^ (AmountBits - 1) THEN n ELSE n - 2 ^ AmountBits

\* Note::new refuses no amount and no secret.
IsNote(note) == note.amount > 0 /\ note.secret # 0

\* commitment_parts, and the limbs the hash loads them into: a limb is reduced.
CommitmentParts(note) == <<"vg:note:v1", note.asset, note.owner, note.amount, note.secret>>
Commitment(note) == [CommitmentParts(note) EXCEPT ![5] = @ % LimbModulus]

\* Keccak of the secret and the context, both of which it determines.
Nullifier(note) == <<note.secret, "vg:shield:v1">>

Meta(wallet) == [view |-> Compress(Pub(wallet.view)), spend |-> Compress(Pub(wallet.spend))]

\* addr_digest determines the point.
NoteFor(ot, asset, amount, secret) ==
  [asset |-> asset, owner |-> ot.addr, amount |-> amount, secret |-> secret]

Row(ot, note, wallet) ==
  [commitment |-> Commitment(note), asset |-> note.asset, owner |-> note.owner,
   amount |-> Signed(note.amount), ot |-> ot, secret |-> note.secret, wallet |-> wallet]

\* The first note of an asset, which is there when the system is set up.
HiddenInit ==
  /\ \E w \in Wallets, r \in Scalars, asset \in Assets, amount \in Amounts, secret \in Secrets :
       \E ot \in DeriveOneTime(r, Meta(w)) :
         LET note == NoteFor(ot, asset, amount, secret) IN
         /\ IsNote(note) /\ Signed(amount) > 0
         /\ notes = {Row(ot, note, w)}
  /\ spent = {} /\ ciphers = {}
-----------------------------------------------------------------------------
\* The old note as its holder writes it down from a row.
OldNote(row, amount) ==
  [asset |-> row.asset, owner |-> row.owner, amount |-> amount, secret |-> row.secret]

\* The old note is on record with this amount and this asset.
OnRecord(old) ==
  \E row \in notes : /\ row.commitment = Commitment(old)
                     /\ row.amount = Signed(old.amount)
                     /\ row.asset = old.asset
Accepts(old) ==
  /\ IsNote(old) /\ OnRecord(old)
  /\ Nullifier(old) \notin spent

\* generate_note_secret: 32 random bytes that nobody drew before.
FreshSecrets == {s \in Secrets : \A row \in notes : row.secret # s}

\* The cipher tells the regulator who, to whom and what.
Disclosed(old, wallet) == [asset |-> old.asset, to |-> wallet]

\* Notes, nullifiers and shielded_txs, with their keys and the CHECK of the
\* amount; the transaction fails with any of them.
WriteRows(old, row, cipher, regulator, disclosed) ==
  /\ row.amount > 0
  /\ \A other \in notes : other.commitment # row.commitment
  /\ notes' = notes \cup {row}
  /\ spent' = spent \cup {Nullifier(old)}
  /\ ciphers' = ciphers \cup
       {[extra |-> cipher, for |-> regulator, disclosed |-> disclosed]}

\* The new note has the amount of the old one. The nonce of the cipher is as
\* fresh as its ephemeral key.
Transfer(old, wallet, regulator, r, k) ==
  /\ Cardinality(notes) < MaxNotes
  /\ Accepts(old)
  /\ \E ot \in DeriveOneTime(r, Meta(wallet)), secret \in FreshSecrets :
       LET note == NoteFor(ot, old.asset, old.amount, secret) IN
       WriteRows(old, Row(ot, note, wallet),
                 EncryptTo(Pub(regulator), k, k, Disclosed(old, wallet)),
                 regulator, Disclosed(old, wallet))

HiddenNext ==
  \E row \in notes, amount \in Amounts, wallet \in Wallets, regulator \in Regulators,
     r \in Scalars, k \in Scalars : Transfer(OldNote(row, amount), wallet, regulator, r, k)

HiddenSpec == HiddenInit /\ [][HiddenNext]_hidden
-----------------------------------------------------------------------------
\* scan_notes: the rows that the view key and the spend key hit, or an error
\* when a row is malformed.
ScanNotes(viewPriv, spendPub) ==
  {row \in notes : ScanAndUnlock(viewPriv, row.ot, spendPub) # {}}
ScanFails == \E row \in notes : ~IsPoint(row.ot.addr) \/ ~IsPoint(row.ot.ephemeral)

\* The receiver of a note finds it with the two keys, whatever else is in the
\* table, and what the row says is then enough to spend it: the unlocked key is
\* that of the address, and the old note written down from the row is accepted
\* by the next transfer until it is spent.
ReceivedCanBeSpent ==
  /\ ~ScanFails
  /\ \A row \in notes :
       /\ row \in ScanNotes(row.wallet.view, Pub(row.wallet.spend))
       /\ \A w \in Wallets : \A info \in ScanAndUnlock(w.view, row.ot, Pub(w.spend)) :
            /\ UnlockSpendKey(w.spend, info) # 0
            /\ Pub(UnlockSpendKey(w.spend, info)) = Decompress(row.ot.addr)
       /\ LET old == OldNote(row, row.amount)
          IN  Nullifier(old) \in spent \/ Accepts(old)

\* A cipher with the sign of its ephemeral key flipped, or another nonce.
Altered(cipher) ==
  {[cipher EXCEPT !.ephemeral.prefix = 5 - @], [cipher EXCEPT !.nonce = @ + 1]}

\* The regulator whose key a transfer names reads what it discloses; another
\* key, but for the opposite of that one, and an altered cipher read nothing.
ExtraIsForRegulator ==
  \A c \in ciphers :
    /\ DecryptWith(c.for, c.extra) = {c.disclosed}
    /\ \A s \in Scalars \ {c.for, Opposite(c.for)} : DecryptWith(s, c.extra) = {}
    /\ \A altered \in Altered(c.extra) : DecryptWith(c.for, altered) = {}
=============================================================================
