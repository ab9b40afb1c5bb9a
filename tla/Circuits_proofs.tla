---------------------------- MODULE Circuits_proofs ----------------------------
(***************************************************************************)
(* Proofs about the circuits and about the notes they are made for.        *)
(*                                                                         *)
(* What the bit columns of range_check mean, for every field, chunk width  *)
(* and number of chunks: no accumulator wraps around the field, and the    *)
(* comparison columns say how the bits after the first one compare.        *)
(*                                                                         *)
(* What a shielded transfer writes, for every prime order, hash and        *)
(* wallets: its receiver finds the note and can spend it, and only the     *)
(* regulator it names reads the cipher.                                    *)
(***************************************************************************)
EXTENDS RangeCheck, HiddenNotes, TLAPS

(* A value below P is its own remainder.                                   *)
LEMMA SmallRemainder ==
  ASSUME NEW p \in Nat \ {0}, NEW a \in Nat, a < p
  PROVE  a % p = a
  BY SMT

(* The sizes, and the powers of two, as the provers like them.             *)
LEMMA Sizes == /\ K \in Nat /\ K >= 2 /\ N \in Nat /\ N >= 1
               /\ Trailer \in Nat /\ Trailer >= 4
               /\ P \in Nat /\ P >= 2
  BY ChunkAssumption, TrailerAssumption, SpongeAssumption, SMT

LEMMA Powers == /\ Pow[0] = 1 /\ Pow[1] = 2
                /\ \A k \in 0..K : Pow[k] \in Nat /\ Pow[k] < P
                /\ \A k \in 0..(K - 1) : Pow[k + 1] = 2 * Pow[k]
<1>1. Pow[0] = 1 /\ \A k \in 0..K : Pow[k] \in Nat /\ Pow[k] < P
  BY ChunkAssumption
<1>2. \A k \in 0..(K - 1) : Pow[k + 1] = 2 * Pow[k]
  BY ChunkAssumption
<1>3. Pow[1] = 2
  BY <1>1, <1>2, Sizes, SMT
<1> QED
  BY <1>1, <1>2, <1>3

(* The rows, the accumulators and the flags have their types; away from    *)
(* the first row, only the accumulator of the current zone is not zero.    *)
TypeInv == /\ zone \in 0..N /\ bit \in Nat /\ bit < RowsOf(zone)
           /\ xb \in Bit /\ bb \in Bit
           /\ xa \in [Zones -> Nat] /\ ba \in [Zones -> Nat]

OthersAreZero ==
  zone # 0 \/ bit # 0 => \A z \in Zones : z # zone => xa[z] = 0 /\ ba[z] = 0

AccumulatorInv == TypeInv /\ OthersAreZero /\ NoWrap

(* The initial row has one bit in the accumulators of zone 0.              *)
LEMMA AccumulatorsInit == Init => AccumulatorInv
<1> SUFFICES ASSUME Init PROVE AccumulatorInv
  OBVIOUS
<1>1. /\ zone = 0 /\ bit = 0 /\ xb \in Bit /\ bb \in Bit
      /\ xa \in [Zones -> Spare] /\ xa[0] = xb
      /\ ba \in [Zones -> Spare] /\ ba[0] = bb
  BY DEF Init
<1>2. Spare \subseteq Nat
  BY TrailerAssumption, SpongeAssumption, SMT DEF Field
<1>3. TypeInv
  <2>1. zone \in 0..N /\ bit \in Nat /\ bit < RowsOf(zone)
    BY <1>1, Sizes, SMT DEF RowsOf
  <2>2. xa \in [Zones -> Nat] /\ ba \in [Zones -> Nat]
    BY <1>1, <1>2
  <2> QED
    BY <1>1, <2>1, <2>2 DEF TypeInv
<1>4. Pow[1] = 2
  BY Powers
<1>5. NoWrap
  BY <1>1, <1>4, SMT DEF NoWrap, Bit
<1> QED
  BY <1>1, <1>3, <1>5 DEF AccumulatorInv, OthersAreZero

(* The place of a new row.                                                 *)
LEMMA AdvanceStep ==
  ASSUME zone \in 0..N, bit \in Nat, bit < RowsOf(zone), Advance, ~LastRow
  PROVE  zone' \in 0..N /\ bit' \in Nat /\ bit' < RowsOf(zone')
  BY Sizes, SMT DEF Advance, RowsOf, LastRow

(* One accumulator, over a step to a new row.                              *)
LEMMA AccumulateStep ==
  ASSUME AccumulatorInv, Advance, ~LastRow,
         NEW acc \in [Zones -> Nat], NEW b \in Bit,
         zone < N => acc[zone] < Pow[bit + 1],
         zone # 0 \/ bit # 0 => \A z \in Zones : z # zone => acc[z] = 0
  PROVE  /\ Accumulate(acc, b) \in [Zones -> Nat]
         /\ zone' < N => Accumulate(acc, b)[zone'] < Pow[bit' + 1]
         /\ \A z \in Zones : z # zone' => Accumulate(acc, b)[z] = 0
<1>1. zone' \in 0..N /\ bit' \in Nat /\ bit' < RowsOf(zone')
  BY AdvanceStep DEF AccumulatorInv, TypeInv
<1>2. ASSUME zone' < N
      PROVE  2 * acc[zone'] + b \in Nat /\ 2 * acc[zone'] + b < Pow[bit' + 1]
  <2>1. Pow[0] = 1 /\ Pow[1] = 2
    BY Powers
  <2>2. CASE zone' = zone /\ bit' = bit + 1
    <3>1. zone \in Zones /\ acc[zone] \in Nat /\ acc[zone] < Pow[bit + 1]
      BY <2>2, <1>2, Sizes, SMT DEF Zones, AccumulatorInv, TypeInv
    <3>2. bit + 1 \in 0..(K - 1)
      BY <2>2, <1>1, <1>2, Sizes, SMT DEF RowsOf, AccumulatorInv, TypeInv
    <3>3. Pow[bit + 1 + 1] = 2 * Pow[bit + 1] /\ Pow[bit + 1] \in Nat
      BY <3>2, Powers, Sizes, SMT
    <3> QED
      BY <2>2, <3>1, <3>3, SMT DEF Bit
  <2>3. CASE zone' = zone + 1 /\ bit' = 0
    <3>1. zone' \in Zones /\ zone' # zone
      BY <2>3, <1>1, <1>2, Sizes, SMT DEF Zones, AccumulatorInv, TypeInv
    <3>2. zone # 0 \/ bit # 0
      BY <2>3, <1>2, Sizes, SMT DEF Advance, RowsOf, AccumulatorInv, TypeInv
    <3>3. acc[zone'] = 0
      BY <3>1, <3>2
    <3> QED
      BY <2>1, <2>3, <3>3, SMT DEF Bit
  <2> QED
    BY <2>2, <2>3 DEF Advance
<1>3. ASSUME zone' < N
      PROVE  Pow[bit' + 1] < P
  BY <1>1, <1>3, Powers, Sizes, SMT DEF RowsOf
<1>4. ASSUME zone' < N
      PROVE  (2 * acc[zone'] + b) % P = 2 * acc[zone'] + b
  <2>1. bit' + 1 \in 0..K
    <3>1. bit' \in Nat /\ bit' < K
      BY <1>1, <1>4 DEF RowsOf
    <3>2. \A v \in Nat : v < K => v + 1 \in 0..K
      BY Sizes, SMT
    <3> QED
      BY <3>1, <3>2
  <2>2. P \in Nat \ {0} /\ Pow[bit' + 1] \in Nat
    BY <2>1, Powers, SpongeAssumption
  <2>3. 2 * acc[zone'] + b \in Nat /\ 2 * acc[zone'] + b < P
    BY <1>2, <1>3, <1>4, <2>2, SMT
  <2> QED
    BY <2>2, <2>3, SmallRemainder
<1>5. zone' < N => Accumulate(acc, b)[zone'] = 2 * acc[zone'] + b
  BY <1>1, <1>4, Sizes, SMT DEF Accumulate, Zones
<1>6. \A z \in Zones : z # zone' => Accumulate(acc, b)[z] = 0
  BY DEF Accumulate
<1>7. ASSUME NEW z \in Zones
      PROVE  Accumulate(acc, b)[z] \in Nat
  <2>1. CASE z = zone'
    BY <2>1, <1>2, <1>5, <1>7, Sizes, SMT DEF Zones
  <2>2. CASE z # zone'
    BY <2>2, <1>6
  <2> QED
    BY <2>1, <2>2
<1>8. Accumulate(acc, b) \in [Zones -> Nat]
  BY <1>7 DEF Accumulate
<1> QED
  BY <1>2, <1>5, <1>6, <1>8

(* A step lays a row, or leaves the columns alone.                         *)
LEMMA AccumulatorsNext == AccumulatorInv /\ [Next]_vars => AccumulatorInv'
<1> SUFFICES ASSUME AccumulatorInv, [Next]_vars PROVE AccumulatorInv'
  OBVIOUS
<1>1. CASE LayRow
  <2>1. /\ Advance /\ ~LastRow /\ xb' \in Bit /\ bb' \in Bit
        /\ xa' = Accumulate(xa, xb') /\ ba' = Accumulate(ba, bb')
    BY <1>1 DEF LayRow
  <2>2. /\ xa' \in [Zones -> Nat]
        /\ zone' < N => xa'[zone'] < Pow[bit' + 1]
        /\ \A z \in Zones : z # zone' => xa'[z] = 0
    BY <2>1, AccumulateStep DEF AccumulatorInv, TypeInv, OthersAreZero, NoWrap
  <2>3. /\ ba' \in [Zones -> Nat]
        /\ zone' < N => ba'[zone'] < Pow[bit' + 1]
        /\ \A z \in Zones : z # zone' => ba'[z] = 0
    BY <2>1, AccumulateStep DEF AccumulatorInv, TypeInv, OthersAreZero, NoWrap
  <2>4. zone' \in 0..N /\ bit' \in Nat /\ bit' < RowsOf(zone')
    BY <2>1, AdvanceStep DEF AccumulatorInv, TypeInv
  <2>5. TypeInv'
    BY <2>1, <2>2, <2>3, <2>4 DEF TypeInv, RowsOf
  <2>6. NoWrap'
    BY <2>2, <2>3 DEF NoWrap
  <2>7. OthersAreZero'
    BY <2>2, <2>3 DEF OthersAreZero
  <2> QED
    BY <2>5, <2>6, <2>7 DEF AccumulatorInv
<1>2. CASE UNCHANGED <<zone, bit, xb, bb, xa, ba>>
  BY <1>2 DEF AccumulatorInv, TypeInv, OthersAreZero, NoWrap, RowsOf
<1>3. CASE Accept
  BY <1>2, <1>3 DEF Accept, columns
<1>4. CASE Refuse
  BY <1>2, <1>4 DEF Refuse, columns
<1>5. CASE UNCHANGED vars
  BY <1>2, <1>5 DEF vars, columns
<1> QED
  BY <1>1, <1>3, <1>4, <1>5 DEF Next

(* range_check.rs: no accumulator wraps around the field.                  *)
THEOREM NeverWraps == Spec => []NoWrap
<1>1. AccumulatorInv => NoWrap
  BY DEF AccumulatorInv
<1> QED
  BY <1>1, AccumulatorsInit, AccumulatorsNext, PTL DEF Spec

-------------------------------------------------------------------------------

(* The comparison columns, their bits and the integers they stand for.     *)
OrderInv == /\ xb \in Bit /\ bb \in Bit /\ eq \in Bit /\ lt \in Bit
            /\ lowx \in Nat /\ lowb \in Nat
            /\ zone \in 0..N /\ bit \in Nat /\ bit < RowsOf(zone)
            /\ zone = N => xb = bb
            /\ ComparisonIsOrder

LEMMA OrderInit == Init => OrderInv
  BY Sizes, SMT DEF Init, FirstRow, OrderInv, ComparisonIsOrder, Bit, RowsOf

(* A new bit decides the comparison only where the prefixes are equal.     *)
LEMMA OrderNext == OrderInv /\ [Next]_vars => OrderInv'
<1> SUFFICES ASSUME OrderInv, [Next]_vars PROVE OrderInv'
  OBVIOUS
<1>1. CASE LayRow
  <2>1. xb' \in Bit /\ bb' \in Bit /\ eq' \in Bit /\ lt' \in Bit /\ BitsMatch'
    BY <1>1 DEF LayRow, RowHolds
  <2>2. zone' \in 0..N /\ bit' \in Nat /\ bit' < RowsOf(zone')
    BY <1>1, AdvanceStep DEF LayRow, OrderInv
  <2>3. /\ eq' = (IF xb' = bb' THEN eq ELSE 0)
        /\ lt' = lt + eq * bb' * (1 - xb')
        /\ lowx' = (IF zone' < N THEN 2 * lowx + xb' ELSE lowx)
        /\ lowb' = (IF zone' < N THEN 2 * lowb + bb' ELSE lowb)
    BY <1>1 DEF LayRow, Compare
  <2>4. lowx' \in Nat /\ lowb' \in Nat
    <3>1. lowx \in Nat /\ lowb \in Nat /\ xb' \in Nat /\ bb' \in Nat
      BY <2>1, SMT DEF OrderInv, Bit
    <3>2. /\ lowx' = 2 * lowx + xb' \/ lowx' = lowx
          /\ lowb' = 2 * lowb + bb' \/ lowb' = lowb
      BY <2>3
    <3> QED
      BY <3>1, <3>2, SMT
  <2>5. zone' = N => xb' = bb'
    BY <2>1, <2>2, Sizes, SMT DEF BitsMatch, InBits
  <2>6. ComparisonIsOrder'
    <3>1. /\ eq = 0 \/ eq = 1
          /\ lt = 0 \/ lt = 1
          /\ xb' = 0 \/ xb' = 1
          /\ bb' = 0 \/ bb' = 1
      BY <2>1 DEF OrderInv, Bit
    <3>2. (eq = 1 <=> lowx = lowb) /\ (lt = 1 <=> lowx < lowb) /\ lowx \in Nat /\ lowb \in Nat
      BY DEF OrderInv, ComparisonIsOrder
    <3>3. CASE zone' < N
      <4>1. (eq' = 1 <=> lowx' = lowb')
        BY <2>3, <3>1, <3>2, <3>3, SMT
      <4>2. lt' = 1 <=> lowx' < lowb'
        BY <2>3, <3>1, <3>2, <3>3, SMT
      <4> QED
        BY <4>1, <4>2 DEF ComparisonIsOrder
    <3>4. CASE ~(zone' < N)
      <4>1. xb' = bb'
        BY <2>2, <2>5, <3>4, Sizes, SMT
      <4>2. eq' = eq /\ lt' = lt /\ lowx' = lowx /\ lowb' = lowb
        BY <2>3, <3>1, <3>4, <4>1, SMT
      <4> QED
        BY <3>2, <4>2 DEF ComparisonIsOrder
    <3> QED
      BY <3>3, <3>4
  <2> QED
    BY <2>1, <2>2, <2>4, <2>5, <2>6 DEF OrderInv, RowsOf
<1>2. CASE UNCHANGED <<zone, bit, xb, bb, eq, lt, lowx, lowb>>
  BY <1>2 DEF OrderInv, ComparisonIsOrder, RowsOf
<1>3. CASE Accept
  BY <1>2, <1>3 DEF Accept, columns
<1>4. CASE Refuse
  BY <1>2, <1>4 DEF Refuse, columns
<1>5. CASE UNCHANGED vars
  BY <1>2, <1>5 DEF vars, columns
<1> QED
  BY <1>1, <1>3, <1>4, <1>5 DEF Next

(* range_check.rs: eq and lt say how the bits after the first compare.     *)
THEOREM ComparesInOrder == Spec => []ComparisonIsOrder
<1>1. OrderInv => ComparisonIsOrder
  BY DEF OrderInv
<1> QED
  BY <1>1, OrderInit, OrderNext, PTL DEF Spec

-----------------------------------------------------------------------------
(* Remainders.                                                             *)

\* A remainder is the only one.
LEMMA RemainderIsUnique ==
  ASSUME NEW n \in Nat \ {0}, NEW k \in Int, NEW r \in 0 .. n - 1
  PROVE  (n * k + r) % n = r
PROOF
  <1> DEFINE x == n * k + r
             q == x \div n
             m == x % n
  <1>1. x \in Int
    OBVIOUS
  <1>2. q \in Int /\ m \in 0 .. n - 1 /\ x = n * q + m
    BY <1>1
  <1> HIDE DEF q, m
  <1>3. n * k + r = n * q + m /\ n * k \in Int /\ n * q \in Int
    BY <1>2
  <1>4. CASE q = k
    BY <1>4, <1>3, <1>2 DEF m
  <1>5. CASE q > k
    <2>1. n * q >= n * (k + 1)
      BY <1>2, <1>5
    <2>2. n * (k + 1) = n * k + n
      OBVIOUS
    <2> QED BY <2>1, <2>2, <1>2, <1>3
  <1>6. CASE q < k
    <2>1. n * k >= n * (q + 1)
      BY <1>2, <1>6
    <2>2. n * (q + 1) = n * q + n
      BY <1>2
    <2> QED BY <2>1, <2>2, <1>2, <1>3
  <1> QED BY <1>4, <1>5, <1>6, <1>2

LEMMA Divided ==
  ASSUME NEW n \in Nat \ {0}, NEW a \in Nat
  PROVE  /\ a = n * (a \div n) + (a % n)
         /\ a \div n \in Int /\ a % n \in 0 .. n - 1
         /\ a < n => a % n = a
  OBVIOUS

\* Reducing a summand first changes nothing.
LEMMA ReducedSummand ==
  ASSUME NEW n \in Nat \ {0}, NEW a \in Nat, NEW b \in Nat
  PROVE  (a + (b % n)) % n = (a + b) % n
PROOF
  <1> DEFINE q == b \div n
             m == b % n
             p == (a + m) \div n
             r == (a + m) % n
  <1>1. q \in Int /\ m \in 0 .. n - 1 /\ b = n * q + m
    BY Divided
  <1>2. a + m \in Nat
    BY <1>1
  <1> HIDE DEF q, m
  <1>3. p \in Int /\ r \in 0 .. n - 1 /\ a + m = n * p + r
    BY <1>2, Divided
  <1> HIDE DEF p, r
  <1>4. n * (p + q) = n * p + n * q /\ n * p \in Int /\ n * q \in Int /\ p + q \in Int
    BY <1>1, <1>3
  <1>5. a + b = n * (p + q) + r
    BY <1>1, <1>3, <1>4
  <1>6. (a + b) % n = r
    BY <1>3, <1>4, <1>5, RemainderIsUnique
  <1> QED BY <1>6 DEF r, m

\* Numbers with one remainder differ by a multiple.
LEMMA DifferenceIsMultiple ==
  ASSUME NEW n \in Nat \ {0}, NEW a \in Nat, NEW b \in Nat, NEW d \in Nat,
         a % n = b % n, a = b + d
  PROVE  d % n = 0
PROOF
  <1> DEFINE p == a \div n
             q == b \div n
             m == b % n
  <1>1. p \in Int /\ q \in Int /\ m \in 0 .. n - 1 /\ a = n * p + m /\ b = n * q + m
    BY Divided
  <1> HIDE DEF p, q, m
  <1>2. n * (p - q) = n * p - n * q /\ n * p \in Int /\ n * q \in Int /\ p - q \in Int
    BY <1>1
  <1>3. d = n * (p - q) + 0
    BY <1>1, <1>2
  <1> QED BY <1>2, <1>3, RemainderIsUnique

\* Numbers whose remainders are opposite add up to a multiple.
LEMMA SumIsMultiple ==
  ASSUME NEW n \in Nat \ {0}, NEW a \in Nat, NEW b \in Nat, (a % n) + (b % n) = n
  PROVE  (a + b) % n = 0
PROOF
  <1> DEFINE p == a \div n
             q == b \div n
             m == a % n
             o == b % n
  <1>1. p \in Int /\ q \in Int /\ m \in Int /\ o \in Int /\ a = n * p + m /\ b = n * q + o
    BY Divided
  <1>2. m + o = n
    OBVIOUS
  <1> HIDE DEF p, q, m, o
  <1>3. n * (p + q + 1) = n * p + n * q + n /\ n * p \in Int /\ n * q \in Int /\ p + q + 1 \in Int
    BY <1>1
  <1>4. a + b = n * (p + q + 1) + 0
    BY <1>1, <1>2, <1>3
  <1> QED BY <1>3, <1>4, RemainderIsUnique
-----------------------------------------------------------------------------
(* Points and their encoding.                                              *)

LEMMA Orders == NotesAssumption => Order \in Nat \ {0} /\ Order >= 3
  BY DEF NotesAssumption

LEMMA Points ==
  ASSUME NotesAssumption, NEW p \in Scalars
  PROVE  /\ p \in Nat /\ p < Order /\ p # 0
         /\ Opposite(p) = Order - p /\ Opposite(p) \in Scalars
         /\ Pub(p) = p
PROOF
  <1>1. p \in Nat /\ p < Order /\ p # 0 /\ Order \in Nat \ {0}
    BY Orders DEF Scalars
  <1>2. Order - p \in Nat /\ Order - p < Order /\ 1 * p = p
    BY <1>1
  <1>3. (Order - p) % Order = Order - p /\ p % Order = p
    BY <1>1, <1>2, Divided
  <1> QED BY <1>1, <1>2, <1>3 DEF Opposite, Pub, Times, Scalars

\* The encoding of a point is read back.
LEMMA Encoded ==
  ASSUME NotesAssumption, NEW p \in Scalars
  PROVE  IsPoint(Compress(p)) /\ Decompress(Compress(p)) = p
PROOF
  <1>1. /\ p \in Nat /\ p < Order /\ Order \in Nat
        /\ Opposite(p) = Order - p /\ Opposite(p) \in Scalars
    BY Points, Orders
  <1>2. Opposite(Opposite(p)) = p
    <2>1. Opposite(Opposite(p)) = Order - Opposite(p)
      BY <1>1, Points
    <2> QED BY <2>1, <1>1
  <1>3. XOf(p) = p \/ (XOf(p) = Opposite(p) /\ XOf(p) # p)
    BY DEF XOf
  <1> QED BY <1>2, <1>3 DEF Compress, Decompress, IsPoint

LEMMA EncodingsDiffer ==
  ASSUME NotesAssumption, NEW p \in Scalars, NEW q \in Scalars, Compress(p) = Compress(q)
  PROVE  p = q
PROOF
  <1>1. Decompress(Compress(p)) = Decompress(Compress(q))
    OBVIOUS
  <1> QED BY <1>1, Encoded

\* Points with one x coordinate are equal or opposite.
LEMMA SameX ==
  ASSUME NotesAssumption, NEW p \in Scalars, NEW q \in Scalars, XOf(p) = XOf(q)
  PROVE  p = q \/ p + q = Order
PROOF
  <1>1. /\ p \in Nat /\ q \in Nat /\ Order \in Nat
        /\ Opposite(p) = Order - p /\ Opposite(q) = Order - q
    BY Points, Orders
  <1> QED BY <1>1 DEF XOf

\* Both sides of the key agreement come to one point.
LEMMA Agreement ==
  ASSUME NotesAssumption, NEW a \in Scalars, NEW b \in Scalars
  PROVE  /\ Times(Pub(a), b) = Times(Pub(b), a)
         /\ Times(Pub(a), b) \in Scalars
         /\ Times(Pub(a), b) = (a * b) % Order
PROOF
  <1>1. Pub(a) = a /\ Pub(b) = b /\ a \in Nat /\ b \in Nat /\ Order \in Nat \ {0}
    BY Points, Orders
  <1>2. a * b = b * a /\ a * b \in Nat
    BY <1>1
  <1>3. (a * b) % Order \in 0 .. Order - 1
    BY <1>1, <1>2, Divided
  <1>4. (a * b) % Order # 0
    BY DEF NotesAssumption
  <1> QED BY <1>1, <1>2, <1>3, <1>4 DEF Times, Scalars
-----------------------------------------------------------------------------
(* Rows.                                                                   *)

Shared(r, wallet) == Times(Pub(wallet.view), r)
Address(r, wallet) == (wallet.spend + (Keccak[XOf(Shared(r, wallet))] % Order)) % Order
OneTime(r, wallet) == [addr |-> Compress(Address(r, wallet)), ephemeral |-> Compress(Pub(r))]

LEMMA WalletKeys == ASSUME NotesAssumption, NEW w \in Wallets
                    PROVE  w.view \in Scalars /\ w.spend \in Scalars
  BY DEF NotesAssumption

LEMMA Derived ==
  ASSUME NotesAssumption, NEW w \in Wallets, NEW r \in Scalars, NEW ot \in DeriveOneTime(r, Meta(w))
  PROVE  ot = OneTime(r, w) /\ Address(r, w) \in Scalars
PROOF
  <1>1. w.view \in Scalars /\ w.spend \in Scalars
    BY WalletKeys
  <1>2. /\ Decompress(Compress(Pub(w.view))) = Pub(w.view)
        /\ Decompress(Compress(Pub(w.spend))) = w.spend
    BY <1>1, Points, Encoded
  <1>3. /\ Decompress(Meta(w).view) = Pub(w.view)
        /\ Decompress(Meta(w).spend) = w.spend
    BY <1>2 DEF Meta
  <1>4. (Decompress(Meta(w).spend) + Shift(Times(Decompress(Meta(w).view), r))) % Order
          = Address(r, w)
    BY <1>3 DEF Address, Shared, Shift
  <1>5. Address(r, w) # 0 /\ ot = OneTime(r, w)
    BY <1>4 DEF DeriveOneTime, OneTime
  <1>6. Address(r, w) \in 0 .. Order - 1
    <2>1. Shared(r, w) \in Scalars
      BY <1>1, Agreement DEF Shared
    <2>2. Keccak[XOf(Shared(r, w))] \in Nat
      BY <2>1 DEF NotesAssumption, Scalars
    <2> DEFINE h == Keccak[XOf(Shared(r, w))]
    <2> HIDE DEF h
    <2>3. h \in Nat /\ w.spend \in Nat /\ Order \in Nat \ {0}
      BY <1>1, <2>2, Orders, Points DEF h
    <2>5. (h % Order) \in Nat
      BY <2>3, Divided
    <2>4. w.spend + (h % Order) \in Nat
      BY <2>3, <2>5
    <2> QED BY <2>3, <2>4, Divided DEF Address, h
  <1>7. Address(r, w) \in Scalars
    BY <1>5, <1>6, Orders DEF Scalars
  <1> QED BY <1>5, <1>7

\* The receiver computes the point of the address.
LEMMA ReceiverFinds ==
  ASSUME NotesAssumption, NEW w \in Wallets, NEW r \in Scalars, Address(r, w) \in Scalars
  PROVE  ScanAndUnlock(w.view, OneTime(r, w), Pub(w.spend)) # {}
PROOF
  <1> DEFINE ot == OneTime(r, w)
  <1>1. ot.addr = Compress(Address(r, w)) /\ Decompress(ot.ephemeral) = Pub(r)
    BY Encoded, Points DEF OneTime
  <1>2. Times(Pub(r), w.view) = Shared(r, w) /\ Pub(w.spend) = w.spend
    BY WalletKeys, Agreement, Points DEF Shared
  <1> HIDE DEF ot
  <1>3. (Pub(w.spend) + Shift(Times(Decompress(ot.ephemeral), w.view))) % Order = Address(r, w)
    BY <1>1, <1>2 DEF Shift, Address
  <1>4. Address(r, w) # 0
    BY DEF Scalars
  <1> QED BY <1>1, <1>3, <1>4 DEF ScanAndUnlock, ot

\* What a scan unlocks is the key of the address, whoever scans.
LEMMA UnlockedIsKey ==
  ASSUME NotesAssumption, NEW w \in Wallets, NEW e \in Scalars, NEW addr \in Scalars,
         NEW ot, ot.addr = Compress(addr), ot.ephemeral = Compress(e),
         NEW info \in ScanAndUnlock(w.view, ot, Pub(w.spend))
  PROVE  /\ UnlockSpendKey(w.spend, info) # 0
         /\ Pub(UnlockSpendKey(w.spend, info)) = Decompress(ot.addr)
PROOF
  <1> DEFINE shared == Times(Decompress(ot.ephemeral), w.view)
             h == Keccak[XOf(shared)]
             point == (Pub(w.spend) + Shift(shared)) % Order
  <1>1. point # 0 /\ Compress(point) = ot.addr /\ info.t = h
    BY DEF ScanAndUnlock
  <1>2. w.view \in Scalars /\ w.spend \in Nat /\ Pub(w.spend) = w.spend
    BY WalletKeys, Points
  <1>3. shared \in Scalars
    <2>1. Decompress(ot.ephemeral) = Pub(e)
      BY Encoded, Points
    <2> QED BY <2>1, <1>2, Agreement
  <1>4. h \in Nat
    BY <1>3 DEF NotesAssumption, Scalars
  <1>5. point = (w.spend + (h % Order)) % Order
    BY <1>2 DEF Shift
  <1> HIDE DEF shared, h, point
  <1>6. point = (w.spend + h) % Order
    BY <1>2, <1>4, <1>5, Orders, ReducedSummand
  <1>7. w.spend + h \in Nat
    BY <1>2, <1>4
  <1>8. point \in 0 .. Order - 1
    BY <1>6, <1>7, Orders, Divided
  <1>9. point \in Scalars
    BY <1>1, <1>8, Orders DEF Scalars
  <1>10. point = addr /\ Decompress(ot.addr) = point
    BY <1>1, <1>9, EncodingsDiffer, Encoded
  <1>11. UnlockSpendKey(w.spend, info) = point
    BY <1>1, <1>6 DEF UnlockSpendKey
  <1> QED BY <1>1, <1>9, <1>10, <1>11, Points

\* A row is a note for a one-time address of its receiver.
IsReceived(row) ==
  /\ row.wallet \in Wallets /\ row.amount > 0
  /\ \E r \in Scalars, amount \in Amounts, secret \in Secrets :
       \E ot \in DeriveOneTime(r, Meta(row.wallet)) :
         row = Row(ot, NoteFor(ot, row.asset, amount, secret), row.wallet)

RowsAreReceived == \A row \in notes : IsReceived(row)

LEMMA RowIs ==
  ASSUME NEW ot, NEW asset, NEW amount, NEW secret, NEW w, NEW row,
         row = Row(ot, NoteFor(ot, asset, amount, secret), w)
  PROVE  /\ row.commitment = Commitment([asset |-> asset, owner |-> ot.addr,
                                         amount |-> amount, secret |-> secret])
         /\ row.asset = asset /\ row.owner = ot.addr /\ row.amount = Signed(amount)
         /\ row.ot = ot /\ row.secret = secret /\ row.wallet = w
  BY DEF Row, NoteFor

\* An amount that passes the check of the column is stored as it is.
LEMMA StoredAmount ==
  ASSUME NotesAssumption, NEW amount \in Amounts, Signed(amount) > 0
  PROVE  Signed(amount) = amount
PROOF
  <1> DEFINE full == 2 ^ AmountBits
             half == 2 ^ (AmountBits - 1)
  <1>1. full \in Nat /\ half \in Nat /\ amount \in 0 .. full - 1
    BY DEF NotesAssumption
  <1>2. Signed(amount) = IF amount < half THEN amount ELSE amount - full
    BY DEF Signed
  <1> HIDE DEF full, half
  <1> QED BY <1>1, <1>2

LEMMA ReceivedIsSpendable ==
  ASSUME NotesAssumption, NEW row \in notes, IsReceived(row)
  PROVE  /\ IsPoint(row.ot.addr) /\ IsPoint(row.ot.ephemeral)
         /\ row \in ScanNotes(row.wallet.view, Pub(row.wallet.spend))
         /\ \A w \in Wallets : \A info \in ScanAndUnlock(w.view, row.ot, Pub(w.spend)) :
              /\ UnlockSpendKey(w.spend, info) # 0
              /\ Pub(UnlockSpendKey(w.spend, info)) = Decompress(row.ot.addr)
         /\ LET old == OldNote(row, row.amount)
            IN  Nullifier(old) \in spent \/ Accepts(old)
PROOF
  <1> DEFINE wallet == row.wallet
  <1>1. PICK r \in Scalars, amount \in Amounts, secret \in Secrets :
          \E ot \in DeriveOneTime(r, Meta(wallet)) :
            row = Row(ot, NoteFor(ot, row.asset, amount, secret), wallet)
    BY DEF IsReceived
  <1>2. PICK ot \in DeriveOneTime(r, Meta(wallet)) :
          row = Row(ot, NoteFor(ot, row.asset, amount, secret), wallet)
    BY <1>1
  <1>3. wallet \in Wallets /\ row.amount > 0
    BY DEF IsReceived
  <1>4. /\ row.commitment = Commitment([asset |-> row.asset, owner |-> ot.addr,
                                        amount |-> amount, secret |-> secret])
        /\ row.owner = ot.addr /\ row.amount = Signed(amount)
        /\ row.ot = ot /\ row.secret = secret
    BY <1>2, RowIs
  <1> HIDE DEF wallet
  <1>5. ot = OneTime(r, wallet) /\ Address(r, wallet) \in Scalars
    BY <1>3, Derived
  <1>6. ot.addr = Compress(Address(r, wallet)) /\ ot.ephemeral = Compress(r)
    BY <1>5, Points DEF OneTime
  <1>7. IsPoint(row.ot.addr) /\ IsPoint(row.ot.ephemeral)
    BY <1>4, <1>5, <1>6, Encoded
  <1>8. row \in ScanNotes(wallet.view, Pub(wallet.spend))
    BY <1>3, <1>4, <1>5, ReceiverFinds DEF ScanNotes
  <1>9. \A w \in Wallets : \A info \in ScanAndUnlock(w.view, row.ot, Pub(w.spend)) :
              /\ UnlockSpendKey(w.spend, info) # 0
              /\ Pub(UnlockSpendKey(w.spend, info)) = Decompress(row.ot.addr)
    BY <1>4, <1>5, <1>6, UnlockedIsKey
  <1> DEFINE old == OldNote(row, row.amount)
  <1>10. Signed(amount) = amount
    BY <1>3, <1>4, StoredAmount
  <1>11. old = [asset |-> row.asset, owner |-> ot.addr, amount |-> amount, secret |-> secret]
    BY <1>4, <1>10 DEF OldNote
  <1>12. old.asset = row.asset /\ old.amount = amount /\ old.secret = secret
    BY <1>11
  <1>13. IsNote(old)
    BY <1>3, <1>4, <1>10, <1>12 DEF IsNote, NotesAssumption
  <1>14. OnRecord(old)
    BY <1>4, <1>10, <1>11, <1>12 DEF OnRecord
  <1> HIDE DEF old
  <1>15. Nullifier(old) \in spent \/ Accepts(old)
    BY <1>13, <1>14 DEF Accepts
  <1> QED BY <1>7, <1>8, <1>9, <1>15 DEF wallet, old
-----------------------------------------------------------------------------
(* Ciphers.                                                                *)

\* A key that is neither that of the regulator nor its opposite agrees on
\* another x coordinate: the order is a prime.
LEMMA KeysDiffer ==
  ASSUME NotesAssumption, NEW k \in Scalars, NEW f \in Scalars, NEW s \in Scalars,
         XOf((k * f) % Order) = XOf((k * s) % Order)
  PROVE  s = f \/ s = Opposite(f)
PROOF
  <1>1. /\ k \in Nat /\ f \in Nat /\ s \in Nat /\ Order \in Nat \ {0}
        /\ f < Order /\ s < Order /\ f # 0 /\ s # 0 /\ k # 0 /\ k < Order
        /\ Opposite(f) = Order - f
    BY Points, Orders
  <1> DEFINE a == k * f
             b == k * s
  <1>2. a \in Nat /\ b \in Nat
    BY <1>1
  <1>3. a % Order \in Scalars /\ b % Order \in Scalars
    <2>1. a % Order # 0 /\ b % Order # 0
      BY DEF NotesAssumption
    <2> HIDE DEF a, b
    <2> QED BY <1>1, <1>2, <2>1, Divided DEF Scalars
  <1>4. XOf(a % Order) = XOf(b % Order)
    OBVIOUS
  <1> HIDE DEF a, b
  <1>5. a % Order = b % Order \/ (a % Order) + (b % Order) = Order
    BY <1>3, <1>4, SameX
  <1>6. CASE a % Order = b % Order
    <2>1. CASE s = f
      BY <2>1
    <2>2. CASE s < f
      <3>1. k * (f - s) \in Nat /\ a = b + k * (f - s) /\ f - s \in Scalars
        BY <1>1, <2>2 DEF a, b, Scalars
      <3>2. (k * (f - s)) % Order = 0
        BY <1>1, <1>2, <1>6, <3>1, DifferenceIsMultiple
      <3> QED BY <3>1, <3>2 DEF NotesAssumption
    <2>3. CASE f < s
      <3>1. k * (s - f) \in Nat /\ b = a + k * (s - f) /\ s - f \in Scalars
        BY <1>1, <2>3 DEF a, b, Scalars
      <3>2. (k * (s - f)) % Order = 0
        BY <1>1, <1>2, <1>6, <3>1, DifferenceIsMultiple
      <3> QED BY <3>1, <3>2 DEF NotesAssumption
    <2> QED BY <2>1, <2>2, <2>3, <1>1
  <1>7. CASE (a % Order) + (b % Order) = Order
    <2>1. (a + b) % Order = 0
      BY <1>1, <1>2, <1>7, SumIsMultiple
    <2>2. a + b = k * (f + s)
      BY <1>1 DEF a, b
    <2>3. CASE f + s < Order
      <3>1. f + s \in Scalars
        BY <1>1, <2>3 DEF Scalars
      <3> QED BY <2>1, <2>2, <3>1 DEF NotesAssumption
    <2>4. CASE f + s = Order
      BY <2>4, <1>1
    <2>5. CASE f + s > Order
      <3> DEFINE d == f + s - Order
      <3>1. d \in Scalars /\ d \in Nat /\ f + s = d + Order
        BY <1>1, <2>5 DEF Scalars
      <3> HIDE DEF d
      <3>2. k * (f + s) = k * d + Order * k /\ k * d \in Nat /\ Order * k \in Nat
        BY <1>1, <3>1
      <3> DEFINE e == k * d
      <3>3. e % Order # 0
        BY <3>1 DEF NotesAssumption
      <3> HIDE DEF e
      <3>4. e \in Nat /\ a + b = Order * k + e
        BY <2>2, <3>2, <1>2 DEF e
      <3>5. e = Order * (e \div Order) + (e % Order) /\ e \div Order \in Int
            /\ e % Order \in 0 .. Order - 1
        BY <1>1, <3>4, Divided
      <3> DEFINE q == e \div Order
                 m == e % Order
      <3>6. q \in Int /\ m \in 0 .. Order - 1 /\ e = Order * q + m /\ m # 0
        BY <3>3, <3>5
      <3> HIDE DEF q, m
      <3>7. Order * (k + q) = Order * k + Order * q /\ k + q \in Int /\ Order * q \in Int
            /\ Order * k \in Int
        BY <1>1, <3>6
      <3>8. a + b = Order * (k + q) + m
        BY <3>4, <3>6, <3>7
      <3>9. (a + b) % Order = m
        BY <3>6, <3>7, <3>8, <1>1, RemainderIsUnique
      <3> QED BY <2>1, <3>6, <3>9
    <2> QED BY <2>3, <2>4, <2>5, <1>1
  <1> QED BY <1>5, <1>6, <1>7

\* A cipher is one that the transfer made for the regulator it names.
IsAddressed(cipher) ==
  /\ cipher.for \in Regulators
  /\ \E k \in Scalars :
       cipher.extra = EncryptTo(Pub(cipher.for), k, k, cipher.disclosed)

LEMMA EncryptedIs ==
  ASSUME NotesAssumption, NEW f \in Scalars, NEW k \in Scalars, NEW msg, NEW cipher,
         cipher = EncryptTo(Pub(f), k, k, msg)
  PROVE  /\ cipher.ephemeral = Compress(Pub(k)) /\ cipher.nonce = k
         /\ cipher.box = Seal(<<"vg-ecies-key", XOf((k * f) % Order)>>, k, Compress(Pub(k)), msg)
         /\ Decompress(cipher.ephemeral) = Pub(k) /\ IsPoint(cipher.ephemeral)
PROOF
  <1>1. Times(Pub(f), k) = (k * f) % Order
    BY Agreement
  <1>2. Pub(k) \in Scalars
    BY Points
  <1> QED BY <1>1, <1>2, Encoded DEF EncryptTo, DeriveKey, Aad

LEMMA OpensForKey ==
  ASSUME NotesAssumption, NEW f \in Scalars, NEW k \in Scalars, NEW s \in Scalars, NEW msg,
         NEW cipher, cipher = EncryptTo(Pub(f), k, k, msg)
  PROVE  /\ s = f => DecryptWith(s, cipher) = {msg}
         /\ s # f /\ s # Opposite(f) => DecryptWith(s, cipher) = {}
PROOF
  <1> DEFINE ours == XOf((k * f) % Order)
             theirs == XOf((k * s) % Order)
  <1>1. /\ cipher.nonce = k
        /\ cipher.box = Seal(<<"vg-ecies-key", ours>>, k, cipher.ephemeral, msg)
        /\ Decompress(cipher.ephemeral) = Pub(k) /\ IsPoint(cipher.ephemeral)
    BY EncryptedIs
  <1>2. DeriveKey(s, Decompress(cipher.ephemeral)) = <<"vg-ecies-key", theirs>>
    BY <1>1, Agreement DEF DeriveKey
  <1>3. s # f /\ s # Opposite(f) => ours # theirs
    BY KeysDiffer
  <1>4. s = f => ours = theirs
    OBVIOUS
  <1> HIDE DEF ours, theirs
  <1>5. /\ cipher.box.key = <<"vg-ecies-key", ours>> /\ cipher.box.nonce = k
        /\ cipher.box.aad = cipher.ephemeral /\ cipher.box.msg = msg
    BY <1>1 DEF Seal
  <1>6. <<"vg-ecies-key", ours>> = <<"vg-ecies-key", theirs>> => ours = theirs
    OBVIOUS
  <1> QED BY <1>1, <1>2, <1>3, <1>4, <1>5, <1>6 DEF DecryptWith, Opens, Aad

\* What the cipher authenticates tells an altered one apart.
LEMMA AlteredDiffers ==
  ASSUME NotesAssumption, NEW point \in Scalars, NEW k \in Nat, NEW box, NEW cipher,
         cipher = [ephemeral |-> Compress(point), nonce |-> k, box |-> box],
         NEW altered \in Altered(cipher)
  PROVE  altered.box = box /\ (altered.nonce # k \/ altered.ephemeral # Compress(point))
PROOF
  <1> DEFINE x == XOf(point)
  <1>1. PICK prefix \in {2, 3} : Compress(point) = [prefix |-> prefix, x |-> x]
    BY DEF Compress
  <1> HIDE DEF x
  <1>2. \/ altered = [ephemeral |-> [prefix |-> 5 - prefix, x |-> x], nonce |-> k, box |-> box]
        \/ altered = [ephemeral |-> Compress(point), nonce |-> k + 1, box |-> box]
    BY <1>1 DEF Altered
  <1> QED BY <1>1, <1>2

LEMMA AlteredIsRefused ==
  ASSUME NotesAssumption, NEW f \in Scalars, NEW k \in Scalars, NEW msg, NEW cipher,
         cipher = EncryptTo(Pub(f), k, k, msg)
  PROVE  \A altered \in Altered(cipher) : DecryptWith(f, altered) = {}
PROOF
  <1>1. /\ cipher.nonce = k /\ cipher.ephemeral = Compress(Pub(k))
        /\ cipher.box = Seal(<<"vg-ecies-key", XOf((k * f) % Order)>>, k, Compress(Pub(k)), msg)
    BY EncryptedIs
  <1>2. cipher.box.nonce = k /\ cipher.box.aad = Compress(Pub(k))
    BY <1>1 DEF Seal
  <1>3. cipher = [ephemeral |-> cipher.ephemeral, nonce |-> cipher.nonce, box |-> cipher.box]
    BY DEF EncryptTo
  <1>4. k \in Nat /\ Pub(k) \in Scalars
    BY Points DEF Scalars, NotesAssumption
  <1>5. cipher = [ephemeral |-> Compress(Pub(k)), nonce |-> k, box |-> cipher.box]
    BY <1>1, <1>3
  <1>6. ASSUME NEW altered \in Altered(cipher)
        PROVE  /\ altered.box = cipher.box
               /\ altered.nonce # k \/ altered.ephemeral # Compress(Pub(k))
    BY <1>4, <1>5, AlteredDiffers
  <1> QED BY <1>2, <1>6 DEF DecryptWith, Opens, Aad
-----------------------------------------------------------------------------
(* Every row is made as its receiver expects, every cipher for the         *)
(* regulator it names.                                                     *)

CiphersAreAddressed == \A cipher \in ciphers : IsAddressed(cipher)

NotesAreMade == RowsAreReceived /\ CiphersAreAddressed

LEMMA ReceivedRow ==
  ASSUME NEW w \in Wallets, NEW r \in Scalars, NEW asset, NEW amount \in Amounts,
         NEW secret \in Secrets, NEW ot \in DeriveOneTime(r, Meta(w)), NEW row,
         row = Row(ot, NoteFor(ot, asset, amount, secret), w), row.amount > 0
  PROVE  IsReceived(row)
PROOF
  <1>1. row.asset = asset /\ row.wallet = w
    BY DEF Row, NoteFor
  <1> QED BY <1>1 DEF IsReceived

LEMMA FirstNoteIsMade == ASSUME NotesAssumption, HiddenInit PROVE NotesAreMade
PROOF
  <1>1. PICK w \in Wallets, r \in Scalars, asset \in Assets, amount \in Amounts,
             secret \in Secrets :
          \E ot \in DeriveOneTime(r, Meta(w)) :
            /\ Signed(amount) > 0
            /\ notes = {Row(ot, NoteFor(ot, asset, amount, secret), w)}
    BY DEF HiddenInit
  <1>2. PICK ot \in DeriveOneTime(r, Meta(w)) :
            /\ Signed(amount) > 0
            /\ notes = {Row(ot, NoteFor(ot, asset, amount, secret), w)}
    BY <1>1
  <1>3. PICK row : row = Row(ot, NoteFor(ot, asset, amount, secret), w)
    OBVIOUS
  <1>4. row.amount > 0
    BY <1>2, <1>3 DEF Row, NoteFor
  <1>5. IsReceived(row)
    BY <1>3, <1>4, ReceivedRow
  <1>6. notes = {row} /\ ciphers = {}
    BY <1>2, <1>3 DEF HiddenInit
  <1> QED BY <1>5, <1>6 DEF NotesAreMade, RowsAreReceived, CiphersAreAddressed

LEMMA TransferMakesNotes ==
  ASSUME NotesAssumption, NotesAreMade, NEW source \in notes, NEW amount \in Amounts,
         NEW wallet \in Wallets, NEW regulator \in Regulators, NEW r \in Scalars,
         NEW k \in Scalars, Transfer(OldNote(source, amount), wallet, regulator, r, k)
  PROVE  NotesAreMade'
PROOF
  <1> DEFINE old == OldNote(source, amount)
             disclosed == Disclosed(old, wallet)
             cipher == EncryptTo(Pub(regulator), k, k, disclosed)
  <1>1. old.amount = amount
    BY DEF OldNote
  <1> HIDE DEF old, disclosed
  <1>2. PICK ot \in DeriveOneTime(r, Meta(wallet)), secret \in FreshSecrets :
          WriteRows(old, Row(ot, NoteFor(ot, old.asset, old.amount, secret), wallet),
                    cipher, regulator, disclosed)
    BY DEF Transfer, old, disclosed
  <1>3. PICK row : row = Row(ot, NoteFor(ot, old.asset, old.amount, secret), wallet)
    OBVIOUS
  <1> HIDE DEF cipher
  <1>4. /\ row.amount > 0 /\ notes' = notes \cup {row}
        /\ ciphers' = ciphers \cup {[extra |-> cipher, for |-> regulator, disclosed |-> disclosed]}
    BY <1>2, <1>3 DEF WriteRows
  <1>5. secret \in Secrets
    BY DEF FreshSecrets
  <1>6. IsReceived(row)
    BY <1>1, <1>3, <1>4, <1>5, ReceivedRow
  <1>7. RowsAreReceived'
    BY <1>4, <1>6 DEF NotesAreMade, RowsAreReceived
  <1>8. IsAddressed([extra |-> cipher, for |-> regulator, disclosed |-> disclosed])
    BY DEF IsAddressed, cipher
  <1>9. CiphersAreAddressed'
    BY <1>4, <1>8 DEF NotesAreMade, CiphersAreAddressed
  <1> QED BY <1>7, <1>9 DEF NotesAreMade

LEMMA NotesStayMade ==
  ASSUME NotesAssumption, NotesAreMade, [HiddenNext]_hidden
  PROVE  NotesAreMade'
PROOF
  <1>1. CASE HiddenNext
    BY <1>1, TransferMakesNotes DEF HiddenNext
  <1>2. CASE UNCHANGED hidden
    BY <1>2 DEF hidden, NotesAreMade, RowsAreReceived, CiphersAreAddressed
  <1> QED BY <1>1, <1>2

\* What a transfer writes is found by the wallet it was sent to, unlocks to the
\* key of its address and is accepted as the next old note until it is spent
\* (HiddenNotes: derive_one_time, scan_and_unlock, unlock_spend_key).
THEOREM NotesCanBeSpent ==
  ASSUME NotesAssumption
  PROVE  HiddenSpec => []ReceivedCanBeSpent
PROOF
  <1>1. HiddenInit => NotesAreMade
    BY FirstNoteIsMade
  <1>2. NotesAreMade /\ [HiddenNext]_hidden => NotesAreMade'
    BY NotesStayMade
  <1>3. NotesAreMade => ReceivedCanBeSpent
    <2> SUFFICES ASSUME NotesAreMade PROVE ReceivedCanBeSpent
      OBVIOUS
    <2>1. \A row \in notes : IsReceived(row)
      BY DEF NotesAreMade, RowsAreReceived
    <2> QED BY <2>1, ReceivedIsSpendable DEF ReceivedCanBeSpent, ScanFails
  <1> QED BY <1>1, <1>2, <1>3, PTL DEF HiddenSpec

\* The regulator of a transfer reads the cipher; a key other than that one and
\* its opposite, or an altered cipher, yields nothing (encrypt_to, decrypt_with).
THEOREM CiphersAreForRegulators ==
  ASSUME NotesAssumption
  PROVE  HiddenSpec => []ExtraIsForRegulator
PROOF
  <1>1. HiddenInit => NotesAreMade
    BY FirstNoteIsMade
  <1>2. NotesAreMade /\ [HiddenNext]_hidden => NotesAreMade'
    BY NotesStayMade
  <1>3. NotesAreMade => ExtraIsForRegulator
    <2> SUFFICES ASSUME NotesAreMade, NEW sent \in ciphers
                 PROVE  /\ DecryptWith(sent.for, sent.extra) = {sent.disclosed}
                        /\ \A s \in Scalars \ {sent.for, Opposite(sent.for)} :
                             DecryptWith(s, sent.extra) = {}
                        /\ \A altered \in Altered(sent.extra) :
                             DecryptWith(sent.for, altered) = {}
      BY DEF ExtraIsForRegulator
    <2>1. sent.for \in Regulators /\ sent.for \in Scalars
      BY DEF NotesAreMade, CiphersAreAddressed, IsAddressed, NotesAssumption
    <2>2. PICK k \in Scalars :
            sent.extra = EncryptTo(Pub(sent.for), k, k, sent.disclosed)
      BY DEF NotesAreMade, CiphersAreAddressed, IsAddressed
    <2>3. DecryptWith(sent.for, sent.extra) = {sent.disclosed}
      BY <2>1, <2>2, OpensForKey
    <2>4. \A s \in Scalars \ {sent.for, Opposite(sent.for)} : DecryptWith(s, sent.extra) = {}
      BY <2>1, <2>2, OpensForKey
    <2>5. \A altered \in Altered(sent.extra) : DecryptWith(sent.for, altered) = {}
      BY <2>1, <2>2, AlteredIsRefused
    <2> QED BY <2>3, <2>4, <2>5
  <1> QED BY <1>1, <1>2, <1>3, PTL DEF HiddenSpec
===============================================================================
