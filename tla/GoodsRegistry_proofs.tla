------------------------- MODULE GoodsRegistry_proofs -------------------------
(***************************************************************************)
(* The owner of a subject and the origin of a batch, for any calls,        *)
(* subjects and requests: the lock of the owner row orders the transfers   *)
(* of a subject and decides between calls that name the same new batch.    *)
(* Then what stays true of calls that overlap, in the history of           *)
(* transfers, the log of states and the quantities that splits and merges  *)
(* hand on, and of a view that is read while calls commit.                 *)
(***************************************************************************)
EXTENDS ReadViews, Sums, FiniteSetTheorems, TLAPS

Names == {"absent", "authorize", "own", "holder", "custodian", "state", "find", "transfer",
          "record", "mark", "custody", "retire", "save", "init"}
Statements == Names \X Subjects

TransferAt(req) == IF req.state = None THEN 3 ELSE 4
-----------------------------------------------------------------------------
(* The programs.                                                           *)

(* Short sequences, and what concatenation does to their elements.         *)
LEMMA Two ==
  ASSUME NEW S, NEW x \in S, NEW y \in S
  PROVE  /\ <<x, y>> \in Seq(S) /\ Len(<<x, y>>) = 2
         /\ <<x, y>>[1] = x /\ <<x, y>>[2] = y
  OBVIOUS

Joined(u, v, S) ==
  /\ u \o v \in Seq(S) /\ Len(u \o v) = Len(u) + Len(v)
  /\ Len(u) \in Nat /\ Len(v) \in Nat
  /\ \A i \in 1 .. Len(u) : (u \o v)[i] = u[i]
  /\ \A i \in 1 .. Len(v) : (u \o v)[Len(u) + i] = v[i]

LEMMA Concatenate ==
  ASSUME NEW S, NEW u \in Seq(S), NEW v \in Seq(S)
  PROVE  Joined(u, v, S)
  BY DEF Joined

(* Zero or two more.                                                       *)
LEMMA ZeroOrTwo ==
  ASSUME NEW m \in Nat, NEW n \in {0, 2}
  PROVE  m + n \in {m, m + 2} /\ m + 1 + 2 = m + 3
  OBVIOUS

LEMMA StatementOf ==
  ASSUME NEW name \in Names, NEW s \in Subjects
  PROVE  <<name, s>> \in Statements
  BY DEF Statements

LEMMA TwoStatements ==
  ASSUME NEW m \in Names, NEW n \in Names, NEW s \in Subjects
  PROVE  LET u == <<<<m, s>>, <<n, s>>>>
         IN u \in Seq(Statements) /\ Len(u) = 2 /\ u[1] = <<m, s>> /\ u[2] = <<n, s>>
<1> DEFINE x == <<m, s>>
           y == <<n, s>>
<1>1. x \in Statements /\ y \in Statements
  BY StatementOf
<1> HIDE DEF x, y
<1>2. /\ <<x, y>> \in Seq(Statements) /\ Len(<<x, y>>) = 2
      /\ <<x, y>>[1] = x /\ <<x, y>>[2] = y
  BY <1>1, Two
<1> QED
  BY <1>2 DEF x, y

LEMMA TransitionProgram ==
  ASSUME NEW s \in Subjects, NEW req
  PROVE  LET d == Transition(s, req)
         IN  /\ d \in Seq(Statements) /\ Len(d) \in {0, 2}
             /\ \A i \in 1 .. Len(d) : d[i] \in {<<"find", s>>, <<"mark", s>>}
<1> DEFINE u == <<<<"find", s>>, <<"mark", s>>>>
<1>1. "find" \in Names /\ "mark" \in Names
  BY DEF Names
<1>2. u \in Seq(Statements) /\ Len(u) = 2 /\ u[1] = <<"find", s>> /\ u[2] = <<"mark", s>>
  BY <1>1, TwoStatements
<1>3. Transition(s, req) = IF req.state = None THEN <<>> ELSE u
  BY DEF Transition
<1> HIDE DEF u
<1> QED
  BY <1>2, <1>3

LEMMA CustodyProgram ==
  ASSUME NEW s \in Subjects, NEW req
  PROVE  LET e == IF req.custodian = None THEN <<>> ELSE CustodyChange(s)
         IN  /\ e \in Seq(Statements) /\ Len(e) \in {0, 2}
             /\ \A i \in 1 .. Len(e) : e[i] \in {<<"custodian", s>>, <<"custody", s>>}
<1> DEFINE u == <<<<"custodian", s>>, <<"custody", s>>>>
<1>1. "custodian" \in Names /\ "custody" \in Names
  BY DEF Names
<1>2. u \in Seq(Statements) /\ Len(u) = 2 /\ u[1] = <<"custodian", s>> /\ u[2] = <<"custody", s>>
  BY <1>1, TwoStatements
<1>3. CustodyChange(s) = u
  BY DEF CustodyChange
<1> HIDE DEF u
<1> QED
  BY <1>2, <1>3

(* The statements of a transfer around the write of the owner row.         *)
LEMMA TransferProgram ==
  ASSUME NEW req \in Requests, req.op = "transfer"
  PROVE  LET p == Program(req)  x == TransferAt(req)
         IN  /\ p \in Seq(Statements) /\ Len(p) >= x + 1
             /\ \A i \in 1 .. Len(p) : p[i][2] = req.subject
             /\ p[1][1] = "authorize" /\ p[2][1] = "own"
             /\ x = 4 => p[3][1] = "state"
             /\ p[x][1] = "transfer" /\ p[x + 1][1] = "record"
             /\ \A i \in x + 2 .. Len(p) : p[i][1] \in {"find", "mark", "custodian", "custody"}
<1> DEFINE s == req.subject
           a == <<<<"authorize", s>>, <<"own", s>>>>
           b == StateRead(s, req)
           t == <<<<"transfer", s>>, <<"record", s>>>>
           d == Transition(s, req)
           e == IF req.custodian = None THEN <<>> ELSE CustodyChange(s)
<1>1. s \in Subjects
  BY RequestsAssumption
<1>2. Program(req) = (((a \o b) \o t) \o d) \o e
  BY DEF Program, TransferPublic, TransferAndRecord
<1>3. \A name \in Names : <<name, s>> \in Statements
  BY <1>1, StatementOf
<1>4. /\ a \in Seq(Statements) /\ Len(a) = 2
      /\ a[1] = <<"authorize", s>> /\ a[2] = <<"own", s>>
  <2>1. "authorize" \in Names /\ "own" \in Names
    BY DEF Names
  <2> QED
    BY <1>1, <2>1, TwoStatements
<1>5. /\ b \in Seq(Statements) /\ Len(b) = TransferAt(req) - 3
      /\ \A i \in 1 .. Len(b) : b[i] = <<"state", s>>
  <2>1. <<"state", s>> \in Statements
    BY <1>3 DEF Names
  <2> QED
    BY <2>1 DEF StateRead, TransferAt
<1>6. /\ t \in Seq(Statements) /\ Len(t) = 2
      /\ t[1] = <<"transfer", s>> /\ t[2] = <<"record", s>>
  <2>1. "transfer" \in Names /\ "record" \in Names
    BY DEF Names
  <2> QED
    BY <1>1, <2>1, TwoStatements
<1>7. /\ d \in Seq(Statements) /\ Len(d) \in {0, 2}
      /\ \A i \in 1 .. Len(d) : d[i] \in {<<"find", s>>, <<"mark", s>>}
  BY <1>1, TransitionProgram
<1>8. /\ e \in Seq(Statements) /\ Len(e) \in {0, 2}
      /\ \A i \in 1 .. Len(e) : e[i] \in {<<"custodian", s>>, <<"custody", s>>}
  BY <1>1, CustodyProgram
<1>9. TransferAt(req) \in {3, 4}
  BY DEF TransferAt
<1> HIDE DEF a, b, t, d, e
<1> DEFINE p2 == a \o b
           p3 == p2 \o t
           p4 == p3 \o d
           x == TransferAt(req)
<1>10. /\ p2 \in Seq(Statements) /\ Len(p2) = x - 1
       /\ p2[1] = a[1] /\ p2[2] = a[2] /\ (x = 4 => p2[3] = <<"state", s>>)
  <2>0. a \in Seq(Statements) /\ b \in Seq(Statements)
    BY <1>4, <1>5
  <2>4. Joined(a, b, Statements)
    BY <2>0, Concatenate
  <2>1. /\ p2 \in Seq(Statements) /\ Len(p2) = 2 + Len(b)
        /\ \A i \in 1 .. 2 : p2[i] = a[i]
        /\ \A i \in 1 .. Len(b) : p2[2 + i] = b[i]
    BY <1>4, <2>4 DEF Joined
  <2> HIDE DEF p2, x
  <2>2. x \in {3, 4} /\ Len(b) = x - 3
    BY <1>5, <1>9 DEF x
  <2>3. x = 4 => 1 \in 1 .. Len(b)
    BY <2>2
  <2> QED
    BY <1>5, <2>1, <2>2, <2>3
<1>11. /\ p3 \in Seq(Statements) /\ Len(p3) = x + 1
       /\ \A i \in 1 .. x - 1 : p3[i] = p2[i]
       /\ p3[x] = t[1] /\ p3[x + 1] = t[2]
  <2>0. p2 \in Seq(Statements) /\ t \in Seq(Statements)
    BY <1>6, <1>10
  <2> HIDE DEF p2
  <2>4. Joined(p2, t, Statements)
    BY <2>0, Concatenate
  <2>1. /\ p3 \in Seq(Statements) /\ Len(p3) = Len(p2) + 2
        /\ \A i \in 1 .. Len(p2) : p3[i] = p2[i]
        /\ \A i \in 1 .. 2 : p3[Len(p2) + i] = t[i]
    BY <1>6, <2>4 DEF Joined
  <2> HIDE DEF p3, x
  <2>2. x \in {3, 4}
    BY <1>9 DEF x
  <2> QED
    BY <1>10, <2>1, <2>2
<1>12. /\ p4 \in Seq(Statements) /\ Len(p4) \in {x + 1, x + 3}
       /\ \A i \in 1 .. x + 1 : p4[i] = p3[i]
       /\ \A i \in x + 2 .. Len(p4) : p4[i] \in {<<"find", s>>, <<"mark", s>>}
  <2>0. p3 \in Seq(Statements) /\ d \in Seq(Statements)
    BY <1>7, <1>11
  <2> HIDE DEF p3
  <2>4. Joined(p3, d, Statements)
    BY <2>0, Concatenate
  <2>1. /\ p4 \in Seq(Statements) /\ Len(p4) = Len(p3) + Len(d)
        /\ \A i \in 1 .. Len(p3) : p4[i] = p3[i]
        /\ \A i \in 1 .. Len(d) : p4[Len(p3) + i] = d[i]
    BY <2>4 DEF Joined
  <2> HIDE DEF p4, x
  <2>2. x \in {3, 4}
    BY <1>9 DEF x
  <2>3. ASSUME NEW i \in x + 2 .. Len(p4)
        PROVE  p4[i] \in {<<"find", s>>, <<"mark", s>>}
    <3>1. i - (x + 1) \in 1 .. Len(d)
      BY <1>7, <1>11, <2>1, <2>2
    <3>2. p4[(x + 1) + (i - (x + 1))] = d[i - (x + 1)]
      BY <1>11, <2>1, <3>1
    <3>3. (x + 1) + (i - (x + 1)) = i
      BY <2>2
    <3> QED
      BY <1>7, <3>1, <3>2, <3>3
  <2>5. Len(p4) \in {x + 1, x + 3}
    <3>1. Len(d) \in {0, 2} /\ Len(p3) = x + 1 /\ Len(p4) = Len(p3) + Len(d)
      BY <1>7, <1>11, <2>1
    <3>2. x + 1 \in Nat /\ x + 1 + 2 = x + 3
      BY <2>2
    <3>3. (x + 1) + Len(d) \in {x + 1, x + 1 + 2}
      BY <3>1, <3>2, ZeroOrTwo
    <3> QED
      BY <3>1, <3>2, <3>3
  <2>6. \A i \in 1 .. x + 1 : p4[i] = p3[i]
    BY <1>11, <2>1
  <2> QED
    BY <2>1, <2>3, <2>5, <2>6
<1> DEFINE p == Program(req)
<1>13. /\ p \in Seq(Statements) /\ Len(p) \in {Len(p4), Len(p4) + 2}
       /\ \A i \in 1 .. Len(p4) : p[i] = p4[i]
       /\ \A i \in Len(p4) + 1 .. Len(p) : p[i] \in {<<"custodian", s>>, <<"custody", s>>}
  <2>1. p = p4 \o e
    BY <1>2
  <2>4. p4 \in Seq(Statements) /\ e \in Seq(Statements)
    BY <1>8, <1>12
  <2> HIDE DEF p4, p
  <2>5. Joined(p4, e, Statements)
    BY <2>4, Concatenate
  <2>2. /\ p \in Seq(Statements) /\ Len(p) = Len(p4) + Len(e) /\ Len(p4) \in Nat
        /\ \A i \in 1 .. Len(p4) : p[i] = p4[i]
        /\ \A i \in 1 .. Len(e) : p[Len(p4) + i] = e[i]
    BY <2>1, <2>5 DEF Joined
  <2>3. ASSUME NEW i \in Len(p4) + 1 .. Len(p)
        PROVE  p[i] \in {<<"custodian", s>>, <<"custody", s>>}
    <3>1. i - Len(p4) \in 1 .. Len(e)
      BY <1>8, <2>2
    <3>2. p[Len(p4) + (i - Len(p4))] = e[i - Len(p4)]
      BY <2>2, <3>1
    <3>3. Len(p4) + (i - Len(p4)) = i
      BY <2>2
    <3> QED
      BY <1>8, <3>1, <3>2, <3>3
  <2>6. Len(p) \in {Len(p4), Len(p4) + 2}
    <3>1. Len(e) \in {0, 2} /\ Len(p4) \in Nat /\ Len(p) = Len(p4) + Len(e)
      BY <1>8, <2>2
    <3> QED
      BY <3>1, ZeroOrTwo
  <2> QED
    BY <2>2, <2>3, <2>6
<1> HIDE DEF p, p2, p3, p4, x
<1>14. x \in {3, 4} /\ Len(p4) \in {x + 1, x + 3}
  BY <1>9, <1>12 DEF x
<1>15. Len(p) >= x + 1 /\ \A i \in 1 .. x + 1 : p[i] = p3[i]
  BY <1>12, <1>13, <1>14
<1>16. ASSUME NEW i \in x + 2 .. Len(p)
       PROVE  p[i] \in {<<"find", s>>, <<"mark", s>>, <<"custodian", s>>, <<"custody", s>>}
  <2>1. CASE i <= Len(p4)
    <3>1. i \in x + 2 .. Len(p4) /\ i \in 1 .. Len(p4)
      BY <1>13, <1>14, <2>1
    <3> QED
      BY <1>12, <1>13, <3>1
  <2>2. CASE i > Len(p4)
    <3>1. i \in Len(p4) + 1 .. Len(p)
      BY <1>13, <1>14, <2>2
    <3> QED
      BY <1>13, <3>1
  <2> QED
    BY <1>14, <2>1, <2>2
<1>17. /\ p[1] = <<"authorize", s>> /\ p[2] = <<"own", s>>
       /\ (x = 4 => p[3] = <<"state", s>>)
       /\ p[x] = <<"transfer", s>> /\ p[x + 1] = <<"record", s>>
  <2>1. CASE x = 3
    BY <1>4, <1>6, <1>10, <1>11, <1>15, <2>1
  <2>2. CASE x = 4
    BY <1>4, <1>6, <1>10, <1>11, <1>15, <2>2
  <2> QED
    BY <1>14, <2>1, <2>2
<1>18. \A i \in 1 .. Len(p) : p[i][2] = s
  <2> SUFFICES ASSUME NEW i \in 1 .. Len(p) PROVE p[i][2] = s
    OBVIOUS
  <2>1. CASE i \in x + 2 .. Len(p)
    BY <1>16, <2>1
  <2>2. CASE i \in {1, 2, 3, x, x + 1}
    BY <1>14, <1>17, <2>2
  <2>3. i \in x + 2 .. Len(p) \/ i \in {1, 2, 3, x, x + 1}
    BY <1>13, <1>14
  <2> QED
    BY <2>1, <2>2, <2>3
<1> QED
  BY <1>13, <1>15, <1>16, <1>17, <1>18 DEF p, x
-----------------------------------------------------------------------------
(* What the other programs have in common.                                 *)

OtherStatements == (Names \ {"transfer", "record"}) \X Subjects

\* The subjects that a request makes an owner for and an edge of the lineage to.
Children(req) == CASE req.op = "split" -> {req.children[i] : i \in DOMAIN req.children}
                   [] req.op = "merge" -> {req.subject}
                   [] OTHER -> {}

\* An owner row is made for t.
Inits(u, t) == \E i \in 1 .. Len(u) : u[i] = <<"init", t>>

LEMMA SequenceOf ==
  ASSUME NEW S, NEW n \in Nat, NEW f \in [1 .. n -> S]
  PROVE  f \in Seq(S) /\ Len(f) = n
  OBVIOUS

LEMMA OtherStatementOf ==
  ASSUME NEW name \in Names \ {"transfer", "record"}, NEW s \in Subjects
  PROVE  <<name, s>> \in OtherStatements
  BY DEF OtherStatements

(* Each of a sequence of subjects, in one statement or in two.             *)
LEMMA ForEachProgram ==
  ASSUME NEW u \in Seq(Batches), NEW m \in Names \ {"transfer", "record"}
  PROVE  ForEach(u, m) \in Seq(OtherStatements)
<1> DEFINE n == Len(u)
<1>1. n \in Nat /\ DOMAIN u = 1 .. n /\ \A i \in 1 .. n : u[i] \in Subjects
  BY DEF Subjects
<1>2. \A i \in 1 .. n : <<m, u[i]>> \in OtherStatements
  BY <1>1, OtherStatementOf
<1>3. ForEach(u, m) \in [1 .. n -> OtherStatements]
  BY <1>1, <1>2 DEF ForEach
<1> HIDE DEF n
<1> QED
  BY <1>1, <1>3, SequenceOf

LEMMA Halves ==
  ASSUME NEW n \in Nat
  PROVE  /\ 2 * n \in Nat
         /\ \A i \in 1 .. 2 * n : (i + 1) \div 2 \in 1 .. n
         /\ \A j \in 1 .. n : 2 * j \in 1 .. 2 * n /\ (2 * j) % 2 = 0 /\ (2 * j + 1) \div 2 = j
  OBVIOUS

LEMMA ForEachTwoProgram ==
  ASSUME NEW u \in Seq(Batches), NEW m \in Names \ {"transfer", "record"},
         NEW k \in Names \ {"transfer", "record"}
  PROVE  /\ ForEachTwo(u, m, k) \in Seq(OtherStatements)
         /\ Len(ForEachTwo(u, m, k)) = 2 * Len(u)
         /\ \A j \in 1 .. Len(u) : 2 * j \in 1 .. 2 * Len(u)
                                   /\ ForEachTwo(u, m, k)[2 * j] = <<k, u[j]>>
<1> DEFINE n == Len(u)
           f == ForEachTwo(u, m, k)
<1>1. n \in Nat /\ DOMAIN u = 1 .. n /\ \A i \in 1 .. n : u[i] \in Subjects
  BY DEF Subjects
<1>2. f = [i \in 1 .. 2 * n |-> <<IF i % 2 = 1 THEN m ELSE k, u[(i + 1) \div 2]>>]
  BY DEF ForEachTwo
<1> HIDE DEF n, f
<1>3. ASSUME NEW i \in 1 .. 2 * n
      PROVE  <<IF i % 2 = 1 THEN m ELSE k, u[(i + 1) \div 2]>> \in OtherStatements
  <2>1. (i + 1) \div 2 \in 1 .. n
    BY <1>1, Halves
  <2>2. u[(i + 1) \div 2] \in Subjects
    BY <1>1, <2>1
  <2>3. (IF i % 2 = 1 THEN m ELSE k) \in Names \ {"transfer", "record"}
    OBVIOUS
  <2> QED
    BY <2>2, <2>3, OtherStatementOf
<1>4. f \in [1 .. 2 * n -> OtherStatements]
  BY <1>2, <1>3
<1>5. f \in Seq(OtherStatements) /\ Len(f) = 2 * n
  BY <1>1, <1>4, Halves, SequenceOf
<1>6. ASSUME NEW j \in 1 .. n
      PROVE  2 * j \in 1 .. 2 * n /\ f[2 * j] = <<k, u[j]>>
  <2>1. 2 * j \in 1 .. 2 * n /\ (2 * j) % 2 = 0 /\ (2 * j + 1) \div 2 = j
    BY <1>1, Halves
  <2>2. f[2 * j] = <<IF (2 * j) % 2 = 1 THEN m ELSE k, u[(2 * j + 1) \div 2]>>
    BY <1>2, <2>1
  <2> QED
    BY <2>1, <2>2
<1> QED
  BY <1>5, <1>6 DEF n, f

LEMMA OneOther ==
  ASSUME NEW s \in Subjects, NEW m \in Names \ {"transfer", "record"}
  PROVE  <<<<m, s>>>> \in Seq(OtherStatements)
<1> DEFINE y == <<m, s>>
<1>1. y \in OtherStatements
  BY OtherStatementOf
<1> HIDE DEF y
<1>2. <<y>> \in Seq(OtherStatements)
  BY <1>1
<1> QED
  BY <1>2 DEF y

LEMMA TwoOthers ==
  ASSUME NEW s \in Subjects, NEW m \in Names \ {"transfer", "record"},
         NEW k \in Names \ {"transfer", "record"}
  PROVE  /\ <<<<m, s>>, <<k, s>>>> \in Seq(OtherStatements)
         /\ Len(<<<<m, s>>, <<k, s>>>>) = 2
         /\ <<<<m, s>>, <<k, s>>>>[2] = <<k, s>>
<1> DEFINE y == <<m, s>>
           z == <<k, s>>
<1>1. y \in OtherStatements /\ z \in OtherStatements
  BY OtherStatementOf
<1> HIDE DEF y, z
<1>2. <<y, z>> \in Seq(OtherStatements) /\ Len(<<y, z>>) = 2 /\ <<y, z>>[2] = z
  BY <1>1, Two
<1> QED
  BY <1>2 DEF y, z

LEMMA ThreeOthers ==
  ASSUME NEW s \in Subjects, NEW l \in Names \ {"transfer", "record"},
         NEW m \in Names \ {"transfer", "record"}, NEW k \in Names \ {"transfer", "record"}
  PROVE  <<<<l, s>>, <<m, s>>, <<k, s>>>> \in Seq(OtherStatements)
<1> DEFINE x == <<l, s>>
           y == <<m, s>>
           z == <<k, s>>
<1>1. x \in OtherStatements /\ y \in OtherStatements /\ z \in OtherStatements
  BY OtherStatementOf
<1> HIDE DEF x, y, z
<1>2. <<x, y, z>> \in Seq(OtherStatements)
  BY <1>1
<1> QED
  BY <1>2 DEF x, y, z

LEMMA JoinIn ==
  ASSUME NEW S, NEW u \in Seq(S), NEW v \in Seq(S)
  PROVE  u \o v \in Seq(S)
  OBVIOUS

(* No other program touches an owner row but to make one, and each makes   *)
(* one for all its children.                                               *)
LEMMA OtherProgram ==
  ASSUME NEW req \in Requests, req.op # "transfer"
  PROVE  /\ Program(req) \in Seq(OtherStatements)
         /\ \A t \in Children(req) : Inits(Program(req), t)
<1> DEFINE s == req.subject
           O == Seq(OtherStatements)
<1>1. /\ s \in Subjects /\ req.op \in {"create", "custody", "split", "merge"}
      /\ req.op = "split" => req.children \in Seq(Batches)
      /\ req.op = "merge" => req.parents \in Seq(Batches)
  BY RequestsAssumption
<1>2. \A name \in Names \ {"transfer", "record"} : <<name, s>> \in OtherStatements
  BY <1>1, OtherStatementOf
<1>3. {"absent", "authorize", "own", "holder", "custodian", "state", "find", "mark",
       "custody", "retire", "save", "init"} = Names \ {"transfer", "record"}
  BY DEF Names
<1>4. Transition(s, req) \in O
  <2>1. <<<<"find", s>>, <<"mark", s>>>> \in O
    BY <1>1, <1>3, TwoOthers
  <2>2. <<>> \in O
    OBVIOUS
  <2> QED
    BY <2>1, <2>2 DEF Transition
<1>5. CASE req.op = "create"
  <2> DEFINE u == <<<<"absent", s>>, <<"save", s>>, <<"init", s>>>>
  <2>1. u \in O
    BY <1>1, <1>3, ThreeOthers
  <2> HIDE DEF u
  <2>2. u \o Transition(s, req) \in O
    BY <1>4, <2>1, JoinIn
  <2>3. Program(req) \in {u, u \o Transition(s, req)}
    BY <1>1, <1>5 DEF Program, CreateBatch, CreateItem, Subjects, u
  <2>4. Children(req) = {}
    BY <1>5 DEF Children
  <2> QED
    BY <2>1, <2>2, <2>3, <2>4
<1>6. CASE req.op = "custody"
  <2> DEFINE u == <<<<"holder", s>>, <<"custodian", s>>>>
             v == StateRead(s, req)
             w == CustodyChange(s)
             d == Transition(s, req)
  <2>1. u \in O /\ w \in O
    BY <1>1, <1>3, TwoOthers DEF CustodyChange
  <2>2. v \in O
    <3>1. <<<<"state", s>>>> \in O /\ <<>> \in O
      BY <1>1, <1>3, OneOther
    <3> QED
      BY <3>1 DEF StateRead
  <2>3. Program(req) = ((u \o v) \o w) \o d
    BY <1>6 DEF Program, UpdateCustody
  <2> HIDE DEF u, v, w, d
  <2>4. d \in O
    BY <1>4 DEF d
  <2>5. u \o v \in O
    BY <2>1, <2>2, JoinIn
  <2>6. (u \o v) \o w \in O
    BY <2>1, <2>5, JoinIn
  <2>7. ((u \o v) \o w) \o d \in O
    BY <2>4, <2>6, JoinIn
  <2>8. Children(req) = {}
    BY <1>6 DEF Children
  <2> QED
    BY <2>3, <2>7, <2>8
<1>7. CASE req.op = "split"
  <2> DEFINE u == <<<<"find", s>>, <<"authorize", s>>, <<"retire", s>>>>
             v == ForEachTwo(req.children, "save", "init")
             n == Len(req.children)
  <2>1. u \in O
    BY <1>1, <1>3, ThreeOthers
  <2>2. /\ v \in O /\ Len(v) = 2 * n /\ n \in Nat /\ DOMAIN req.children = 1 .. n
        /\ \A j \in 1 .. n : 2 * j \in 1 .. 2 * n /\ v[2 * j] = <<"init", req.children[j]>>
    <3>1. "save" \in Names \ {"transfer", "record"} /\ "init" \in Names \ {"transfer", "record"}
      BY <1>3
    <3>2. req.children \in Seq(Batches)
      BY <1>1, <1>7
    <3> QED
      BY <3>1, <3>2, ForEachTwoProgram
  <2>3. Program(req) = u \o v
    BY <1>7 DEF Program, SplitBatch
  <2> HIDE DEF u, v, n
  <2>4. Joined(u, v, OtherStatements)
    BY <2>1, <2>2, Concatenate
  <2>5. ASSUME NEW t \in Children(req) PROVE Inits(u \o v, t)
    <3>1. PICK j \in 1 .. n : t = req.children[j]
      BY <1>7, <2>2 DEF Children
    <3>2. (u \o v)[Len(u) + 2 * j] = <<"init", t>>
      BY <2>2, <2>4, <3>1 DEF Joined
    <3>3. Len(u) + 2 * j \in 1 .. Len(u \o v)
      BY <2>2, <2>4, <3>1 DEF Joined
    <3> QED
      BY <3>2, <3>3 DEF Inits
  <2> QED
    BY <2>3, <2>4, <2>5 DEF Joined
<1>8. CASE req.op = "merge"
  <2> DEFINE u == ForEachTwo(req.parents, "find", "authorize")
             v == ForEach(req.parents, "retire")
             w == <<<<"save", s>>, <<"init", s>>>>
  <2>1. u \in O /\ v \in O
    <3>1. {"find", "authorize", "retire"} \subseteq Names \ {"transfer", "record"}
      BY <1>3
    <3>2. req.parents \in Seq(Batches)
      BY <1>1, <1>8
    <3>3. u \in O
      BY <3>1, <3>2, ForEachTwoProgram
    <3>4. v \in O
      BY <3>1, <3>2, ForEachProgram
    <3> QED
      BY <3>3, <3>4
  <2>2. w \in O /\ Len(w) = 2 /\ w[2] = <<"init", s>>
    BY <1>1, <1>3, TwoOthers
  <2>3. Program(req) = (u \o v) \o w
    BY <1>8 DEF Program, MergeBatch
  <2> HIDE DEF u, v, w
  <2> DEFINE z == u \o v
  <2>4. z \in O
    BY <2>1, JoinIn
  <2> HIDE DEF z
  <2>5. Joined(z, w, OtherStatements)
    BY <2>2, <2>4, Concatenate
  <2>6. Inits(z \o w, s)
    <3>1. Len(z) + 2 \in 1 .. Len(z \o w) /\ (z \o w)[Len(z) + 2] = <<"init", s>>
      BY <2>2, <2>5 DEF Joined
    <3> QED
      BY <3>1 DEF Inits
  <2>7. Children(req) = {s}
    BY <1>8 DEF Children
  <2> QED
    BY <2>3, <2>5, <2>6, <2>7 DEF Joined, z
<1> QED
  BY <1>1, <1>5, <1>6, <1>7, <1>8
-----------------------------------------------------------------------------
(* The invariant.                                                          *)

CallOf(a, b, c, d, e, f, g, h, i, j) ==
  [status |-> a, req |-> b, todo |-> c, now |-> d, own |-> e, goods |-> f, from |-> g,
   held |-> h, serial |-> i, writes |-> j]

\* A call is a record, and its writes a function on the rows.
Shape(call) ==
  /\ call = CallOf(call.status, call.req, call.todo, call.now, call.own, call.goods,
                   call.from, call.held, call.serial, call.writes)
  /\ call.writes = [r \in Rows |-> call.writes[r]]

\* The owner row of s that a call has written.
Written(call, s) == call.writes[<<"owner", s>>]

\* How many statements of its program a call has done.
Place(call) == Len(Program(call.req)) - Len(call.todo)

Ahead(call) ==
  /\ call.todo \in Seq(Statements) /\ Len(call.todo) <= Len(Program(call.req))
  /\ \A i \in 1 .. Len(call.todo) : call.todo[i] = Program(call.req)[Place(call) + i]

\* What a transfer has by the statement it is at: an owner to take the goods
\* from, the row it writes instead, and a serial above all of its subject.
TransferKnows(call, rows, log, ser) ==
  LET s == call.req.subject
      k == Place(call)
      x == TransferAt(call.req)
  IN
  /\ Ahead(call)
  /\ \A t \in Subjects : Written(call, t) # Unwritten => t = s
  /\ k >= 1 => rows[<<"owner", s>>] # None
  /\ k >= 2 => call.own \in OwnerRows
  /\ k < x => Written(call, s) = Unwritten
  /\ k >= x => Written(call, s) = [owner |-> call.req.to, count |-> call.own.count + 1]
  /\ k > x => /\ call.serial \in Nat /\ call.serial <= ser
              /\ \A r \in log : r.subject = s => r.serial < call.serial

\* Any other call writes owner rows only where there are none, and has made
\* one, or is about to, for each of its children.
OtherKnows(call, rows) ==
  /\ call.todo \in Seq(OtherStatements)
  /\ \A t \in Subjects : Written(call, t) # Unwritten =>
       rows[<<"owner", t>>] = None /\ Written(call, t) \in OwnerRows
  /\ \A t \in Children(call.req) : Written(call, t) # Unwritten \/ Inits(call.todo, t)

Knows(call, rows, log, ser) ==
  /\ Shape(call)
  /\ call.status # "open" => \A t \in Subjects : Written(call, t) = Unwritten
  /\ call.status = "open" =>
       /\ call.req \in Requests
       /\ call.req.op = "transfer" => TransferKnows(call, rows, log, ser)
       /\ call.req.op # "transfer" => OtherKnows(call, rows)

TablesInv(rows, log, edges, ser) ==
  /\ ser \in Nat
  /\ \A s \in Subjects : rows[<<"owner", s>>] \in OwnerRows \cup {None}
  /\ \A r \in log : /\ r.subject \in Subjects /\ rows[<<"owner", r.subject>>] # None
                    /\ r.serial \in Nat /\ r.serial <= ser
  /\ \A e \in edges : e.child \in Subjects /\ rows[<<"owner", e.child>>] # None

OneWriter == \A c, d \in Calls, t \in Subjects :
  Written(calls[c], t) # Unwritten /\ Written(calls[d], t) # Unwritten => c = d

Inv == /\ calls = [c \in Calls |-> calls[c]]
       /\ TablesInv(db, transfers, lineage, serial)
       /\ \A c \in Calls : Knows(calls[c], db, transfers, serial)
       /\ OneWriter
       /\ OwnerIsLastReceiver
       /\ OriginIsUnique
-----------------------------------------------------------------------------
(* One call takes a step.                                                  *)

LEMMA WritersOf ==
  ASSUME NEW c \in Calls, NEW s \in Subjects
  PROVE  c \in Writers("owner", s) <=> Written(calls[c], s) # Unwritten
  BY DEF Writers, Written

\* What a call knows stays true when serials are drawn.
LEMMA KnowsLater ==
  ASSUME NEW call, NEW rows, NEW log, NEW ser \in Nat, NEW later \in Nat, ser <= later,
         Knows(call, rows, log, ser)
  PROVE  Knows(call, rows, log, later)
<1>1. TransferKnows(call, rows, log, ser) => TransferKnows(call, rows, log, later)
  BY DEF TransferKnows
<1> QED
  BY <1>1 DEF Knows

(* A step of one call, which writes an owner row only if no other call has *)
(* written it, and knows afterwards what it has to.                        *)
LEMMA OneCallSteps ==
  ASSUME Inv, NEW c \in Calls, NEW new, Become(c, new),
         UNCHANGED tables, serial' \in Nat, serial <= serial',
         Knows(new, db, transfers, serial'),
         \A t \in Subjects : Written(new, t) # Unwritten => Writers("owner", t) \subseteq {c}
  PROVE  Inv'
<1>1. /\ calls' = [d \in Calls |-> calls'[d]] /\ calls'[c] = new
      /\ \A d \in Calls : d # c => calls'[d] = calls[d]
  BY DEF Inv, Become
<1>2. TablesInv(db', transfers', lineage', serial')
  BY DEF Inv, TablesInv, tables
<1>3. ASSUME NEW d \in Calls PROVE Knows(calls'[d], db', transfers', serial')
  <2>1. CASE d = c
    BY <1>1, <2>1 DEF tables
  <2>2. CASE d # c
    <3>1. Knows(calls[d], db, transfers, serial) /\ serial \in Nat
      BY DEF Inv, TablesInv
    <3>2. Knows(calls[d], db, transfers, serial')
      BY <3>1, KnowsLater
    <3> QED
      BY <1>1, <2>2, <3>2 DEF tables
  <2> QED
    BY <2>1, <2>2
<1>4. OneWriter'
  <2> SUFFICES ASSUME NEW a \in Calls, NEW b \in Calls, NEW t \in Subjects,
                      Written(calls'[a], t) # Unwritten, Written(calls'[b], t) # Unwritten
               PROVE  a = b
    BY DEF OneWriter, Written
  <2>1. CASE a # c /\ b # c
    BY <1>1, <2>1 DEF Inv, OneWriter
  <2>2. CASE a = c /\ b # c
    <3>1. Writers("owner", t) \subseteq {c} /\ Written(calls[b], t) # Unwritten
      BY <1>1, <2>2
    <3> QED
      BY <2>2, <3>1, WritersOf
  <2>3. CASE a # c /\ b = c
    <3>1. Writers("owner", t) \subseteq {c} /\ Written(calls[a], t) # Unwritten
      BY <1>1, <2>3
    <3> QED
      BY <2>3, <3>1, WritersOf
  <2> QED
    BY <2>1, <2>2, <2>3
<1>5. OwnerIsLastReceiver' /\ OriginIsUnique'
  BY DEF Inv, OwnerIsLastReceiver, OriginIsUnique, History, tables
<1> QED
  BY <1>1, <1>2, <1>3, <1>4, <1>5 DEF Inv

LEMMA NoWritesAre ==
  ASSUME NEW s \in Subjects
  PROVE  NoWrites[<<"owner", s>>] = Unwritten /\ NoWrites = [r \in Rows |-> NoWrites[r]]
  BY DEF NoWrites, Rows

LEMMA Parts ==
  ASSUME NEW a, NEW b, NEW c, NEW d, NEW e, NEW f, NEW g, NEW h, NEW i, NEW j,
         NEW call, call = CallOf(a, b, c, d, e, f, g, h, i, j)
  PROVE  /\ call.status = a /\ call.req = b /\ call.todo = c /\ call.now = d
         /\ call.own = e /\ call.goods = f /\ call.from = g /\ call.held = h
         /\ call.serial = i /\ call.writes = j
  BY DEF CallOf

LEMMA Ended ==
  ASSUME NEW rows, NEW log, NEW ser
  PROVE  LET e == [Unborn EXCEPT !.status = "ended"]
         IN Knows(e, rows, log, ser) /\ \A t \in Subjects : Written(e, t) = Unwritten
<1> DEFINE e == [Unborn EXCEPT !.status = "ended"]
<1>1. /\ e = [status |-> "ended", req |-> None, todo |-> <<>>, now |-> 0, own |-> None,
              goods |-> [s \in Subjects |-> None], from |-> None, held |-> None,
              serial |-> 0, writes |-> NoWrites]
  BY DEF Unborn
<1> HIDE DEF e
<1>2. NoWrites = [r \in Rows |-> NoWrites[r]]
  BY DEF NoWrites
<1>a. e = CallOf("ended", None, <<>>, 0, None, [s \in Subjects |-> None], None, None, 0, NoWrites)
  BY <1>1 DEF CallOf
<1>b. /\ e.status = "ended" /\ e.req = None /\ e.todo = <<>> /\ e.now = 0 /\ e.own = None
      /\ e.goods = [s \in Subjects |-> None] /\ e.from = None /\ e.held = None
      /\ e.serial = 0 /\ e.writes = NoWrites
  BY <1>a, Parts
<1>3. Shape(e) /\ e.status = "ended" /\ e.writes = NoWrites
  BY <1>a, <1>b, <1>2 DEF Shape
<1>4. \A t \in Subjects : Written(e, t) = Unwritten
  BY <1>3, NoWritesAre DEF Written
<1> QED
  BY <1>3, <1>4 DEF Knows, e

LEMMA RejectInv ==
  ASSUME Inv, NEW c \in Calls, Reject(c), UNCHANGED <<tables, serial, begun>>
  PROVE  Inv'
<1> DEFINE e == [Unborn EXCEPT !.status = "ended"]
<1>1. Become(c, e)
  BY DEF Reject, End
<1>2. UNCHANGED tables /\ serial' \in Nat /\ serial <= serial'
  BY DEF Inv, TablesInv
<1>3. Knows(e, db, transfers, serial') /\ \A t \in Subjects : Written(e, t) = Unwritten
  BY Ended
<1> HIDE DEF e
<1> QED
  BY <1>1, <1>2, <1>3, OneCallSteps
-----------------------------------------------------------------------------
(* A statement of a program.                                               *)

LEMMA TransferPlaces ==
  ASSUME NEW req \in Requests, req.op = "transfer", NEW i \in 1 .. Len(Program(req))
  PROVE  LET x == TransferAt(req)  y == Program(req)[i]
         IN  /\ x \in {3, 4} /\ y \in Statements /\ y[2] = req.subject
             /\ y[1] = "authorize" <=> i = 1
             /\ y[1] = "own" <=> i = 2
             /\ y[1] = "transfer" <=> i = x
             /\ y[1] = "record" <=> i = x + 1
             /\ y[1] \notin {"init", "holder"}
<1> DEFINE p == Program(req)
           x == TransferAt(req)
<1>1. /\ p \in Seq(Statements) /\ Len(p) >= x + 1
      /\ \A j \in 1 .. Len(p) : p[j][2] = req.subject
      /\ p[1][1] = "authorize" /\ p[2][1] = "own"
      /\ x = 4 => p[3][1] = "state"
      /\ p[x][1] = "transfer" /\ p[x + 1][1] = "record"
      /\ \A j \in x + 2 .. Len(p) : p[j][1] \in {"find", "mark", "custodian", "custody"}
  BY TransferProgram
<1>2. x \in {3, 4}
  BY DEF TransferAt
<1> HIDE DEF p, x
<1>3. i \in 1 .. Len(p)
  BY DEF p
<1>4. p[i] \in Statements /\ p[i][2] = req.subject
  BY <1>1, <1>3
<1>5. i = 1 \/ i = 2 \/ (i = 3 /\ x = 4) \/ i = x \/ i = x + 1 \/ i \in x + 2 .. Len(p)
  BY <1>1, <1>2, <1>3
<1>6. CASE i = 1
  BY <1>1, <1>2, <1>4, <1>6 DEF p, x
<1>7. CASE i = 2
  BY <1>1, <1>2, <1>4, <1>7 DEF p, x
<1>8. CASE i = 3 /\ x = 4
  BY <1>1, <1>2, <1>4, <1>8 DEF p, x
<1>9. CASE i = x
  BY <1>1, <1>2, <1>4, <1>9 DEF p, x
<1>10. CASE i = x + 1
  BY <1>1, <1>2, <1>4, <1>10 DEF p, x
<1>11. CASE i \in x + 2 .. Len(p)
  <2>1. p[i][1] \in {"find", "mark", "custodian", "custody"} /\ i > x + 1 /\ i # 1 /\ i # 2
    BY <1>1, <1>2, <1>11
  <2>2. i # x /\ i # x + 1
    BY <1>2, <2>1
  <2> QED
    BY <1>2, <1>4, <2>1, <2>2 DEF p, x
<1> QED
  BY <1>5, <1>6, <1>7, <1>8, <1>9, <1>10, <1>11

LEMMA TailOf ==
  ASSUME NEW S, NEW u \in Seq(S), u # <<>>
  PROVE  /\ Head(u) \in S /\ Head(u) = u[1] /\ 1 \in 1 .. Len(u)
         /\ Tail(u) \in Seq(S) /\ Len(Tail(u)) = Len(u) - 1 /\ Len(u) \in Nat
         /\ \A i \in 1 .. Len(Tail(u)) : i + 1 \in 1 .. Len(u) /\ Tail(u)[i] = u[i + 1]
  OBVIOUS

LEMMA AheadByOne ==
  ASSUME NEW call, Ahead(call), call.todo # <<>>, Program(call.req) \in Seq(Statements),
         NEW new, new.req = call.req, new.todo = Tail(call.todo)
  PROVE  /\ Ahead(new) /\ Place(call) \in Nat /\ Place(new) = Place(call) + 1
         /\ Place(new) \in 1 .. Len(Program(call.req))
         /\ Head(call.todo) = Program(call.req)[Place(new)]
<1> DEFINE p == Program(call.req)
           u == call.todo
           v == Tail(call.todo)
           k == Len(p) - Len(u)
<1>1. /\ u \in Seq(Statements) /\ u # <<>> /\ Len(u) <= Len(p) /\ p \in Seq(Statements)
      /\ \A i \in 1 .. Len(u) : u[i] = p[k + i]
  BY DEF Ahead, Place
<1>2. /\ v \in Seq(Statements) /\ Len(v) = Len(u) - 1 /\ Len(u) \in Nat /\ 1 \in 1 .. Len(u)
      /\ Head(u) = u[1] /\ \A i \in 1 .. Len(v) : i + 1 \in 1 .. Len(u) /\ v[i] = u[i + 1]
  BY <1>1, TailOf
<1>3. Len(p) \in Nat
  BY <1>1
<1>4. Place(call) = k /\ Place(new) = Len(p) - Len(v) /\ new.todo = v /\ new.req = call.req
  BY DEF Place
<1> HIDE DEF p, u, v
<1>5. Len(u) >= 1
  BY <1>2
<1>6. k \in Nat /\ Len(p) - Len(v) = k + 1 /\ k + 1 \in 1 .. Len(p) /\ Len(v) <= Len(p)
  BY <1>1, <1>2, <1>3, <1>5
<1> HIDE DEF k
<1>7. Head(u) = p[k + 1]
  BY <1>1, <1>2
<1>8. ASSUME NEW i \in 1 .. Len(v)
      PROVE  v[i] = p[(k + 1) + i]
  <2>1. v[i] = p[k + (i + 1)]
    BY <1>1, <1>2
  <2>2. k + (i + 1) = (k + 1) + i
    BY <1>6
  <2> QED
    BY <2>1, <2>2
<1>9. Ahead(new)
  BY <1>2, <1>4, <1>6, <1>8 DEF Ahead, p
<1> QED
  BY <1>4, <1>6, <1>7, <1>9 DEF p, u

\* The call that has done one more statement.
GoesOn(call, new) == /\ Shape(new) /\ new.status = "open"
                      /\ new.req = call.req /\ new.todo = Tail(call.todo)

(* A transfer before and after a statement.                                *)
LEMMA TransferStatement ==
  ASSUME NEW call, NEW rows, NEW log, NEW ser, Knows(call, rows, log, ser),
         call.status = "open", call.todo # <<>>, call.req.op = "transfer",
         NEW new, GoesOn(call, new)
  PROVE  LET k == Place(call)  x == TransferAt(call.req)  y == Head(call.todo)
         IN  /\ call.req \in Requests /\ TransferKnows(call, rows, log, ser)
             /\ Ahead(new) /\ k \in Nat /\ Place(new) = k + 1 /\ x \in {3, 4}
             /\ y \in Statements /\ y[2] = call.req.subject
             /\ y[1] = "authorize" <=> k = 0
             /\ y[1] = "own" <=> k = 1
             /\ y[1] = "transfer" <=> k + 1 = x
             /\ y[1] = "record" <=> k = x
             /\ y[1] \notin {"init", "holder"}
<1>1. call.req \in Requests /\ TransferKnows(call, rows, log, ser)
  BY DEF Knows
<1>2. Ahead(call)
  BY <1>1 DEF TransferKnows
<1>3. Program(call.req) \in Seq(Statements)
  BY <1>1, TransferProgram
<1>4. /\ Ahead(new) /\ Place(call) \in Nat /\ Place(new) = Place(call) + 1
      /\ Place(new) \in 1 .. Len(Program(call.req))
      /\ Head(call.todo) = Program(call.req)[Place(new)]
  BY <1>2, <1>3, AheadByOne DEF GoesOn
<1> DEFINE i == Place(new)
           x == TransferAt(call.req)
           y == Head(call.todo)
           k == Place(call)
<1>5. /\ x \in {3, 4} /\ y \in Statements /\ y[2] = call.req.subject
      /\ y[1] = "authorize" <=> i = 1
      /\ y[1] = "own" <=> i = 2
      /\ y[1] = "transfer" <=> i = x
      /\ y[1] = "record" <=> i = x + 1
      /\ y[1] \notin {"init", "holder"}
  BY <1>1, <1>4, TransferPlaces
<1> HIDE DEF i, x, y, k
<1>6. k \in Nat /\ i = k + 1 /\ Ahead(new)
  BY <1>4 DEF i, k
<1>7. (i = 1 <=> k = 0) /\ (i = 2 <=> k = 1) /\ (i = x <=> k + 1 = x) /\ (i = x + 1 <=> k = x)
  BY <1>5, <1>6
<1>8. /\ y[1] = "authorize" <=> k = 0
      /\ y[1] = "own" <=> k = 1
      /\ y[1] = "transfer" <=> k + 1 = x
      /\ y[1] = "record" <=> k = x
  BY <1>5, <1>7
<1> QED
  BY <1>1, <1>4, <1>5, <1>6, <1>8 DEF i, x, y, k

(* Any other call before and after a statement.                            *)
LEMMA OtherStatement ==
  ASSUME NEW call, NEW rows, NEW log, NEW ser, Knows(call, rows, log, ser),
         call.status = "open", call.todo # <<>>, call.req.op # "transfer",
         NEW new, GoesOn(call, new)
  PROVE  LET y == Head(call.todo)
         IN  /\ call.req \in Requests /\ OtherKnows(call, rows)
             /\ y \in OtherStatements /\ y[1] \notin {"transfer", "record"}
             /\ y[2] \in Subjects /\ new.todo \in Seq(OtherStatements)
             /\ \A t \in Children(call.req) :
                  y # <<"init", t>> => Written(call, t) # Unwritten \/ Inits(new.todo, t)
<1>1. call.req \in Requests /\ OtherKnows(call, rows)
  BY DEF Knows
<1> DEFINE u == call.todo
           y == Head(u)
<1>2. u \in Seq(OtherStatements) /\ u # <<>> /\ new.todo = Tail(u)
  BY <1>1 DEF OtherKnows, GoesOn
<1> HIDE DEF u
<1>3. /\ y \in OtherStatements /\ y = u[1] /\ new.todo \in Seq(OtherStatements)
      /\ Len(new.todo) = Len(u) - 1 /\ Len(u) \in Nat
      /\ \A i \in 1 .. Len(new.todo) : new.todo[i] = u[i + 1]
  BY <1>2, TailOf
<1>4. y[1] \notin {"transfer", "record"} /\ y[2] \in Subjects
  BY <1>3 DEF OtherStatements
<1> HIDE DEF y
<1>5. ASSUME NEW t \in Children(call.req), y # <<"init", t>>, Written(call, t) = Unwritten
      PROVE  Inits(new.todo, t)
  <2>1. PICK i \in 1 .. Len(u) : u[i] = <<"init", t>>
    BY <1>1, <1>5 DEF OtherKnows, Inits, u
  <2>2. i # 1
    BY <1>3, <1>5, <2>1
  <2>3. i - 1 \in 1 .. Len(new.todo) /\ (i - 1) + 1 = i
    BY <1>3, <2>1, <2>2
  <2>4. new.todo[i - 1] = <<"init", t>>
    BY <1>3, <2>1, <2>3
  <2> QED
    BY <2>3, <2>4 DEF Inits
<1> QED
  BY <1>1, <1>3, <1>4, <1>5 DEF y, u

(* A statement that writes no owner row, reads none that the call keeps,   *)
(* and draws no serial.  A transfer gets past authorize only if there is an *)
(* owner.                                                                  *)
LEMMA Quiet ==
  ASSUME NEW call, NEW rows, NEW log, NEW ser, Knows(call, rows, log, ser),
         call.status = "open", call.todo # <<>>,
         NEW new, GoesOn(call, new), new.serial = call.serial,
         \A t \in Subjects : Written(new, t) = Written(call, t),
         Head(call.todo)[1] \notin {"transfer", "record", "init"},
         call.req.op = "transfer" =>
           /\ Head(call.todo)[1] # "own" => new.own = call.own
           /\ Head(call.todo)[1] = "own" /\ rows[<<"owner", call.req.subject>>] # None =>
                new.own \in OwnerRows
           /\ Head(call.todo)[1] = "authorize" => rows[<<"owner", call.req.subject>>] # None
  PROVE  Knows(new, rows, log, ser)
<1>1. Shape(new) /\ new.status = "open" /\ new.req = call.req
  BY DEF GoesOn
<1>2. CASE call.req.op = "transfer"
  <2> DEFINE k == Place(call)
             x == TransferAt(call.req)
             s == call.req.subject
             y == Head(call.todo)
  <2>1. /\ call.req \in Requests /\ TransferKnows(call, rows, log, ser)
        /\ Ahead(new) /\ k \in Nat /\ Place(new) = k + 1 /\ x \in {3, 4}
        /\ y[1] = "authorize" <=> k = 0
        /\ y[1] = "own" <=> k = 1
        /\ y[1] = "transfer" <=> k + 1 = x
        /\ y[1] = "record" <=> k = x
    BY <1>2, TransferStatement
  <2>2. /\ \A t \in Subjects : Written(call, t) # Unwritten => t = s
        /\ k >= 1 => rows[<<"owner", s>>] # None
        /\ k >= 2 => call.own \in OwnerRows
        /\ k < x => Written(call, s) = Unwritten
        /\ k >= x => Written(call, s) = [owner |-> call.req.to, count |-> call.own.count + 1]
        /\ k > x => /\ call.serial \in Nat /\ call.serial <= ser
                    /\ \A r \in log : r.subject = s => r.serial < call.serial
    BY <2>1 DEF TransferKnows
  <2>3. s \in Subjects
    BY <2>1, RequestsAssumption
  <2>4. /\ y[1] # "own" => new.own = call.own
        /\ y[1] = "own" /\ rows[<<"owner", s>>] # None => new.own \in OwnerRows
        /\ y[1] = "authorize" => rows[<<"owner", s>>] # None
        /\ y[1] # "transfer" /\ y[1] # "record"
    BY <1>2
  <2> HIDE DEF k, x, s, y
  <2>5. k + 1 # x /\ k # x
    BY <2>1, <2>4
  <2>6. k >= 0 /\ (k + 1 < x => k < x) /\ (k + 1 >= x => k > x) /\ (k + 1 > x => k > x)
    BY <2>1, <2>5
  <2>7. k + 1 >= 1 => rows[<<"owner", s>>] # None
    <3>1. k = 0 \/ k >= 1
      BY <2>1
    <3> QED
      BY <2>1, <2>2, <2>4, <3>1
  <2>8. k + 1 >= 2 => new.own \in OwnerRows
    <3>1. k + 1 >= 2 => k = 1 \/ (k >= 2 /\ k # 1)
      BY <2>1
    <3>2. k + 1 >= 2 => k + 1 >= 1
      BY <2>1
    <3> QED
      BY <2>1, <2>2, <2>4, <2>7, <3>1, <3>2
  <2>9. k > x => new.own = call.own
    <3>1. k > x => k # 1
      BY <2>1
    <3> QED
      BY <2>1, <2>4, <3>1
  <2>10. k > x => k >= x
    BY <2>1
  <2>11. Written(new, s) = Written(call, s)
    BY <2>3
  <2>12. TransferKnows(new, rows, log, ser)
    <3>1. new.req.subject = s /\ Place(new) = k + 1 /\ TransferAt(new.req) = x
          /\ new.req.to = call.req.to
      BY <1>1, <2>1 DEF s, x
    <3>2. k + 1 < x => Written(new, s) = Unwritten
      BY <2>2, <2>6, <2>11
    <3>3. k + 1 >= x => Written(new, s) = [owner |-> new.req.to, count |-> new.own.count + 1]
      BY <2>2, <2>6, <2>9, <2>10, <2>11, <3>1
    <3>4. k + 1 > x => /\ new.serial \in Nat /\ new.serial <= ser
                       /\ \A r \in log : r.subject = s => r.serial < new.serial
      BY <2>2, <2>6
    <3>5. \A t \in Subjects : Written(new, t) # Unwritten => t = s
      BY <2>2
    <3> QED
      BY <2>1, <2>7, <2>8, <3>1, <3>2, <3>3, <3>4, <3>5 DEF TransferKnows
  <2> QED
    BY <1>1, <1>2, <2>1, <2>12 DEF Knows
<1>3. CASE call.req.op # "transfer"
  <2>1. /\ call.req \in Requests /\ OtherKnows(call, rows)
        /\ new.todo \in Seq(OtherStatements)
        /\ \A t \in Children(call.req) :
             Head(call.todo) # <<"init", t>> => Written(call, t) # Unwritten \/ Inits(new.todo, t)
    BY <1>3, OtherStatement
  <2>2. \A t \in Children(call.req) : t \in Subjects
    BY <2>1, RequestsAssumption DEF Children, Subjects
  <2>3. \A t : Head(call.todo) # <<"init", t>>
    OBVIOUS
  <2>4. OtherKnows(new, rows)
    BY <1>1, <2>1, <2>2, <2>3 DEF OtherKnows
  <2> QED
    BY <1>1, <1>3, <2>1, <2>4 DEF Knows
<1> QED
  BY <1>2, <1>3

(* The write of the owner row.                                             *)
LEMMA TransferWrites ==
  ASSUME NEW call, NEW rows, NEW log, NEW ser, Knows(call, rows, log, ser),
         call.status = "open", call.todo # <<>>,
         NEW new, GoesOn(call, new), new.own = call.own,
         Head(call.todo)[1] = "transfer",
         \A t \in Subjects : Written(new, t) =
           IF t = Head(call.todo)[2] THEN [owner |-> call.req.to, count |-> call.own.count + 1]
           ELSE Written(call, t)
  PROVE  Knows(new, rows, log, ser)
<1>1. Shape(new) /\ new.status = "open" /\ new.req = call.req
  BY DEF GoesOn
<1>2. call.req.op = "transfer"
  <2>1. call.req.op # "transfer" => Head(call.todo)[1] \notin {"transfer", "record"}
    BY OtherStatement
  <2> QED
    BY <2>1
<1> DEFINE k == Place(call)
           x == TransferAt(call.req)
           s == call.req.subject
           y == Head(call.todo)
           row == [owner |-> call.req.to, count |-> call.own.count + 1]
<1>3. /\ call.req \in Requests /\ TransferKnows(call, rows, log, ser)
      /\ Ahead(new) /\ k \in Nat /\ Place(new) = k + 1 /\ x \in {3, 4}
      /\ y[2] = s /\ k + 1 = x
  BY <1>2, TransferStatement
<1>4. /\ \A t \in Subjects : Written(call, t) # Unwritten => t = s
      /\ k >= 1 => rows[<<"owner", s>>] # None
      /\ k >= 2 => call.own \in OwnerRows
  BY <1>3 DEF TransferKnows
<1>5. s \in Subjects
  BY <1>3, RequestsAssumption
<1>6. \A t \in Subjects : Written(new, t) = IF t = s THEN row ELSE Written(call, t)
  BY <1>3
<1>7. new.req.subject = s /\ TransferAt(new.req) = x /\ Place(new) = k + 1
      /\ row = [owner |-> new.req.to, count |-> new.own.count + 1]
  BY <1>1, <1>3
<1> HIDE DEF k, x, s, y, row
<1>8. k >= 1 /\ k >= 2 /\ ~(k + 1 < x) /\ ~(k + 1 > x) /\ k + 1 >= x
  BY <1>3
<1>9. TransferKnows(new, rows, log, ser)
  BY <1>1, <1>3, <1>4, <1>5, <1>6, <1>7, <1>8 DEF TransferKnows
<1> QED
  BY <1>1, <1>2, <1>3, <1>9 DEF Knows

(* The serial is drawn under the lock of the owner row.                    *)
LEMMA RecordDraws ==
  ASSUME NEW call, NEW rows, NEW log, NEW ser \in Nat, Knows(call, rows, log, ser),
         call.status = "open", call.todo # <<>>,
         NEW new, GoesOn(call, new), new.own = call.own, new.serial = ser + 1,
         Head(call.todo)[1] = "record",
         \A t \in Subjects : Written(new, t) = Written(call, t),
         \A r \in log : r.serial \in Nat /\ r.serial <= ser
  PROVE  Knows(new, rows, log, ser + 1)
<1>1. Shape(new) /\ new.status = "open" /\ new.req = call.req
  BY DEF GoesOn
<1>2. call.req.op = "transfer"
  <2>1. call.req.op # "transfer" => Head(call.todo)[1] \notin {"transfer", "record"}
    BY OtherStatement
  <2> QED
    BY <2>1
<1> DEFINE k == Place(call)
           x == TransferAt(call.req)
           s == call.req.subject
<1>3. /\ call.req \in Requests /\ TransferKnows(call, rows, log, ser)
      /\ Ahead(new) /\ k \in Nat /\ Place(new) = k + 1 /\ x \in {3, 4} /\ k = x
  BY <1>2, TransferStatement
<1>4. /\ \A t \in Subjects : Written(call, t) # Unwritten => t = s
      /\ k >= 1 => rows[<<"owner", s>>] # None
      /\ k >= 2 => call.own \in OwnerRows
      /\ k >= x => Written(call, s) = [owner |-> call.req.to, count |-> call.own.count + 1]
  BY <1>3 DEF TransferKnows
<1>5. s \in Subjects
  BY <1>3, RequestsAssumption
<1>6. new.req.subject = s /\ TransferAt(new.req) = x /\ Place(new) = k + 1
      /\ new.req.to = call.req.to
  BY <1>1, <1>3
<1>7. \A r \in log : r.serial < ser + 1
  OBVIOUS
<1> HIDE DEF k, x, s
<1>8. k >= 1 /\ k >= 2 /\ k >= x /\ ~(k + 1 < x)
  BY <1>3
<1>9. Written(new, s) = [owner |-> new.req.to, count |-> new.own.count + 1]
  BY <1>4, <1>5, <1>6, <1>8
<1>10. ser + 1 \in Nat /\ ser + 1 <= ser + 1
  OBVIOUS
<1>11. TransferKnows(new, rows, log, ser + 1)
  BY <1>3, <1>4, <1>6, <1>7, <1>8, <1>9, <1>10 DEF TransferKnows
<1> QED
  BY <1>1, <1>2, <1>3, <1>11 DEF Knows

(* An owner row is made where there is none.                               *)
LEMMA InitWrites ==
  ASSUME NEW call, NEW rows, NEW log, NEW ser, Knows(call, rows, log, ser),
         call.status = "open", call.todo # <<>>,
         NEW new, GoesOn(call, new), NEW row \in OwnerRows,
         Head(call.todo)[1] = "init", rows[<<"owner", Head(call.todo)[2]>>] = None,
         \A t \in Subjects : Written(new, t) =
           IF t = Head(call.todo)[2] THEN row ELSE Written(call, t)
  PROVE  Knows(new, rows, log, ser)
<1>1. Shape(new) /\ new.status = "open" /\ new.req = call.req
  BY DEF GoesOn
<1>2. call.req.op # "transfer"
  <2>1. call.req.op = "transfer" => Head(call.todo)[1] \notin {"init", "holder"}
    BY TransferStatement
  <2> QED
    BY <2>1
<1> DEFINE y == Head(call.todo)
<1>3. /\ call.req \in Requests /\ OtherKnows(call, rows)
      /\ y \in OtherStatements /\ new.todo \in Seq(OtherStatements)
      /\ \A t \in Children(call.req) :
           y # <<"init", t>> => Written(call, t) # Unwritten \/ Inits(new.todo, t)
  BY <1>2, OtherStatement
<1>4. \A t \in Children(call.req) : t \in Subjects
  BY <1>3, RequestsAssumption DEF Children, Subjects
<1>5. row # Unwritten
  BY RegistryAssumption
<1> HIDE DEF y
<1>6. \A t \in Subjects : Written(new, t) # Unwritten =>
        rows[<<"owner", t>>] = None /\ Written(new, t) \in OwnerRows
  BY <1>3, <1>5 DEF OtherKnows, y
<1>7. ASSUME NEW t \in Children(call.req)
      PROVE  Written(new, t) # Unwritten \/ Inits(new.todo, t)
  <2>1. CASE t = y[2]
    BY <1>4, <1>5, <2>1 DEF y
  <2>2. CASE t # y[2]
    <3>1. y # <<"init", t>>
      BY <2>2
    <3>2. Written(new, t) = Written(call, t)
      BY <1>4, <2>2 DEF y
    <3> QED
      BY <1>3, <3>1, <3>2
  <2> QED
    BY <2>1, <2>2
<1>8. OtherKnows(new, rows)
  BY <1>1, <1>3, <1>6, <1>7 DEF OtherKnows
<1> QED
  BY <1>1, <1>2, <1>3, <1>8 DEF Knows
-----------------------------------------------------------------------------
(* The record of a call after a statement.                                 *)

\* The statement of a call, if it is one of its program.
LEMMA StatementAt ==
  ASSUME NEW call, NEW rows, NEW log, NEW ser, Knows(call, rows, log, ser),
         call.status = "open", call.todo # <<>>
  PROVE  Shape(call) /\ call.req \in Requests /\ Head(call.todo)[2] \in Subjects
<1>1. Shape(call) /\ call.req \in Requests
  BY DEF Knows
<1>2. call.todo \in Seq(Statements) \/ call.todo \in Seq(OtherStatements)
  BY DEF Knows, TransferKnows, OtherKnows, Ahead
<1>3. Head(call.todo) \in Statements \/ Head(call.todo) \in OtherStatements
  BY <1>2, TailOf
<1> QED
  BY <1>1, <1>3 DEF Statements, OtherStatements

LEMMA Moved ==
  ASSUME NEW call, call.status = "open", NEW d, NEW e, NEW f, NEW g, NEW h, NEW i, NEW j,
         j = [r \in Rows |-> j[r]],
         NEW new, new = CallOf(call.status, call.req, Tail(call.todo), d, e, f, g, h, i, j)
  PROVE  /\ GoesOn(call, new) /\ new.now = d /\ new.own = e /\ new.goods = f
         /\ new.from = g /\ new.serial = i /\ new.writes = j
<1>1. /\ new.status = call.status /\ new.req = call.req /\ new.todo = Tail(call.todo)
      /\ new.now = d /\ new.own = e /\ new.goods = f /\ new.from = g /\ new.held = h
      /\ new.serial = i /\ new.writes = j
  BY Parts
<1>2. Shape(new)
  BY <1>1 DEF Shape
<1> QED
  BY <1>1, <1>2 DEF GoesOn

(* What a statement keeps of its call.                                     *)
Onwards(call)      == [call EXCEPT !.todo = Tail(call.todo)]
Owned(call, v)   == [[call EXCEPT !.own = v] EXCEPT !.todo = Tail(call.todo)]
Found(call, v)   == [[call EXCEPT !.goods = v] EXCEPT !.todo = Tail(call.todo)]
Known(call, v)   == [[call EXCEPT !.from = v] EXCEPT !.todo = Tail(call.todo)]
Held(call, v)    == [[call EXCEPT !.held = v] EXCEPT !.todo = Tail(call.todo)]
Drawn(call, v)   == [[call EXCEPT !.serial = v] EXCEPT !.todo = Tail(call.todo)]
Wrote(call, v)   == [[call EXCEPT !.writes = v] EXCEPT !.todo = Tail(call.todo)]

LEMMA OnwardsKeeps ==
  ASSUME NEW call, Shape(call), call.status = "open"
  PROVE  /\ GoesOn(call, Onwards(call)) /\ Onwards(call).now = call.now
         /\ Onwards(call).from = call.from
         /\ Onwards(call).own = call.own /\ Onwards(call).goods = call.goods
         /\ Onwards(call).serial = call.serial /\ Onwards(call).writes = call.writes
<1> DEFINE a == call.status
           b == call.req
           c == call.todo
           d == call.now
           e == call.own
           f == call.goods
           g == call.from
           h == call.held
           i == call.serial
           j == call.writes
           u == Tail(call.todo)
<1>1. call = CallOf(a, b, c, d, e, f, g, h, i, j) /\ j = [r \in Rows |-> j[r]]
  BY DEF Shape
<1>2. c = call.todo
  OBVIOUS
<1> HIDE DEF a, b, c, d, e, f, g, h, i, j, u
<1>4. [call EXCEPT !.todo = u] = CallOf(a, b, u, d, e, f, g, h, i, j)
  BY <1>1 DEF CallOf
<1>5. Onwards(call) = CallOf(a, b, u, d, e, f, g, h, i, j)
  BY <1>4 DEF Onwards, u
<1> HIDE DEF Onwards
<1>6. Onwards(call) = CallOf(call.status, call.req, Tail(call.todo), call.now, call.own,
                             call.goods, call.from, call.held, call.serial, call.writes)
  BY <1>5 DEF a, b, c, d, e, f, g, h, i, j, u
<1>7. call.writes = [r \in Rows |-> call.writes[r]]
  BY DEF Shape
<1> QED
  BY <1>6, <1>7, Moved

LEMMA OwnedKeeps ==
  ASSUME NEW call, Shape(call), call.status = "open", NEW v
  PROVE  /\ GoesOn(call, Owned(call, v)) /\ Owned(call, v).now = call.now
         /\ Owned(call, v).from = call.from
         /\ Owned(call, v).own = v /\ Owned(call, v).goods = call.goods
         /\ Owned(call, v).serial = call.serial /\ Owned(call, v).writes = call.writes
<1> DEFINE a == call.status
           b == call.req
           c == call.todo
           d == call.now
           e == call.own
           f == call.goods
           g == call.from
           h == call.held
           i == call.serial
           j == call.writes
           u == Tail(call.todo)
           mid == [call EXCEPT !.own = v]
<1>1. call = CallOf(a, b, c, d, e, f, g, h, i, j) /\ j = [r \in Rows |-> j[r]]
  BY DEF Shape
<1>2. c = call.todo
  OBVIOUS
<1> HIDE DEF a, b, c, d, e, f, g, h, i, j, u
<1>3. mid = CallOf(a, b, c, d, v, f, g, h, i, j)
  BY <1>1 DEF CallOf
<1> HIDE DEF mid
<1>4. [mid EXCEPT !.todo = u] = CallOf(a, b, u, d, v, f, g, h, i, j)
  BY <1>3 DEF CallOf
<1>5. Owned(call, v) = CallOf(a, b, u, d, v, f, g, h, i, j)
  BY <1>4 DEF Owned, mid, u
<1> HIDE DEF Owned
<1>6. Owned(call, v) = CallOf(call.status, call.req, Tail(call.todo), call.now, v,
                              call.goods, call.from, call.held, call.serial, call.writes)
  BY <1>5 DEF a, b, c, d, e, f, g, h, i, j, u
<1>7. call.writes = [r \in Rows |-> call.writes[r]]
  BY DEF Shape
<1> QED
  BY <1>6, <1>7, Moved

LEMMA FoundKeeps ==
  ASSUME NEW call, Shape(call), call.status = "open", NEW v
  PROVE  /\ GoesOn(call, Found(call, v)) /\ Found(call, v).now = call.now
         /\ Found(call, v).from = call.from
         /\ Found(call, v).own = call.own /\ Found(call, v).goods = v
         /\ Found(call, v).serial = call.serial /\ Found(call, v).writes = call.writes
<1> DEFINE a == call.status
           b == call.req
           c == call.todo
           d == call.now
           e == call.own
           f == call.goods
           g == call.from
           h == call.held
           i == call.serial
           j == call.writes
           u == Tail(call.todo)
           mid == [call EXCEPT !.goods = v]
<1>1. call = CallOf(a, b, c, d, e, f, g, h, i, j) /\ j = [r \in Rows |-> j[r]]
  BY DEF Shape
<1>2. c = call.todo
  OBVIOUS
<1> HIDE DEF a, b, c, d, e, f, g, h, i, j, u
<1>3. mid = CallOf(a, b, c, d, e, v, g, h, i, j)
  BY <1>1 DEF CallOf
<1> HIDE DEF mid
<1>4. [mid EXCEPT !.todo = u] = CallOf(a, b, u, d, e, v, g, h, i, j)
  BY <1>3 DEF CallOf
<1>5. Found(call, v) = CallOf(a, b, u, d, e, v, g, h, i, j)
  BY <1>4 DEF Found, mid, u
<1> HIDE DEF Found
<1>6. Found(call, v) = CallOf(call.status, call.req, Tail(call.todo), call.now, call.own,
                              v, call.from, call.held, call.serial, call.writes)
  BY <1>5 DEF a, b, c, d, e, f, g, h, i, j, u
<1>7. call.writes = [r \in Rows |-> call.writes[r]]
  BY DEF Shape
<1> QED
  BY <1>6, <1>7, Moved

LEMMA KnownKeeps ==
  ASSUME NEW call, Shape(call), call.status = "open", NEW v
  PROVE  /\ GoesOn(call, Known(call, v)) /\ Known(call, v).now = call.now
         /\ Known(call, v).from = v
         /\ Known(call, v).own = call.own /\ Known(call, v).goods = call.goods
         /\ Known(call, v).serial = call.serial /\ Known(call, v).writes = call.writes
<1> DEFINE a == call.status
           b == call.req
           c == call.todo
           d == call.now
           e == call.own
           f == call.goods
           g == call.from
           h == call.held
           i == call.serial
           j == call.writes
           u == Tail(call.todo)
           mid == [call EXCEPT !.from = v]
<1>1. call = CallOf(a, b, c, d, e, f, g, h, i, j) /\ j = [r \in Rows |-> j[r]]
  BY DEF Shape
<1>2. c = call.todo
  OBVIOUS
<1> HIDE DEF a, b, c, d, e, f, g, h, i, j, u
<1>3. mid = CallOf(a, b, c, d, e, f, v, h, i, j)
  BY <1>1 DEF CallOf
<1> HIDE DEF mid
<1>4. [mid EXCEPT !.todo = u] = CallOf(a, b, u, d, e, f, v, h, i, j)
  BY <1>3 DEF CallOf
<1>5. Known(call, v) = CallOf(a, b, u, d, e, f, v, h, i, j)
  BY <1>4 DEF Known, mid, u
<1> HIDE DEF Known
<1>6. Known(call, v) = CallOf(call.status, call.req, Tail(call.todo), call.now, call.own,
                              call.goods, v, call.held, call.serial, call.writes)
  BY <1>5 DEF a, b, c, d, e, f, g, h, i, j, u
<1>7. call.writes = [r \in Rows |-> call.writes[r]]
  BY DEF Shape
<1> QED
  BY <1>6, <1>7, Moved

LEMMA HeldKeeps ==
  ASSUME NEW call, Shape(call), call.status = "open", NEW v
  PROVE  /\ GoesOn(call, Held(call, v)) /\ Held(call, v).now = call.now
         /\ Held(call, v).from = call.from
         /\ Held(call, v).own = call.own /\ Held(call, v).goods = call.goods
         /\ Held(call, v).serial = call.serial /\ Held(call, v).writes = call.writes
<1> DEFINE a == call.status
           b == call.req
           c == call.todo
           d == call.now
           e == call.own
           f == call.goods
           g == call.from
           h == call.held
           i == call.serial
           j == call.writes
           u == Tail(call.todo)
           mid == [call EXCEPT !.held = v]
<1>1. call = CallOf(a, b, c, d, e, f, g, h, i, j) /\ j = [r \in Rows |-> j[r]]
  BY DEF Shape
<1>2. c = call.todo
  OBVIOUS
<1> HIDE DEF a, b, c, d, e, f, g, h, i, j, u
<1>3. mid = CallOf(a, b, c, d, e, f, g, v, i, j)
  BY <1>1 DEF CallOf
<1> HIDE DEF mid
<1>4. [mid EXCEPT !.todo = u] = CallOf(a, b, u, d, e, f, g, v, i, j)
  BY <1>3 DEF CallOf
<1>5. Held(call, v) = CallOf(a, b, u, d, e, f, g, v, i, j)
  BY <1>4 DEF Held, mid, u
<1> HIDE DEF Held
<1>6. Held(call, v) = CallOf(call.status, call.req, Tail(call.todo), call.now, call.own,
                             call.goods, call.from, v, call.serial, call.writes)
  BY <1>5 DEF a, b, c, d, e, f, g, h, i, j, u
<1>7. call.writes = [r \in Rows |-> call.writes[r]]
  BY DEF Shape
<1> QED
  BY <1>6, <1>7, Moved

LEMMA DrawnKeeps ==
  ASSUME NEW call, Shape(call), call.status = "open", NEW v
  PROVE  /\ GoesOn(call, Drawn(call, v)) /\ Drawn(call, v).now = call.now
         /\ Drawn(call, v).from = call.from
         /\ Drawn(call, v).own = call.own /\ Drawn(call, v).goods = call.goods
         /\ Drawn(call, v).serial = v /\ Drawn(call, v).writes = call.writes
<1> DEFINE a == call.status
           b == call.req
           c == call.todo
           d == call.now
           e == call.own
           f == call.goods
           g == call.from
           h == call.held
           i == call.serial
           j == call.writes
           u == Tail(call.todo)
           mid == [call EXCEPT !.serial = v]
<1>1. call = CallOf(a, b, c, d, e, f, g, h, i, j) /\ j = [r \in Rows |-> j[r]]
  BY DEF Shape
<1>2. c = call.todo
  OBVIOUS
<1> HIDE DEF a, b, c, d, e, f, g, h, i, j, u
<1>3. mid = CallOf(a, b, c, d, e, f, g, h, v, j)
  BY <1>1 DEF CallOf
<1> HIDE DEF mid
<1>4. [mid EXCEPT !.todo = u] = CallOf(a, b, u, d, e, f, g, h, v, j)
  BY <1>3 DEF CallOf
<1>5. Drawn(call, v) = CallOf(a, b, u, d, e, f, g, h, v, j)
  BY <1>4 DEF Drawn, mid, u
<1> HIDE DEF Drawn
<1>6. Drawn(call, v) = CallOf(call.status, call.req, Tail(call.todo), call.now, call.own,
                              call.goods, call.from, call.held, v, call.writes)
  BY <1>5 DEF a, b, c, d, e, f, g, h, i, j, u
<1>7. call.writes = [r \in Rows |-> call.writes[r]]
  BY DEF Shape
<1> QED
  BY <1>6, <1>7, Moved

LEMMA WroteKeeps ==
  ASSUME NEW call, Shape(call), call.status = "open", NEW v,
         v = [r \in Rows |-> v[r]]
  PROVE  /\ GoesOn(call, Wrote(call, v)) /\ Wrote(call, v).now = call.now
         /\ Wrote(call, v).from = call.from
         /\ Wrote(call, v).own = call.own /\ Wrote(call, v).goods = call.goods
         /\ Wrote(call, v).serial = call.serial /\ Wrote(call, v).writes = v
<1> DEFINE a == call.status
           b == call.req
           c == call.todo
           d == call.now
           e == call.own
           f == call.goods
           g == call.from
           h == call.held
           i == call.serial
           j == call.writes
           u == Tail(call.todo)
           mid == [call EXCEPT !.writes = v]
<1>1. call = CallOf(a, b, c, d, e, f, g, h, i, j) /\ j = [r \in Rows |-> j[r]]
  BY DEF Shape
<1>2. c = call.todo
  OBVIOUS
<1> HIDE DEF a, b, c, d, e, f, g, h, i, j, u
<1>3. mid = CallOf(a, b, c, d, e, f, g, h, i, v)
  BY <1>1 DEF CallOf
<1> HIDE DEF mid
<1>4. [mid EXCEPT !.todo = u] = CallOf(a, b, u, d, e, f, g, h, i, v)
  BY <1>3 DEF CallOf
<1>5. Wrote(call, v) = CallOf(a, b, u, d, e, f, g, h, i, v)
  BY <1>4 DEF Wrote, mid, u
<1> HIDE DEF Wrote
<1>6. Wrote(call, v) = CallOf(call.status, call.req, Tail(call.todo), call.now, call.own,
                              call.goods, call.from, call.held, call.serial, v)
  BY <1>5 DEF a, b, c, d, e, f, g, h, i, j, u
<1>7. v = [r \in Rows |-> v[r]]
  BY DEF Shape
<1> QED
  BY <1>6, <1>7, Moved

\* The writes of a call after one more.
Put(writes, r, row) == [writes EXCEPT ![r] = row]

LEMMA PutsRow ==
  ASSUME NEW call, Shape(call), NEW r \in Rows, NEW row, NEW s \in Subjects
  PROVE  Put(call.writes, r, row)[<<"owner", s>>] =
           IF r = <<"owner", s>> THEN row ELSE Written(call, s)
<1> DEFINE o == <<"owner", s>>
           w == call.writes
<1>1. o \in Rows
  BY DEF Rows
<1>2. DOMAIN w = Rows
  BY DEF Shape
<1> HIDE DEF o, w
<1>3. Put(w, r, row)[o] = IF r = o THEN row ELSE w[o]
  BY <1>1, <1>2 DEF Put
<1> QED
  BY <1>3 DEF o, w, Written

LEMMA OtherRowWritten ==
  ASSUME NEW call, Shape(call), NEW r \in Rows, r[1] # "owner", NEW row,
         NEW new, new.writes = Put(call.writes, r, row)
  PROVE  \A t \in Subjects : Written(new, t) = Written(call, t)
<1> TAKE t \in Subjects
<1>1. r # <<"owner", t>>
  OBVIOUS
<1> QED
  BY <1>1, PutsRow DEF Written

LEMMA OwnerRowWritten ==
  ASSUME NEW call, Shape(call), NEW s \in Subjects, NEW row,
         NEW new, new.writes = Put(call.writes, <<"owner", s>>, row)
  PROVE  \A t \in Subjects : Written(new, t) = IF t = s THEN row ELSE Written(call, t)
<1> TAKE t \in Subjects
<1> DEFINE o == <<"owner", s>>
<1>1. o = <<"owner", t>> <=> t = s
  OBVIOUS
<1>2. o \in Rows
  BY DEF Rows
<1> HIDE DEF o
<1>3. Put(call.writes, o, row)[<<"owner", t>>]
        = IF o = <<"owner", t>> THEN row ELSE Written(call, t)
  BY <1>2, PutsRow
<1> QED
  BY <1>1, <1>3 DEF Written, o
-----------------------------------------------------------------------------
(* The statements, one by one.                                             *)

LEMMA ReadOwner ==
  ASSUME NEW c \in Calls, NEW s \in Subjects
  PROVE  Read(c, "owner", s) =
           IF Written(calls[c], s) = Unwritten THEN db[<<"owner", s>>] ELSE Written(calls[c], s)
  BY DEF Read, Written

LEMMA AtStatement ==
  ASSUME Inv, NEW c \in Calls, NEW name, At(c, name)
  PROVE  /\ calls[c].status = "open" /\ calls[c].todo # <<>> /\ Head(calls[c].todo)[1] = name
         /\ Knows(calls[c], db, transfers, serial) /\ Shape(calls[c])
         /\ calls[c].req \in Requests /\ Subject(c) \in Subjects
         /\ Subject(c) = Head(calls[c].todo)[2]
<1>1. /\ calls[c].status = "open" /\ calls[c].todo # <<>> /\ Head(calls[c].todo)[1] = name
      /\ Knows(calls[c], db, transfers, serial)
  BY DEF At, Open, Inv
<1> QED
  BY <1>1, StatementAt DEF Subject

\* What a transfer reads before it writes is the committed owner row.
LEMMA TransferReads ==
  ASSUME Inv, NEW c \in Calls, NEW name \in {"authorize", "own"}, At(c, name),
         calls[c].req.op = "transfer"
  PROVE  /\ Subject(c) = calls[c].req.subject
         /\ Read(c, "owner", Subject(c)) = db[<<"owner", calls[c].req.subject>>]
<1> DEFINE call == calls[c]
<1>1. /\ call.status = "open" /\ call.todo # <<>> /\ Head(call.todo)[1] = name
      /\ Knows(call, db, transfers, serial) /\ Shape(call) /\ Subject(c) \in Subjects
      /\ Subject(c) = Head(call.todo)[2]
  BY AtStatement
<1>2. GoesOn(call, Onwards(call))
  BY <1>1, OnwardsKeeps
<1>3. /\ TransferKnows(call, db, transfers, serial) /\ Place(call) \in Nat
      /\ TransferAt(call.req) \in {3, 4} /\ Head(call.todo)[2] = call.req.subject
      /\ Head(call.todo)[1] = "authorize" <=> Place(call) = 0
      /\ Head(call.todo)[1] = "own" <=> Place(call) = 1
  BY <1>1, <1>2, TransferStatement
<1>4. Place(call) < TransferAt(call.req)
  BY <1>1, <1>3
<1>5. Written(call, Subject(c)) = Unwritten
  BY <1>1, <1>3, <1>4 DEF TransferKnows
<1> QED
  BY <1>1, <1>3, <1>5, ReadOwner

LEMMA QuietStep ==
  ASSUME Inv, NEW c \in Calls, calls[c].status = "open", calls[c].todo # <<>>,
         NEW new, GoesOn(calls[c], new), new.serial = calls[c].serial,
         \A t \in Subjects : Written(new, t) = Written(calls[c], t),
         Head(calls[c].todo)[1] \notin {"transfer", "record", "init"},
         calls[c].req.op = "transfer" =>
           /\ Head(calls[c].todo)[1] # "own" => new.own = calls[c].own
           /\ Head(calls[c].todo)[1] = "own" /\ db[<<"owner", calls[c].req.subject>>] # None =>
                new.own \in OwnerRows
           /\ Head(calls[c].todo)[1] = "authorize" =>
                db[<<"owner", calls[c].req.subject>>] # None,
         Become(c, new), UNCHANGED <<tables, serial, begun>>
  PROVE  Inv'
<1>1. Knows(calls[c], db, transfers, serial) /\ serial \in Nat
  BY DEF Inv, TablesInv
<1>2. Knows(new, db, transfers, serial)
  BY <1>1, Quiet
<1>3. ASSUME NEW t \in Subjects, Written(new, t) # Unwritten
      PROVE  Writers("owner", t) \subseteq {c}
  BY <1>3, WritersOf DEF Inv, OneWriter, Writers
<1>4. UNCHANGED tables /\ serial' = serial /\ serial <= serial'
  BY <1>1
<1> QED
  BY <1>1, <1>2, <1>3, <1>4, OneCallSteps

\* As above, of a statement that leaves the writes and the owner read alone.
LEMMA QuietRead ==
  ASSUME Inv, NEW c \in Calls, NEW name,
         name \notin {"transfer", "record", "init", "own", "authorize"},
         At(c, name), NEW new, GoesOn(calls[c], new), new.serial = calls[c].serial,
         calls[c].req.op = "transfer" => new.own = calls[c].own,
         new.writes = calls[c].writes,
         Become(c, new), UNCHANGED <<tables, serial, begun>>
  PROVE  Inv'
<1>1. calls[c].status = "open" /\ calls[c].todo # <<>> /\ Head(calls[c].todo)[1] = name
  BY AtStatement
<1>2. \A t \in Subjects : Written(new, t) = Written(calls[c], t)
  BY DEF Written
<1>3. /\ Head(calls[c].todo)[1] \notin {"transfer", "record", "init"}
      /\ Head(calls[c].todo)[1] # "own" /\ Head(calls[c].todo)[1] # "authorize"
  BY <1>1
<1>4. calls[c].req.op = "transfer" =>
        /\ Head(calls[c].todo)[1] # "own" => new.own = calls[c].own
        /\ Head(calls[c].todo)[1] = "own" /\ db[<<"owner", calls[c].req.subject>>] # None =>
             new.own \in OwnerRows
        /\ Head(calls[c].todo)[1] = "authorize" => db[<<"owner", calls[c].req.subject>>] # None
  BY <1>3
<1> QED
  BY <1>1, <1>2, <1>3, <1>4, QuietStep

\* As above, of a statement that writes another row than that of an owner.
LEMMA QuietWrite ==
  ASSUME Inv, NEW c \in Calls, NEW name,
         name \notin {"transfer", "record", "init", "own", "authorize"},
         At(c, name), NEW table \in {"goods", "custody"}, NEW row,
         Write(c, table, Subject(c), row), UNCHANGED <<tables, serial, begun>>
  PROVE  Inv'
<1> DEFINE call == calls[c]
           s == Subject(c)
           r == <<table, s>>
           v == Put(call.writes, r, row)
           new == Wrote(call, v)
<1>1. /\ call.status = "open" /\ call.todo # <<>> /\ Head(call.todo)[1] = name
      /\ Shape(call) /\ s \in Subjects
  BY AtStatement
<1>2. Become(c, new)
  BY DEF Write, Proceed, Wrote, Put
<1>3. v = [q \in Rows |-> v[q]]
  <2>1. call.writes = [q \in Rows |-> call.writes[q]]
    BY <1>1 DEF Shape
  <2> QED
    BY <2>1 DEF Put
<1> HIDE DEF v
<1>4. /\ GoesOn(call, new) /\ new.own = call.own /\ new.serial = call.serial /\ new.writes = v
  BY <1>1, <1>3, WroteKeeps
<1> HIDE DEF new
<1>5. new.writes = Put(call.writes, r, row) /\ r \in Rows /\ r[1] # "owner"
  BY <1>1, <1>4 DEF v, Rows
<1> HIDE DEF call, r
<1>7. \A t \in Subjects : Written(new, t) = Written(call, t)
  BY <1>1, <1>5, OtherRowWritten
<1>8. /\ Head(call.todo)[1] \notin {"transfer", "record", "init"}
      /\ Head(call.todo)[1] # "own" /\ Head(call.todo)[1] # "authorize"
  BY <1>1
<1> QED
  BY <1>1, <1>2, <1>4, <1>7, <1>8, QuietStep DEF call

LEMMA AuthorizeInv ==
  ASSUME Inv, NEW c \in Calls, Authorize(c)
  PROVE  Inv'
<1> DEFINE row == Read(c, "owner", Subject(c))
           new == Onwards(calls[c])
<1>1. At(c, "authorize") /\ UNCHANGED <<tables, serial, begun>>
  BY DEF Authorize
<1>2. \/ row # None /\ Proceed(c, calls[c])
      \/ Reject(c)
  BY DEF Authorize
<1>3. CASE Reject(c)
  BY <1>1, <1>3, RejectInv
<1>4. CASE row # None /\ Proceed(c, calls[c])
  <2>1. /\ calls[c].status = "open" /\ calls[c].todo # <<>> /\ Shape(calls[c])
        /\ Head(calls[c].todo)[1] = "authorize"
    BY <1>1, AtStatement
  <2>2. Become(c, new)
    BY <1>4 DEF Proceed, Onwards
  <2>3. /\ GoesOn(calls[c], new) /\ new.own = calls[c].own
        /\ new.serial = calls[c].serial /\ new.writes = calls[c].writes
    BY <2>1, OnwardsKeeps
  <2> HIDE DEF new
  <2>4. calls[c].req.op = "transfer" => db[<<"owner", calls[c].req.subject>>] # None
    BY <1>1, <1>4, TransferReads
  <2>5. \A t \in Subjects : Written(new, t) = Written(calls[c], t)
    BY <2>3 DEF Written
  <2> QED
    BY <1>1, <2>1, <2>2, <2>3, <2>4, <2>5, QuietStep
<1> QED
  BY <1>2, <1>3, <1>4

LEMMA ReadOwnershipInv ==
  ASSUME Inv, NEW c \in Calls, ReadOwnership(c)
  PROVE  Inv'
<1> DEFINE row == Read(c, "owner", Subject(c))
           new == Owned(calls[c], row)
<1>1. At(c, "own") /\ UNCHANGED <<tables, serial, begun>>
  BY DEF ReadOwnership
<1>2. /\ calls[c].status = "open" /\ calls[c].todo # <<>> /\ Shape(calls[c])
      /\ Head(calls[c].todo)[1] = "own" /\ calls[c].req \in Requests
  BY <1>1, AtStatement
<1>3. Become(c, new)
  BY DEF ReadOwnership, Proceed, Owned
<1>4. /\ GoesOn(calls[c], new) /\ new.own = row
      /\ new.serial = calls[c].serial /\ new.writes = calls[c].writes
  BY <1>2, OwnedKeeps
<1>5. calls[c].req.op = "transfer" => row = db[<<"owner", calls[c].req.subject>>]
  BY <1>1, TransferReads
<1> HIDE DEF new, row
<1>6. db[<<"owner", calls[c].req.subject>>] \in OwnerRows \cup {None}
  BY <1>2, RequestsAssumption DEF Inv, TablesInv
<1>7. \A t \in Subjects : Written(new, t) = Written(calls[c], t)
  BY <1>4 DEF Written
<1> QED
  BY <1>1, <1>2, <1>3, <1>4, <1>5, <1>6, <1>7, QuietStep

\* Only UpdateCustody reads the holder, and only it keeps what it read as the owner.
LEMMA ReadHolderInv ==
  ASSUME Inv, NEW c \in Calls, ReadHolder(c)
  PROVE  Inv'
<1> DEFINE row == Read(c, "owner", Subject(c))
           call == calls[c]
           new == Owned(call, row)
<1>1. At(c, "holder") /\ UNCHANGED <<tables, serial, begun>>
  BY DEF ReadHolder
<1>2. /\ call.status = "open" /\ call.todo # <<>> /\ Shape(call)
      /\ Head(call.todo)[1] = "holder" /\ Knows(call, db, transfers, serial)
  BY <1>1, AtStatement
<1>3. GoesOn(call, new) /\ new.serial = call.serial /\ new.writes = call.writes
  BY <1>2, OwnedKeeps
<1>4. Reject(c) \/ Become(c, new)
  BY DEF ReadHolder, Proceed, Owned
<1>5. CASE Reject(c)
  BY <1>1, <1>5, RejectInv
<1>6. CASE Become(c, new)
  <2> HIDE DEF new, row, call
  <2>1. call.req.op # "transfer"
    BY <1>2, <1>3, TransferStatement
  <2> QED
    BY <1>1, <1>3, <1>6, <2>1, QuietRead DEF call
<1> QED
  BY <1>4, <1>5, <1>6

LEMMA ReadCustodianInv ==
  ASSUME Inv, NEW c \in Calls, ReadCustodian(c)
  PROVE  Inv'
<1> DEFINE held == Read(c, "custody", Subject(c))
           new == Held(calls[c], held)
<1>1. At(c, "custodian") /\ UNCHANGED <<tables, serial, begun>>
  BY DEF ReadCustodian
<1>2. calls[c].status = "open" /\ Shape(calls[c])
  BY <1>1, AtStatement
<1>3. /\ GoesOn(calls[c], new) /\ new.own = calls[c].own
      /\ new.serial = calls[c].serial /\ new.writes = calls[c].writes
  BY <1>2, HeldKeeps
<1>4. Reject(c) \/ Become(c, new)
  BY DEF ReadCustodian, Proceed, Held, Custodian
<1>5. CASE Reject(c)
  BY <1>1, <1>5, RejectInv
<1>6. CASE Become(c, new)
  <2> HIDE DEF new
  <2> QED
    BY <1>1, <1>3, <1>6, QuietRead
<1> QED
  BY <1>4, <1>5, <1>6

LEMMA ReadStateInv ==
  ASSUME Inv, NEW c \in Calls, ReadState(c)
  PROVE  Inv'
<1> DEFINE state == CurrentState(Subject(c))
           new == Known(calls[c], state)
<1>1. At(c, "state") /\ UNCHANGED <<tables, serial, begun>>
  BY DEF ReadState
<1>2. calls[c].status = "open" /\ Shape(calls[c])
  BY <1>1, AtStatement
<1>3. /\ GoesOn(calls[c], new) /\ new.own = calls[c].own
      /\ new.serial = calls[c].serial /\ new.writes = calls[c].writes
  BY <1>2, KnownKeeps
<1>4. Reject(c) \/ Become(c, new)
  BY DEF ReadState, Proceed, Known
<1>5. CASE Reject(c)
  BY <1>1, <1>5, RejectInv
<1>6. CASE Become(c, new)
  <2> HIDE DEF new
  <2> QED
    BY <1>1, <1>3, <1>6, QuietRead
<1> QED
  BY <1>4, <1>5, <1>6

LEMMA FindGoodsInv ==
  ASSUME Inv, NEW c \in Calls, FindGoods(c)
  PROVE  Inv'
<1> DEFINE s == Subject(c)
           seen == [calls[c].goods EXCEPT ![s] = Read(c, "goods", s)]
           new == Found(calls[c], seen)
<1>1. At(c, "find") /\ UNCHANGED <<tables, serial, begun>>
  BY DEF FindGoods
<1>2. calls[c].status = "open" /\ Shape(calls[c])
  BY <1>1, AtStatement
<1>3. Reject(c) \/ Become(c, new)
  BY DEF FindGoods, Proceed, Found
<1> HIDE DEF seen
<1>4. /\ GoesOn(calls[c], new) /\ new.own = calls[c].own
      /\ new.serial = calls[c].serial /\ new.writes = calls[c].writes
  BY <1>2, FoundKeeps
<1>5. CASE Reject(c)
  BY <1>1, <1>5, RejectInv
<1>6. CASE Become(c, new)
  <2> HIDE DEF new
  <2> QED
    BY <1>1, <1>4, <1>6, QuietRead
<1> QED
  BY <1>3, <1>5, <1>6

LEMMA FindAbsentInv ==
  ASSUME Inv, NEW c \in Calls, FindAbsent(c)
  PROVE  Inv'
<1> DEFINE new == Onwards(calls[c])
<1>1. At(c, "absent") /\ UNCHANGED <<tables, serial, begun>>
  BY DEF FindAbsent
<1>2. calls[c].status = "open" /\ Shape(calls[c])
  BY <1>1, AtStatement
<1>3. /\ GoesOn(calls[c], new) /\ new.own = calls[c].own
      /\ new.serial = calls[c].serial /\ new.writes = calls[c].writes
  BY <1>2, OnwardsKeeps
<1>4. Reject(c) \/ Become(c, new)
  BY DEF FindAbsent, Proceed, Onwards
<1>5. CASE Reject(c)
  BY <1>1, <1>5, RejectInv
<1>6. CASE Become(c, new)
  <2> HIDE DEF new
  <2> QED
    BY <1>1, <1>3, <1>6, QuietRead
<1> QED
  BY <1>4, <1>5, <1>6

\* The writes of goods and of custody.
LEMMA OtherWritesInv ==
  ASSUME Inv, NEW c \in Calls, Mark(c) \/ HandOver(c) \/ Retire(c) \/ Save(c)
  PROVE  Inv'
<1>1. CASE Mark(c)
  <2>1. At(c, "mark") /\ UNCHANGED <<tables, serial, begun>>
        /\ \E row : Write(c, "goods", Subject(c), row)
    BY <1>1 DEF Mark
  <2> QED
    BY <2>1, QuietWrite
<1>2. CASE HandOver(c)
  <2>1. At(c, "custody") /\ UNCHANGED <<tables, serial, begun>>
        /\ \E row : Write(c, "custody", Subject(c), row)
    BY <1>2 DEF HandOver
  <2> QED
    BY <2>1, QuietWrite
<1>3. CASE Retire(c)
  <2>1. /\ At(c, "retire") /\ UNCHANGED <<tables, serial, begun>>
        /\ Reject(c) \/ \E row : Write(c, "goods", Subject(c), row)
    BY <1>3 DEF Retire
  <2> QED
    BY <2>1, QuietWrite, RejectInv
<1>4. CASE Save(c)
  <2>1. At(c, "save") /\ UNCHANGED <<tables, serial, begun>>
        /\ \E row : Write(c, "goods", Subject(c), row)
    BY <1>4 DEF Save
  <2> QED
    BY <2>1, QuietWrite
<1> QED
  BY <1>1, <1>2, <1>3, <1>4

LEMMA TransferInv ==
  ASSUME Inv, NEW c \in Calls, Transfer(c)
  PROVE  Inv'
<1> DEFINE call == calls[c]
           s == Subject(c)
           row == [owner |-> call.req.to, count |-> call.own.count + 1]
           r == <<"owner", s>>
           v == Put(call.writes, r, row)
           new == Wrote(call, v)
<1>1. At(c, "transfer") /\ UNCHANGED <<tables, serial, begun>>
  BY DEF Transfer
<1>2. /\ call.status = "open" /\ call.todo # <<>> /\ Head(call.todo)[1] = "transfer"
      /\ Knows(call, db, transfers, serial) /\ Shape(call)
      /\ s \in Subjects /\ s = Head(call.todo)[2]
  BY <1>1, AtStatement
<1>3. Reject(c) \/ Write(c, "owner", s, row)
  BY DEF Transfer, SaveOwner
<1>4. CASE Reject(c)
  BY <1>1, <1>4, RejectInv
<1>5. CASE Write(c, "owner", s, row)
  <2>1. Become(c, new) /\ Writers("owner", s) \subseteq {c}
    BY <1>5 DEF Write, Proceed, Wrote, Put
  <2>2. v = [q \in Rows |-> v[q]]
    <3>1. call.writes = [q \in Rows |-> call.writes[q]]
      BY <1>2 DEF Shape
    <3> QED
      BY <3>1 DEF Put
  <2>3. new.writes = Put(call.writes, r, row) /\ GoesOn(call, new) /\ new.own = call.own
    <3> HIDE DEF v
    <3>1. GoesOn(call, new) /\ new.own = call.own /\ new.writes = v
      BY <1>2, <2>2, WroteKeeps
    <3> QED
      BY <3>1 DEF v
  <2> HIDE DEF new, v, row, call, s
  <2>4. \A t \in Subjects : Written(new, t) = IF t = s THEN row ELSE Written(call, t)
    <3>1. Shape(call) /\ s \in Subjects
      BY <1>2
    <3>2. new.writes = Put(call.writes, <<"owner", s>>, row)
      BY <2>3
    <3> QED
      BY <3>1, <3>2, OwnerRowWritten
  <2>5. serial \in Nat
    BY DEF Inv, TablesInv
  <2>6. Knows(new, db, transfers, serial)
    <3>1. \A t \in Subjects : Written(new, t) =
            IF t = Head(call.todo)[2] THEN [owner |-> call.req.to, count |-> call.own.count + 1]
            ELSE Written(call, t)
      BY <1>2, <2>4 DEF row
    <3> QED
      BY <1>2, <2>3, <3>1, TransferWrites
  <2>7. ASSUME NEW t \in Subjects, Written(new, t) # Unwritten
        PROVE  Writers("owner", t) \subseteq {c}
    <3>1. CASE t = s
      BY <2>1, <3>1
    <3>2. CASE t # s
      BY <2>4, <2>7, <3>2 DEF Inv, OneWriter, Writers, Written, call
    <3> QED
      BY <3>1, <3>2
  <2>8. UNCHANGED tables /\ serial' = serial /\ serial <= serial'
    BY <1>1, <2>5
  <2> QED
    BY <2>1, <2>5, <2>6, <2>7, <2>8, OneCallSteps
<1> QED
  BY <1>3, <1>4, <1>5

\* The serial is drawn while the call holds the owner row.
LEMMA RecordInv ==
  ASSUME Inv, NEW c \in Calls, Record(c)
  PROVE  Inv'
<1> DEFINE call == calls[c]
           next == serial + 1
           new == Drawn(call, next)
<1>1. At(c, "record") /\ UNCHANGED tables /\ serial' = next
  BY DEF Record
<1>2. /\ call.status = "open" /\ call.todo # <<>> /\ Head(call.todo)[1] = "record"
      /\ Knows(call, db, transfers, serial) /\ Shape(call)
  BY <1>1, AtStatement
<1>3. Become(c, new)
  BY DEF Record, Proceed, Drawn
<1>4. /\ GoesOn(call, new) /\ new.own = call.own /\ new.serial = next
      /\ new.writes = call.writes
  BY <1>2, DrawnKeeps
<1>5. /\ serial \in Nat /\ next \in Nat /\ serial <= next
      /\ \A r \in transfers : r.serial \in Nat /\ r.serial <= serial
  <2>1. /\ serial \in Nat
        /\ \A r \in transfers : r.serial \in Nat /\ r.serial <= serial
    BY DEF Inv, TablesInv
  <2> QED
    BY <2>1
<1> HIDE DEF new, call
<1>6. \A t \in Subjects : Written(new, t) = Written(call, t)
  BY <1>4 DEF Written
<1>7. Knows(new, db, transfers, next)
  BY <1>2, <1>4, <1>5, <1>6, RecordDraws
<1>8. ASSUME NEW t \in Subjects, Written(new, t) # Unwritten
      PROVE  Writers("owner", t) \subseteq {c}
  BY <1>6, <1>8 DEF Inv, OneWriter, Writers, Written, call
<1> HIDE DEF next
<1> QED
  BY <1>1, <1>3, <1>5, <1>7, <1>8, OneCallSteps

LEMMA InitOwnerInv ==
  ASSUME Inv, NEW c \in Calls, InitOwner(c)
  PROVE  Inv'
<1> DEFINE call == calls[c]
           s == Subject(c)
           owner == IF call.req.op = "create" THEN call.req.to ELSE call.req.by
           row == [owner |-> owner, count |-> 0]
           r == <<"owner", s>>
           v == Put(call.writes, r, row)
           new == Wrote(call, v)
<1>1. At(c, "init") /\ UNCHANGED <<tables, serial, begun>>
  BY DEF InitOwner
<1>2. /\ call.status = "open" /\ call.todo # <<>> /\ Head(call.todo)[1] = "init"
      /\ Knows(call, db, transfers, serial) /\ Shape(call)
      /\ s \in Subjects /\ s = Head(call.todo)[2] /\ call.req \in Requests
  BY <1>1, AtStatement
<1>3. \/ Reject(c)
      \/ Read(c, "owner", s) = None /\ Write(c, "owner", s, row)
  BY DEF InitOwner
<1>4. CASE Reject(c)
  BY <1>1, <1>4, RejectInv
<1>5. CASE Read(c, "owner", s) = None /\ Write(c, "owner", s, row)
  <2>1. Become(c, new) /\ Writers("owner", s) \subseteq {c}
    BY <1>5 DEF Write, Proceed, Wrote, Put
  <2>2. v = [q \in Rows |-> v[q]]
    <3>1. call.writes = [q \in Rows |-> call.writes[q]]
      BY <1>2 DEF Shape
    <3> QED
      BY <3>1 DEF Put
  <2>3. new.writes = Put(call.writes, r, row) /\ GoesOn(call, new)
    <3> HIDE DEF v
    <3>1. GoesOn(call, new) /\ new.writes = v
      BY <1>2, <2>2, WroteKeeps
    <3> QED
      BY <3>1 DEF v
  <2>4. owner \in Parties
    BY <1>2, RequestsAssumption
  <2>5. row \in OwnerRows
    BY <2>4 DEF OwnerRows
  <2> HIDE DEF new, v, row, call, s
  <2>6. \A t \in Subjects : Written(new, t) = IF t = s THEN row ELSE Written(call, t)
    BY <1>2, <2>3, OwnerRowWritten
  <2>7. db[<<"owner", s>>] = None
    <3>1. Written(call, s) = Unwritten \/ Written(call, s) = None
      BY <1>2, <1>5, ReadOwner DEF call
    <3>2. call.req.op # "transfer"
      BY <1>2, <2>3, TransferStatement
    <3>3. OtherKnows(call, db)
      BY <1>2, <3>2 DEF Knows
    <3>4. Written(call, s) # None
      BY <1>2, <3>3, RegistryAssumption DEF OtherKnows
    <3>5. Written(call, s) = Unwritten
      BY <3>1, <3>4
    <3> QED
      BY <1>2, <1>5, <3>5, ReadOwner DEF call
  <2>8. serial \in Nat
    BY DEF Inv, TablesInv
  <2>9. Knows(new, db, transfers, serial)
    BY <1>2, <2>3, <2>5, <2>6, <2>7, InitWrites
  <2>10. ASSUME NEW t \in Subjects, Written(new, t) # Unwritten
         PROVE  Writers("owner", t) \subseteq {c}
    <3>1. CASE t = s
      BY <2>1, <3>1
    <3>2. CASE t # s
      BY <2>6, <2>10, <3>2 DEF Inv, OneWriter, Writers, Written, call
    <3> QED
      BY <3>1, <3>2
  <2>11. UNCHANGED tables /\ serial' = serial /\ serial <= serial'
    BY <1>1, <2>8
  <2> QED
    BY <2>1, <2>8, <2>9, <2>10, <2>11, OneCallSteps
<1> QED
  BY <1>3, <1>4, <1>5
-----------------------------------------------------------------------------
(* The call as a whole.                                                    *)

Begun(req, now) == [Unborn EXCEPT !.status = "open", !.req = req, !.now = now,
                                  !.todo = Program(req), !.from = "created"]

LEMMA BegunIs ==
  ASSUME NEW req, NEW now
  PROVE  /\ Shape(Begun(req, now)) /\ Begun(req, now).status = "open"
         /\ Begun(req, now).req = req /\ Begun(req, now).todo = Program(req)
         /\ \A t \in Subjects : Written(Begun(req, now), t) = Unwritten
<1> DEFINE new == Begun(req, now)
           p == Program(req)
           nothing == [s \in Subjects |-> None]
<1>a. Unborn = [status |-> "idle", req |-> None, todo |-> <<>>, now |-> 0, own |-> None,
                goods |-> nothing, from |-> None, held |-> None, serial |-> 0,
                writes |-> NoWrites]
  BY DEF Unborn
<1>b. new = [Unborn EXCEPT !.status = "open", !.req = req, !.now = now, !.todo = p,
                           !.from = "created"]
  BY DEF Begun
<1> HIDE DEF new, nothing, p
<1>1. new = [status |-> "open", req |-> req, todo |-> p, now |-> now, own |-> None,
             goods |-> nothing, from |-> "created", held |-> None,
             serial |-> 0, writes |-> NoWrites]
  BY <1>a, <1>b
<1>2. new = CallOf("open", req, p, now, None, nothing, "created", None, 0, NoWrites)
  BY <1>1 DEF CallOf
<1>3. /\ new.status = "open" /\ new.req = req /\ new.todo = p /\ new.now = now
      /\ new.own = None /\ new.goods = nothing /\ new.from = "created" /\ new.held = None
      /\ new.serial = 0 /\ new.writes = NoWrites
  BY <1>2, Parts
<1>4. NoWrites = [r \in Rows |-> NoWrites[r]]
  BY DEF NoWrites
<1>5. Shape(new)
  BY <1>2, <1>3, <1>4 DEF Shape
<1>6. \A t \in Subjects : Written(new, t) = Unwritten
  BY <1>3, NoWritesAre DEF Written
<1> QED
  BY <1>3, <1>5, <1>6 DEF new, p

LEMMA BegunKnows ==
  ASSUME NEW req \in Requests, NEW now, NEW rows, NEW log, NEW ser
  PROVE  Knows(Begun(req, now), rows, log, ser)
<1> DEFINE new == Begun(req, now)
           p == Program(req)
<1>1. /\ Shape(new) /\ new.status = "open" /\ new.req = req /\ new.todo = p
      /\ \A t \in Subjects : Written(new, t) = Unwritten
  BY BegunIs
<1>2. req.subject \in Subjects
  BY RequestsAssumption
<1> HIDE DEF new
<1>3. CASE req.op = "transfer"
  <2>1. p \in Seq(Statements)
    BY <1>3, TransferProgram
  <2>2. TransferAt(req) \in {3, 4}
    BY DEF TransferAt
  <2>3. /\ Place(new) = Len(p) - Len(p) /\ new.todo \in Seq(Statements)
        /\ new.todo = Program(new.req)
    BY <1>1, <2>1 DEF Place
  <2> HIDE DEF p
  <2>4. Place(new) = 0 /\ Len(p) \in Nat
    BY <2>1, <2>3
  <2>5. Ahead(new)
    <3>1. Len(new.todo) <= Len(Program(new.req))
      BY <2>1, <2>3, <2>4
    <3>2. \A i \in 1 .. Len(new.todo) : new.todo[i] = Program(new.req)[0 + i]
      BY <2>3
    <3> QED
      BY <2>3, <2>4, <3>1, <3>2 DEF Ahead
  <2>6. ~(Place(new) >= 1) /\ ~(Place(new) >= 2) /\ Place(new) < TransferAt(req)
        /\ ~(Place(new) >= TransferAt(req)) /\ ~(Place(new) > TransferAt(req))
    BY <2>2, <2>4
  <2>7. TransferKnows(new, rows, log, ser)
    BY <1>1, <1>2, <2>5, <2>6 DEF TransferKnows
  <2> QED
    BY <1>1, <1>3, <2>7 DEF Knows, new
<1>4. CASE req.op # "transfer"
  <2>1. p \in Seq(OtherStatements) /\ \A t \in Children(req) : Inits(p, t)
    BY <1>4, OtherProgram
  <2>2. OtherKnows(new, rows)
    BY <1>1, <2>1 DEF OtherKnows
  <2> QED
    BY <1>1, <1>4, <2>2 DEF Knows, new
<1> QED
  BY <1>3, <1>4

LEMMA BeginInv ==
  ASSUME Inv, NEW c \in Calls, NEW req \in Requests, Begin(c, req)
  PROVE  Inv'
<1> DEFINE new == Begun(req, begun + 1)
<1>1. Become(c, new) /\ UNCHANGED tables /\ serial' = serial
  BY DEF Begin, Begun
<1>2. \A t \in Subjects : Written(new, t) = Unwritten
  BY BegunIs
<1>3. Knows(new, db, transfers, serial)
  BY BegunKnows
<1>4. serial \in Nat
  BY DEF Inv, TablesInv
<1> HIDE DEF new
<1> QED
  BY <1>1, <1>2, <1>3, <1>4, OneCallSteps

\* What a call that has done its program has written.
LEMMA Finished ==
  ASSUME NEW call, NEW rows, NEW log, NEW ser, Knows(call, rows, log, ser),
         call.status = "open", call.todo = <<>>
  PROVE  /\ call.req \in Requests
         /\ call.req.op = "transfer" =>
              /\ call.req.subject \in Subjects /\ rows[<<"owner", call.req.subject>>] # None
              /\ Written(call, call.req.subject)
                 = [owner |-> call.req.to, count |-> call.own.count + 1]
              /\ Written(call, call.req.subject) \in OwnerRows
              /\ \A t \in Subjects : t # call.req.subject => Written(call, t) = Unwritten
              /\ call.serial \in Nat /\ call.serial <= ser
              /\ \A r \in log : r.subject = call.req.subject => r.serial < call.serial
         /\ call.req.op # "transfer" =>
              /\ \A t \in Subjects : Written(call, t) # Unwritten =>
                   rows[<<"owner", t>>] = None /\ Written(call, t) \in OwnerRows
              /\ \A t \in Children(call.req) : t \in Subjects /\ Written(call, t) # Unwritten
<1>1. call.req \in Requests
  BY DEF Knows
<1>2. CASE call.req.op = "transfer"
  <2> DEFINE s == call.req.subject
             k == Place(call)
             x == TransferAt(call.req)
             row == [owner |-> call.req.to, count |-> call.own.count + 1]
  <2>1. TransferKnows(call, rows, log, ser)
    BY <1>2 DEF Knows
  <2>2. Program(call.req) \in Seq(Statements) /\ Len(Program(call.req)) >= x + 1
    BY <1>1, <1>2, TransferProgram
  <2>3. x \in {3, 4}
    BY DEF TransferAt
  <2>4. k = Len(Program(call.req)) - 0
    BY DEF Place
  <2>5. s \in Subjects /\ call.req.to \in Parties
    BY <1>1, <1>2, RequestsAssumption
  <2>6. /\ \A t \in Subjects : Written(call, t) # Unwritten => t = s
        /\ k >= 1 => rows[<<"owner", s>>] # None
        /\ k >= 2 => call.own \in OwnerRows
        /\ k >= x => Written(call, s) = row
        /\ k > x => /\ call.serial \in Nat /\ call.serial <= ser
                    /\ \A r \in log : r.subject = s => r.serial < call.serial
    BY <2>1 DEF TransferKnows
  <2> HIDE DEF k, x
  <2>7. k >= 1 /\ k >= 2 /\ k >= x /\ k > x
    <3>1. Len(Program(call.req)) \in Nat
      BY <2>2
    <3> QED
      BY <2>2, <2>3, <2>4, <3>1
  <2>8. row \in OwnerRows
    BY <2>5, <2>6, <2>7 DEF OwnerRows
  <2> HIDE DEF row
  <2>9. Written(call, s) = row /\ row \in OwnerRows /\ rows[<<"owner", s>>] # None
    BY <2>6, <2>7, <2>8
  <2> QED
    BY <1>1, <1>2, <2>5, <2>6, <2>7, <2>9 DEF row
<1>3. CASE call.req.op # "transfer"
  <2>1. OtherKnows(call, rows)
    BY <1>3 DEF Knows
  <2>2. \A t : ~Inits(call.todo, t)
    BY DEF Inits
  <2>3. \A t \in Children(call.req) : t \in Subjects
    BY <1>1, RequestsAssumption DEF Children, Subjects
  <2> QED
    BY <1>1, <1>3, <2>1, <2>2, <2>3 DEF OtherKnows
<1> QED
  BY <1>2, <1>3

\* The rows of owners after a commit.
Merged(call, rows, s) ==
  IF Written(call, s) = Unwritten THEN rows[<<"owner", s>>] ELSE Written(call, s)

\* Another call still knows what it did, after a commit that added to the log
\* the transfer of a subject it has not written.
LEMMA KnowsAfter ==
  ASSUME NEW call, NEW rows, NEW log, NEW ser, Knows(call, rows, log, ser),
         NEW new, NEW entries,
         \A t \in Subjects : rows[<<"owner", t>>] # None => new[<<"owner", t>>] # None,
         \A t \in Subjects : Written(call, t) # Unwritten =>
           /\ new[<<"owner", t>>] = rows[<<"owner", t>>]
           /\ \A r \in entries : r.subject # t
  PROVE  Knows(call, new, log \cup entries, ser)
<1>1. CASE call.status # "open"
  BY <1>1 DEF Knows
<1>2. CASE call.status = "open" /\ call.req.op = "transfer"
  <2> DEFINE s == call.req.subject
             k == Place(call)
             x == TransferAt(call.req)
  <2>1. TransferKnows(call, rows, log, ser) /\ call.req \in Requests /\ Shape(call)
    BY <1>2 DEF Knows
  <2>2. s \in Subjects
    BY <2>1, RequestsAssumption
  <2>3. /\ k >= 1 => rows[<<"owner", s>>] # None
        /\ k >= x => Written(call, s) = [owner |-> call.req.to, count |-> call.own.count + 1]
        /\ k > x => \A r \in log : r.subject = s => r.serial < call.serial
    BY <2>1 DEF TransferKnows
  <2>4. k >= 1 => new[<<"owner", s>>] # None
    BY <2>2, <2>3
  <2>5. k > x => \A r \in log \cup entries : r.subject = s => r.serial < call.serial
    <3> SUFFICES ASSUME k > x, NEW r \in entries
                 PROVE  r.subject # s
      BY <2>3
    <3>1. x \in {3, 4}
      BY DEF TransferAt
    <3>2. k \in Int
      <4>1. call.todo \in Seq(Statements) /\ Program(call.req) \in Seq(Statements)
        BY <1>2, <2>1, TransferProgram DEF TransferKnows, Ahead
      <4>2. Len(call.todo) \in Int /\ Len(Program(call.req)) \in Int
        BY <4>1
      <4> QED
        BY <4>2 DEF Place
    <3> HIDE DEF k, x
    <3>3. k >= x
      BY <3>1, <3>2
    <3>4. Written(call, s) # Unwritten
      <4> DEFINE row == [owner |-> call.req.to, count |-> call.own.count + 1]
      <4>1. k >= 2
        BY <3>1, <3>2, <3>3
      <4>2. call.own \in OwnerRows /\ call.req.to \in Parties
        BY <1>2, <2>1, <4>1, RequestsAssumption DEF TransferKnows, k
      <4>3. row \in OwnerRows
        BY <4>2 DEF OwnerRows
      <4> HIDE DEF row
      <4>4. row # Unwritten
        BY <4>3, RegistryAssumption
      <4> QED
        BY <2>3, <3>3, <4>4 DEF row
    <3> QED
      BY <2>2, <3>4
  <2>6. TransferKnows(call, new, log \cup entries, ser)
    BY <2>1, <2>4, <2>5 DEF TransferKnows
  <2> QED
    BY <1>2, <2>1, <2>6 DEF Knows
<1>3. CASE call.status = "open" /\ call.req.op # "transfer"
  <2>1. OtherKnows(call, new)
    BY <1>3 DEF Knows, OtherKnows
  <2> QED
    BY <1>3, <2>1 DEF Knows
<1> QED
  BY <1>1, <1>2, <1>3

\* The transfer a call records, if it is one.
Entries(call) ==
  IF call.req.op # "transfer" THEN {}
  ELSE {[subject |-> call.req.subject, by |-> call.req.by, from |-> call.own.owner,
         to |-> call.req.to, count |-> call.own.count + 1, serial |-> call.serial]}

LEMMA EntriesAre ==
  ASSUME NEW call, NEW r \in Entries(call)
  PROVE  /\ call.req.op = "transfer" /\ r.subject = call.req.subject /\ r.to = call.req.to
         /\ r.count = call.own.count + 1 /\ r.serial = call.serial
  BY DEF Entries

LEMMA EdgesAre ==
  ASSUME NEW c \in Calls, NEW e \in Edges(c)
  PROVE  calls[c].req.op # "transfer" /\ e.child \in Children(calls[c].req) /\ e.call = c
<1> DEFINE req == calls[c].req
<1>1. CASE req.op = "split"
  BY <1>1 DEF Edges, Children
<1>2. CASE req.op = "merge"
  BY <1>2 DEF Edges, Children
<1>3. CASE req.op \notin {"split", "merge"}
  BY <1>3 DEF Edges
<1> QED
  BY <1>1, <1>2, <1>3

LEMMA CommitTables ==
  ASSUME Inv, NEW c \in Calls, Commit(c)
  PROVE  /\ calls[c].status = "open" /\ calls[c].todo = <<>>
         /\ Knows(calls[c], db, transfers, serial)
         /\ \A s \in Subjects : db'[<<"owner", s>>] = Merged(calls[c], db, s)
         /\ transfers' = transfers \cup Entries(calls[c])
         /\ lineage' = lineage \cup Edges(c)
         /\ serial' = serial
         /\ Become(c, [Unborn EXCEPT !.status = "ended"])
<1>1. calls[c].status = "open" /\ calls[c].todo = <<>> /\ Knows(calls[c], db, transfers, serial)
  BY DEF Commit, Open, Inv
<1>2. ASSUME NEW s \in Subjects
      PROVE  db'[<<"owner", s>>] = Merged(calls[c], db, s)
  <2>1. db' = [r \in Rows |-> Read(c, r[1], r[2])]
    BY DEF Commit
  <2>2. <<"owner", s>> \in Rows
    BY DEF Rows
  <2>3. db'[<<"owner", s>>] = Read(c, "owner", s)
    BY <2>1, <2>2
  <2> QED
    BY <2>3, ReadOwner DEF Merged
<1>3. transfers' = transfers \cup Entries(calls[c])
  BY DEF Commit, Entries, TransferRecord
<1>4. lineage' = lineage \cup Edges(c) /\ serial' = serial
      /\ Become(c, [Unborn EXCEPT !.status = "ended"])
  BY DEF Commit, End
<1> QED
  BY <1>1, <1>2, <1>3, <1>4

LEMMA CommitInv ==
  ASSUME Inv, NEW c \in Calls, Commit(c)
  PROVE  Inv'
<1> DEFINE call == calls[c]
           ended == [Unborn EXCEPT !.status = "ended"]
           s == call.req.subject
<1>1. /\ call.status = "open" /\ call.todo = <<>> /\ Knows(call, db, transfers, serial)
      /\ \A t \in Subjects : db'[<<"owner", t>>] = Merged(call, db, t)
      /\ transfers' = transfers \cup Entries(call) /\ lineage' = lineage \cup Edges(c)
      /\ serial' = serial /\ Become(c, ended)
  BY CommitTables
<1>2. /\ call.req \in Requests
      /\ call.req.op = "transfer" =>
           /\ s \in Subjects /\ db[<<"owner", s>>] # None
           /\ Written(call, s) = [owner |-> call.req.to, count |-> call.own.count + 1]
           /\ Written(call, s) \in OwnerRows
           /\ \A t \in Subjects : t # s => Written(call, t) = Unwritten
           /\ call.serial \in Nat /\ call.serial <= serial
           /\ \A r \in transfers : r.subject = s => r.serial < call.serial
      /\ call.req.op # "transfer" =>
           /\ \A t \in Subjects : Written(call, t) # Unwritten =>
                db[<<"owner", t>>] = None /\ Written(call, t) \in OwnerRows
           /\ \A t \in Children(call.req) : t \in Subjects /\ Written(call, t) # Unwritten
  BY <1>1, Finished
<1>3. /\ TablesInv(db, transfers, lineage, serial) /\ OneWriter /\ OriginIsUnique
      /\ OwnerIsLastReceiver /\ calls = [d \in Calls |-> calls[d]]
      /\ \A d \in Calls : Knows(calls[d], db, transfers, serial)
  BY DEF Inv
<1>4. /\ calls' = [d \in Calls |-> calls'[d]] /\ calls'[c] = ended
      /\ \A d \in Calls : d # c => calls'[d] = calls[d]
  BY <1>1, <1>3 DEF Become
<1>5. /\ \A rows, log, ser : Knows(ended, rows, log, ser)
      /\ \A t \in Subjects : Written(ended, t) = Unwritten
  BY Ended
<1> HIDE DEF call, ended, s
<1>6. None \notin OwnerRows /\ Unwritten \notin OwnerRows
  BY RegistryAssumption
<1>7. ASSUME NEW t \in Subjects
      PROVE  /\ Written(call, t) # Unwritten =>
                  Written(call, t) \in OwnerRows /\ db'[<<"owner", t>>] = Written(call, t)
             /\ Written(call, t) = Unwritten => db'[<<"owner", t>>] = db[<<"owner", t>>]
             /\ db[<<"owner", t>>] # None => db'[<<"owner", t>>] # None
  <2>1. Written(call, t) # Unwritten => Written(call, t) \in OwnerRows
    BY <1>2
  <2> QED
    BY <1>1, <1>6, <2>1 DEF Merged
<1>8. ASSUME NEW t \in Children(call.req), call.req.op # "transfer"
      PROVE  t \in Subjects /\ db[<<"owner", t>>] = None /\ db'[<<"owner", t>>] # None
  BY <1>2, <1>6, <1>7, <1>8
<1>9. TablesInv(db', transfers', lineage', serial')
  <2>1. serial' \in Nat
    BY <1>1, <1>3 DEF TablesInv
  <2>2. ASSUME NEW t \in Subjects
        PROVE  db'[<<"owner", t>>] \in OwnerRows \cup {None}
    BY <1>3, <1>7 DEF TablesInv
  <2>3. ASSUME NEW r \in transfers'
        PROVE  /\ r.subject \in Subjects /\ db'[<<"owner", r.subject>>] # None
               /\ r.serial \in Nat /\ r.serial <= serial'
    <3>1. CASE r \in transfers
      BY <1>1, <1>3, <1>7, <3>1 DEF TablesInv
    <3>2. CASE r \in Entries(call)
      <4>1. call.req.op = "transfer" /\ r.subject = s /\ r.serial = call.serial
        BY <3>2, EntriesAre DEF s
      <4> QED
        BY <1>1, <1>2, <1>7, <4>1
    <3> QED
      BY <1>1, <3>1, <3>2
  <2>4. ASSUME NEW e \in lineage'
        PROVE  e.child \in Subjects /\ db'[<<"owner", e.child>>] # None
    <3>1. CASE e \in lineage
      BY <1>3, <1>7, <3>1 DEF TablesInv
    <3>2. CASE e \in Edges(c)
      <4>1. call.req.op # "transfer" /\ e.child \in Children(call.req)
        BY <3>2, EdgesAre DEF call
      <4> QED
        BY <1>8, <4>1
    <3> QED
      BY <1>1, <3>1, <3>2
  <2> QED
    BY <2>1, <2>2, <2>3, <2>4 DEF TablesInv
<1>10. ASSUME NEW d \in Calls
       PROVE  Knows(calls'[d], db', transfers', serial')
  <2>1. CASE d = c
    BY <1>4, <1>5, <2>1
  <2>2. CASE d # c
    <3>1. ASSUME NEW t \in Subjects, Written(calls[d], t) # Unwritten
          PROVE  /\ db'[<<"owner", t>>] = db[<<"owner", t>>]
                 /\ \A r \in Entries(call) : r.subject # t
      <4>1. Written(call, t) = Unwritten
        BY <1>3, <2>2, <3>1 DEF OneWriter, call
      <4>2. ASSUME NEW r \in Entries(call) PROVE r.subject # t
        <5>1. call.req.op = "transfer" /\ r.subject = s
          BY EntriesAre DEF s
        <5> QED
          BY <1>2, <1>6, <4>1, <5>1
      <4> QED
        BY <1>7, <4>1, <4>2
    <3>2. Knows(calls[d], db, transfers, serial)
      BY <1>3
    <3>3. Knows(calls[d], db', transfers \cup Entries(call), serial)
      BY <1>7, <3>1, <3>2, KnowsAfter
    <3> QED
      BY <1>1, <1>4, <2>2, <3>3
  <2> QED
    BY <2>1, <2>2
<1>11. OneWriter'
  <2> SUFFICES ASSUME NEW a \in Calls, NEW b \in Calls, NEW t \in Subjects,
                      Written(calls'[a], t) # Unwritten, Written(calls'[b], t) # Unwritten
               PROVE  a = b
    BY DEF OneWriter, Written
  <2>1. a # c /\ b # c
    BY <1>4, <1>5
  <2> QED
    BY <1>3, <1>4, <2>1 DEF OneWriter
<1>12. OwnerIsLastReceiver'
  <2> SUFFICES ASSUME NEW t \in Subjects, NEW r \in transfers', r.subject = t,
                      \A q \in transfers' : q.subject = t => q.serial <= r.serial
               PROVE  db'[<<"owner", t>>] = [owner |-> r.to, count |-> r.count]
    BY DEF OwnerIsLastReceiver, History
  <2>1. CASE call.req.op = "transfer" /\ t = s
    <3>1. PICK e \in Entries(call) : TRUE
      BY <2>1 DEF Entries
    <3>2. /\ e.subject = s /\ e.to = call.req.to /\ e.count = call.own.count + 1
          /\ e.serial = call.serial
      BY EntriesAre DEF s
    <3>3. e.serial <= r.serial
      BY <1>1, <2>1, <3>1, <3>2
    <3>4. r \notin transfers
      <4>1. ASSUME r \in transfers PROVE FALSE
        <5>1. r.serial < call.serial /\ r.serial \in Nat /\ call.serial \in Nat
          BY <1>2, <1>3, <2>1, <4>1 DEF TablesInv
        <5> QED
          BY <3>2, <3>3, <5>1
      <4> QED
        BY <4>1
    <3>5. r \in Entries(call)
      BY <1>1, <3>4
    <3>6. r.to = call.req.to /\ r.count = call.own.count + 1
      BY <3>5, EntriesAre
    <3> QED
      BY <1>2, <1>6, <1>7, <2>1, <3>6
  <2>2. CASE ~(call.req.op = "transfer" /\ t = s)
    <3>1. r \notin Entries(call)
      BY <2>2, EntriesAre DEF s
    <3>2. r \in transfers
      BY <1>1, <3>1
    <3>3. db[<<"owner", t>>] # None
      BY <1>3, <3>2 DEF TablesInv
    <3>4. Written(call, t) = Unwritten
      BY <1>2, <2>2, <3>3
    <3>5. \A q \in transfers : q.subject = t => q.serial <= r.serial
      BY <1>1
    <3>6. db[<<"owner", t>>] = [owner |-> r.to, count |-> r.count]
      BY <1>3, <3>2, <3>5 DEF OwnerIsLastReceiver, History
    <3> QED
      BY <1>7, <3>4, <3>6
  <2> QED
    BY <2>1, <2>2
<1>13. OriginIsUnique'
  <2> SUFFICES ASSUME NEW d \in lineage', NEW e \in lineage', d.child = e.child
               PROVE  d.call = e.call
    BY DEF OriginIsUnique
  <2>1. \A x \in lineage : db[<<"owner", x.child>>] # None
    BY <1>3 DEF TablesInv
  <2>2. \A x \in Edges(c) : db[<<"owner", x.child>>] = None /\ x.call = c
    BY <1>8, EdgesAre DEF call
  <2>3. CASE d \in lineage /\ e \in lineage
    BY <1>3, <2>3 DEF OriginIsUnique
  <2>4. CASE d \in Edges(c) /\ e \in Edges(c)
    BY <2>2, <2>4
  <2> QED
    BY <1>1, <2>1, <2>2, <2>3, <2>4
<1> QED
  BY <1>4, <1>9, <1>10, <1>11, <1>12, <1>13 DEF Inv

LEMMA InitInv ==
  ASSUME Init
  PROVE  Inv
<1>1. ASSUME NEW s \in Subjects
      PROVE  db[<<"owner", s>>] \in OwnerRows \cup {None}
  <2> DEFINE row == [owner |-> Stock[s].producer, count |-> 0]
  <2>1. <<"owner", s>> \in Rows
    BY DEF Rows
  <2>2. db[<<"owner", s>>] = IF s \notin DOMAIN Stock THEN None ELSE row
    BY <2>1 DEF Init
  <2>3. s \in DOMAIN Stock => row \in OwnerRows
    BY RegistryAssumption DEF OwnerRows
  <2> HIDE DEF row
  <2> QED
    BY <2>2, <2>3
<1>2. TablesInv(db, transfers, lineage, serial)
  BY <1>1 DEF Init, TablesInv
<1>3. calls = [c \in Calls |-> Unborn]
  BY DEF Init
<1>4. /\ \A rows, log, ser : Knows(Unborn, rows, log, ser)
      /\ \A t \in Subjects : Written(Unborn, t) = Unwritten
  <2> DEFINE nothing == [s \in Subjects |-> None]
  <2>1. Unborn = CallOf("idle", None, <<>>, 0, None, nothing, None, None, 0, NoWrites)
    BY DEF Unborn, CallOf
  <2> HIDE DEF nothing
  <2>2. /\ Unborn.status = "idle" /\ Unborn.req = None /\ Unborn.todo = <<>> /\ Unborn.now = 0
        /\ Unborn.own = None /\ Unborn.goods = nothing /\ Unborn.from = None
        /\ Unborn.held = None /\ Unborn.serial = 0 /\ Unborn.writes = NoWrites
    BY <2>1, Parts
  <2>3. NoWrites = [r \in Rows |-> NoWrites[r]]
    BY DEF NoWrites
  <2>4. Shape(Unborn)
    BY <2>1, <2>2, <2>3 DEF Shape
  <2>5. \A t \in Subjects : Written(Unborn, t) = Unwritten
    BY <2>2, NoWritesAre DEF Written
  <2> QED
    BY <2>2, <2>4, <2>5 DEF Knows
<1>5. calls = [c \in Calls |-> calls[c]] /\ \A c \in Calls : calls[c] = Unborn
  BY <1>3
<1>6. OneWriter
  BY <1>4, <1>5 DEF OneWriter
<1>7. OwnerIsLastReceiver /\ OriginIsUnique
  BY DEF Init, OwnerIsLastReceiver, OriginIsUnique, History
<1> QED
  BY <1>2, <1>4, <1>5, <1>6, <1>7 DEF Inv

LEMMA StutterInv ==
  ASSUME Inv, UNCHANGED vars
  PROVE  Inv'
<1>1. /\ db' = db /\ transfers' = transfers /\ serial' = serial /\ lineage' = lineage
      /\ calls' = calls
  BY DEF vars
<1>2. OneWriter'
  BY <1>1 DEF Inv, OneWriter
<1>3. OwnerIsLastReceiver' /\ OriginIsUnique'
  BY <1>1 DEF Inv, OwnerIsLastReceiver, OriginIsUnique, History
<1> QED
  BY <1>1, <1>2, <1>3 DEF Inv

LEMMA NextInv ==
  ASSUME Inv, [Next]_vars
  PROVE  Inv'
<1>1. CASE UNCHANGED vars
  BY <1>1, StutterInv
<1>2. ASSUME NEW c \in Calls, NEW req \in Requests, Begin(c, req) PROVE Inv'
  BY <1>2, BeginInv
<1>3. ASSUME NEW c \in Calls, Serve(c) PROVE Inv'
  <2>1. CASE Authorize(c)
    BY <2>1, AuthorizeInv
  <2>2. CASE ReadOwnership(c)
    BY <2>2, ReadOwnershipInv
  <2>3. CASE ReadHolder(c)
    BY <2>3, ReadHolderInv
  <2>4. CASE ReadCustodian(c)
    BY <2>4, ReadCustodianInv
  <2>5. CASE ReadState(c)
    BY <2>5, ReadStateInv
  <2>6. CASE FindGoods(c)
    BY <2>6, FindGoodsInv
  <2>7. CASE FindAbsent(c)
    BY <2>7, FindAbsentInv
  <2>8. CASE Transfer(c)
    BY <2>8, TransferInv
  <2>9. CASE Record(c)
    BY <2>9, RecordInv
  <2>10. CASE Mark(c) \/ HandOver(c) \/ Retire(c) \/ Save(c)
    BY <2>10, OtherWritesInv
  <2>11. CASE InitOwner(c)
    BY <2>11, InitOwnerInv
  <2>12. CASE Commit(c)
    BY <2>12, CommitInv
  <2>13. CASE BreakDeadlock(c)
    BY <2>13, RejectInv DEF BreakDeadlock
  <2> QED
    BY <1>3, <2>1, <2>2, <2>3, <2>4, <2>5, <2>6, <2>7, <2>8, <2>9, <2>10, <2>11, <2>12, <2>13
       DEF Serve
<1>4. ASSUME NEW c \in Calls, Fail(c) PROVE Inv'
  BY <1>4, RejectInv DEF Fail
<1>5. CASE Terminated
  BY <1>5, StutterInv DEF Terminated
<1> QED
  BY <1>1, <1>2, <1>3, <1>4, <1>5 DEF Next
-----------------------------------------------------------------------------
(* The theorems.                                                           *)

\* Whatever calls run, each knows of the tables what its program has read and
\* written, and no two of them write one owner row.
THEOREM RegistryInvariance == Spec => []Inv
<1>1. Init => Inv
  BY InitInv
<1>2. Inv /\ [Next]_vars => Inv'
  BY NextInv
<1> QED
  BY <1>1, <1>2, PTL DEF Spec

\* Whoever wins a race of transfers, the registry names the receiver of the
\* one recorded last, and its count.
THEOREM OwnerIsLastReceiverAlways == Spec => []OwnerIsLastReceiver
<1>1. Inv => OwnerIsLastReceiver
  BY DEF Inv
<1> QED
  BY <1>1, RegistryInvariance, PTL

\* All parents of a batch in the lineage come from one split or merge.
THEOREM OriginIsUniqueAlways == Spec => []OriginIsUnique
<1>1. Inv => OriginIsUnique
  BY DEF Inv
<1> QED
  BY <1>1, RegistryInvariance, PTL
-----------------------------------------------------------------------------
(* What a statement does to the call that runs it, whichever it is.        *)

\* The goods row of s that a call has written.
Listed(call, s) == call.writes[<<"goods", s>>]

\* The owner row that transfer or init writes, and the goods row of the others.
OwnerRow(call, name) ==
  [owner |-> IF name = "transfer" \/ call.req.op = "create" THEN call.req.to ELSE call.req.by,
   count |-> IF name = "transfer" THEN call.own.count + 1 ELSE 0]
GoodsRow(c, name, s) ==
  CASE name = "mark"   -> IF s \in Assets THEN MarkedAsset(calls[c], s) ELSE MarkedBatch(c, s)
    [] name = "retire" -> [calls[c].goods[s] EXCEPT !.active = FALSE]
    [] name = "save"   -> NewGoods(calls[c], s)

\* The goods that a merge has found.
ParentsFound(call) == {call.goods[call.req.parents[i]] : i \in DOMAIN call.req.parents}

\* What a call has read by a statement, and what it has checked.
Learns(c, new, name, s) ==
  LET call == calls[c] IN
  /\ name \notin {"own", "holder"} => new.own = call.own
  /\ name = "own" => new.own = Read(c, "owner", s)
  /\ name # "state" => new.from = call.from
  /\ name = "state" => new.from = CurrentState(s)
  /\ name # "find" => new.goods = call.goods
  /\ name = "find" =>
       /\ new.goods = [call.goods EXCEPT ![s] = Read(c, "goods", s)]
       /\ Read(c, "goods", s) # None
       /\ call.req.op = "split" => MaySplit(Read(c, "goods", s), call.req)
  /\ name = "retire" /\ call.req.op = "merge" =>
       MayMerge(ParentsFound(call))

\* What it has written.
Writes(c, new, name, s) ==
  \A t \in Subjects :
    /\ Written(new, t) = IF name \in {"transfer", "init"} /\ t = s
                         THEN OwnerRow(calls[c], name) ELSE Written(calls[c], t)
    /\ Listed(new, t) = IF name \in {"mark", "retire", "save"} /\ t = s
                        THEN GoodsRow(c, name, s) ELSE Listed(calls[c], t)

Does(c, name, new) ==
  /\ calls[c].status = "open" /\ calls[c].todo # <<>>
  /\ Head(calls[c].todo)[1] = name /\ Subject(c) \in Subjects
  /\ Become(c, new) /\ GoesOn(calls[c], new) /\ new.now = calls[c].now
  /\ Learns(c, new, name, Subject(c))
  /\ Writes(c, new, name, Subject(c))

LEMMA PutsAny ==
  ASSUME NEW w, w = [q \in Rows |-> w[q]], NEW r \in Rows, NEW row, NEW q \in Rows
  PROVE  Put(w, r, row)[q] = IF q = r THEN row ELSE w[q]
  BY DEF Put

LEMMA RowsOf ==
  ASSUME NEW s \in Subjects, NEW t \in Subjects
  PROVE  /\ <<"owner", s>> \in Rows /\ <<"goods", s>> \in Rows /\ <<"custody", s>> \in Rows
         /\ <<"owner", s>> # <<"goods", t>> /\ <<"custody", s>> # <<"goods", t>>
         /\ <<"custody", s>> # <<"owner", t>>
         /\ <<"goods", s>> = <<"goods", t>> <=> s = t
         /\ <<"owner", s>> = <<"owner", t>> <=> s = t
  BY DEF Rows

\* A statement that writes nothing.
LEMMA DoesRead ==
  ASSUME Inv, NEW c \in Calls,
         NEW name \in Names \ {"transfer", "init", "mark", "retire", "save"},
         At(c, name), NEW new, GoesOn(calls[c], new), Become(c, new), new.now = calls[c].now,
         new.writes = calls[c].writes, Learns(c, new, name, Subject(c))
  PROVE  Does(c, name, new)
<1>1. /\ calls[c].status = "open" /\ calls[c].todo # <<>> /\ Head(calls[c].todo)[1] = name
      /\ Subject(c) \in Subjects
  BY AtStatement
<1>2. \A t \in Subjects : Written(new, t) = Written(calls[c], t) /\ Listed(new, t) = Listed(calls[c], t)
  BY DEF Written, Listed
<1>3. Writes(c, new, name, Subject(c))
  BY <1>2 DEF Writes
<1> QED
  BY <1>1, <1>3 DEF Does

\* A statement that writes a row of a table.
LEMMA DoesWrite ==
  ASSUME Inv, NEW c \in Calls, NEW name \in {"transfer", "init", "mark", "retire", "save", "custody"},
         At(c, name), NEW table \in {"owner", "goods", "custody"}, NEW row,
         table = "owner" <=> name \in {"transfer", "init"},
         table = "goods" <=> name \in {"mark", "retire", "save"},
         table = "owner" => row = OwnerRow(calls[c], name),
         table = "goods" => row = GoodsRow(c, name, Subject(c)),
         name = "retire" /\ calls[c].req.op = "merge" => MayMerge(ParentsFound(calls[c])),
         Write(c, table, Subject(c), row)
  PROVE  \E new : Does(c, name, new)
<1> DEFINE call == calls[c]
           s == Subject(c)
           r == <<table, s>>
           v == Put(call.writes, r, row)
           new == Wrote(call, v)
<1>1. /\ call.status = "open" /\ call.todo # <<>> /\ Head(call.todo)[1] = name
      /\ Shape(call) /\ s \in Subjects
  BY AtStatement
<1>2. Become(c, new)
  BY DEF Write, Proceed, Wrote, Put
<1>3. call.writes = [q \in Rows |-> call.writes[q]]
  BY <1>1 DEF Shape
<1>4. v = [q \in Rows |-> v[q]]
  BY <1>3 DEF Put
<1> HIDE DEF v
<1>5. /\ GoesOn(call, new) /\ new.now = call.now /\ new.own = call.own
      /\ new.from = call.from /\ new.goods = call.goods /\ new.writes = v
  BY <1>1, <1>4, WroteKeeps
<1> HIDE DEF new
<1>6. r \in Rows
  BY <1>1 DEF Rows
<1>7. \A q \in Rows : v[q] = IF q = r THEN row ELSE call.writes[q]
  BY <1>3, <1>6, PutsAny DEF v
<1>8. Learns(c, new, name, s)
  <2> HIDE DEF s, call
  <2> QED
    BY <1>5 DEF Learns, call
<1>9. Writes(c, new, name, s)
  <2> SUFFICES ASSUME NEW t \in Subjects
               PROVE  /\ Written(new, t) = IF name \in {"transfer", "init"} /\ t = s
                                           THEN OwnerRow(call, name) ELSE Written(call, t)
                      /\ Listed(new, t) = IF name \in {"mark", "retire", "save"} /\ t = s
                                          THEN GoodsRow(c, name, s) ELSE Listed(call, t)
    BY DEF Writes
  <2>1. /\ Written(new, t) = IF <<"owner", t>> = r THEN row ELSE Written(call, t)
        /\ Listed(new, t) = IF <<"goods", t>> = r THEN row ELSE Listed(call, t)
    BY <1>1, <1>5, <1>7, RowsOf DEF Written, Listed
  <2>2. /\ <<"owner", t>> = r <=> table = "owner" /\ t = s
        /\ <<"goods", t>> = r <=> table = "goods" /\ t = s
    OBVIOUS
  <2> HIDE DEF r, s, call
  <2> QED
    BY <2>1, <2>2 DEF call, s
<1> QED
  BY <1>1, <1>2, <1>5, <1>8, <1>9 DEF Does

LEMMA WriteDoes ==
  ASSUME Inv, NEW c \in Calls,
         Transfer(c) \/ Mark(c) \/ HandOver(c) \/ Retire(c) \/ Save(c) \/ InitOwner(c)
  PROVE  UNCHANGED <<tables, begun>> /\ (Reject(c) \/ \E name, new : Does(c, name, new))
<1> DEFINE call == calls[c]
           s == Subject(c)
<1>1. CASE Transfer(c)
  <2>1. /\ At(c, "transfer") /\ UNCHANGED <<tables, begun>>
        /\ Reject(c) \/ Write(c, "owner", s, [owner |-> call.req.to, count |-> call.own.count + 1])
    BY <1>1 DEF Transfer, SaveOwner
  <2>2. [owner |-> call.req.to, count |-> call.own.count + 1] = OwnerRow(call, "transfer")
    BY DEF OwnerRow
  <2> QED
    BY <2>1, <2>2, DoesWrite
<1>2. CASE Mark(c)
  <2>1. /\ At(c, "mark") /\ UNCHANGED <<tables, begun>>
        /\ Write(c, "goods", s, GoodsRow(c, "mark", s))
    BY <1>2 DEF Mark, GoodsRow
  <2> QED
    BY <2>1, DoesWrite
<1>3. CASE HandOver(c)
  <2>1. /\ At(c, "custody") /\ UNCHANGED <<tables, begun>>
        /\ \E row : Write(c, "custody", s, row)
    BY <1>3 DEF HandOver
  <2> QED
    BY <2>1, DoesWrite
<1>4. CASE Retire(c)
  <2>1. /\ At(c, "retire") /\ UNCHANGED <<tables, begun>>
        /\ \/ Reject(c)
           \/ /\ Write(c, "goods", s, GoodsRow(c, "retire", s))
              /\ call.req.op = "merge" => MayMerge(ParentsFound(call))
    BY <1>4 DEF Retire, GoodsRow, ParentsFound
  <2> QED
    BY <2>1, DoesWrite
<1>5. CASE Save(c)
  <2>1. /\ At(c, "save") /\ UNCHANGED <<tables, begun>>
        /\ Write(c, "goods", s, GoodsRow(c, "save", s))
    BY <1>5 DEF Save, GoodsRow
  <2> QED
    BY <2>1, DoesWrite
<1>6. CASE InitOwner(c)
  <2>1. /\ At(c, "init") /\ UNCHANGED <<tables, begun>>
        /\ Reject(c) \/ Write(c, "owner", s, OwnerRow(call, "init"))
    BY <1>6 DEF InitOwner, OwnerRow
  <2> QED
    BY <2>1, DoesWrite
<1> QED
  BY <1>1, <1>2, <1>3, <1>4, <1>5, <1>6

LEMMA ReadDoes ==
  ASSUME Inv, NEW c \in Calls,
         \/ Authorize(c) \/ ReadOwnership(c) \/ ReadHolder(c) \/ ReadCustodian(c)
         \/ ReadState(c) \/ FindGoods(c) \/ FindAbsent(c) \/ Record(c)
  PROVE  UNCHANGED <<tables, begun>> /\ (Reject(c) \/ \E name, new : Does(c, name, new))
<1> DEFINE call == calls[c]
           s == Subject(c)
           Quiets == Names \ {"transfer", "init", "mark", "retire", "save"}
<1>0. {"authorize", "own", "holder", "custodian", "state", "find", "absent", "record"} \subseteq Quiets
  BY DEF Names
<1>1. CASE Authorize(c)
  <2> DEFINE new == Onwards(call)
  <2>1. /\ At(c, "authorize") /\ UNCHANGED <<tables, begun>> /\ (Reject(c) \/ Become(c, new))
    BY <1>1 DEF Authorize, Proceed, Onwards
  <2>2. call.status = "open" /\ Shape(call)
    BY <2>1, AtStatement
  <2>3. /\ GoesOn(call, new) /\ new.from = call.from /\ new.now = call.now /\ new.own = call.own
        /\ new.goods = call.goods /\ new.writes = call.writes
    BY <2>2, OnwardsKeeps
  <2> HIDE DEF new
  <2>4. Learns(c, new, "authorize", s)
    BY <2>3 DEF Learns
  <2> QED
    BY <1>0, <2>1, <2>3, <2>4, DoesRead
<1>2. CASE ReadOwnership(c)
  <2> DEFINE v == Read(c, "owner", s)
             new == Owned(call, v)
  <2>1. /\ At(c, "own") /\ UNCHANGED <<tables, begun>> /\ Become(c, new)
    BY <1>2 DEF ReadOwnership, Proceed, Owned
  <2>2. call.status = "open" /\ Shape(call)
    BY <2>1, AtStatement
  <2>3. /\ GoesOn(call, new) /\ new.from = call.from /\ new.now = call.now /\ new.own = v
        /\ new.goods = call.goods /\ new.writes = call.writes
    BY <2>2, OwnedKeeps
  <2> HIDE DEF new
  <2>4. Learns(c, new, "own", s)
    BY <2>3 DEF Learns
  <2> QED
    BY <1>0, <2>1, <2>3, <2>4, DoesRead
<1>3. CASE ReadHolder(c)
  <2> DEFINE v == Read(c, "owner", s)
             new == Owned(call, v)
  <2>1. /\ At(c, "holder") /\ UNCHANGED <<tables, begun>> /\ (Reject(c) \/ Become(c, new))
    BY <1>3 DEF ReadHolder, Proceed, Owned
  <2>2. call.status = "open" /\ Shape(call)
    BY <2>1, AtStatement
  <2>3. /\ GoesOn(call, new) /\ new.from = call.from /\ new.now = call.now
        /\ new.goods = call.goods /\ new.writes = call.writes
    BY <2>2, OwnedKeeps
  <2> HIDE DEF new
  <2>4. Learns(c, new, "holder", s)
    BY <2>3 DEF Learns
  <2> QED
    BY <1>0, <2>1, <2>3, <2>4, DoesRead
<1>4. CASE ReadCustodian(c)
  <2> DEFINE v == Read(c, "custody", s)
             new == Held(call, v)
  <2>1. /\ At(c, "custodian") /\ UNCHANGED <<tables, begun>> /\ (Reject(c) \/ Become(c, new))
    BY <1>4 DEF ReadCustodian, Proceed, Held, Custodian
  <2>2. call.status = "open" /\ Shape(call)
    BY <2>1, AtStatement
  <2>3. /\ GoesOn(call, new) /\ new.from = call.from /\ new.now = call.now /\ new.own = call.own
        /\ new.goods = call.goods /\ new.writes = call.writes
    BY <2>2, HeldKeeps
  <2> HIDE DEF new
  <2>4. Learns(c, new, "custodian", s)
    BY <2>3 DEF Learns
  <2> QED
    BY <1>0, <2>1, <2>3, <2>4, DoesRead
<1>5. CASE ReadState(c)
  <2> DEFINE v == CurrentState(s)
             new == Known(call, v)
  <2>1. /\ At(c, "state") /\ UNCHANGED <<tables, begun>> /\ (Reject(c) \/ Become(c, new))
    BY <1>5 DEF ReadState, Proceed, Known
  <2>2. call.status = "open" /\ Shape(call)
    BY <2>1, AtStatement
  <2>3. /\ GoesOn(call, new) /\ new.from = v /\ new.now = call.now /\ new.own = call.own
        /\ new.goods = call.goods /\ new.writes = call.writes
    BY <2>2, KnownKeeps
  <2> HIDE DEF new
  <2>4. Learns(c, new, "state", s)
    BY <2>3 DEF Learns
  <2> QED
    BY <1>0, <2>1, <2>3, <2>4, DoesRead
<1>6. CASE FindGoods(c)
  <2> DEFINE v == [call.goods EXCEPT ![s] = Read(c, "goods", s)]
             new == Found(call, v)
  <2>1. /\ At(c, "find") /\ UNCHANGED <<tables, begun>>
        /\ \/ Reject(c)
           \/ /\ Become(c, new) /\ Read(c, "goods", s) # None
              /\ call.req.op = "split" => MaySplit(Read(c, "goods", s), call.req)
    BY <1>6 DEF FindGoods, Proceed, Found
  <2>2. call.status = "open" /\ Shape(call)
    BY <2>1, AtStatement
  <2> HIDE DEF v
  <2>3. /\ GoesOn(call, new) /\ new.from = call.from /\ new.now = call.now /\ new.own = call.own
        /\ new.goods = v /\ new.writes = call.writes
    BY <2>2, FoundKeeps
  <2> HIDE DEF new
  <2>4. ASSUME ~Reject(c) PROVE Learns(c, new, "find", s)
    BY <2>1, <2>3, <2>4 DEF Learns, v
  <2> QED
    BY <1>0, <2>1, <2>3, <2>4, DoesRead
<1>7. CASE FindAbsent(c)
  <2> DEFINE new == Onwards(call)
  <2>1. /\ At(c, "absent") /\ UNCHANGED <<tables, begun>> /\ (Reject(c) \/ Become(c, new))
    BY <1>7 DEF FindAbsent, Proceed, Onwards
  <2>2. call.status = "open" /\ Shape(call)
    BY <2>1, AtStatement
  <2>3. /\ GoesOn(call, new) /\ new.from = call.from /\ new.now = call.now /\ new.own = call.own
        /\ new.goods = call.goods /\ new.writes = call.writes
    BY <2>2, OnwardsKeeps
  <2> HIDE DEF new
  <2>4. Learns(c, new, "absent", s)
    BY <2>3 DEF Learns
  <2> QED
    BY <1>0, <2>1, <2>3, <2>4, DoesRead
<1>8. CASE Record(c)
  <2> DEFINE v == serial + 1
             new == Drawn(call, v)
  <2>1. /\ At(c, "record") /\ UNCHANGED <<tables, begun>> /\ Become(c, new)
    BY <1>8 DEF Record, Proceed, Drawn
  <2>2. call.status = "open" /\ Shape(call)
    BY <2>1, AtStatement
  <2>3. /\ GoesOn(call, new) /\ new.from = call.from /\ new.now = call.now /\ new.own = call.own
        /\ new.goods = call.goods /\ new.writes = call.writes
    BY <2>2, DrawnKeeps
  <2> HIDE DEF new
  <2>4. Learns(c, new, "record", s)
    BY <2>3 DEF Learns
  <2> QED
    BY <1>0, <2>1, <2>3, <2>4, DoesRead
<1> QED
  BY <1>1, <1>2, <1>3, <1>4, <1>5, <1>6, <1>7, <1>8

\* Every step, as the properties of the tables see it.
LEMMA StepCases ==
  ASSUME Inv, [Next]_vars
  PROVE  \/ UNCHANGED vars
         \/ \E c \in Calls :
              \/ \E req \in Requests : Begin(c, req)
              \/ Commit(c)
              \/ UNCHANGED <<tables, begun>> /\ (Reject(c) \/ \E name, new : Does(c, name, new))
<1>1. ASSUME NEW c \in Calls, Serve(c), ~Commit(c)
      PROVE  UNCHANGED <<tables, begun>> /\ (Reject(c) \/ \E name, new : Does(c, name, new))
  <2>1. CASE BreakDeadlock(c)
    BY <2>1 DEF BreakDeadlock
  <2> QED
    BY <1>1, <2>1, ReadDoes, WriteDoes DEF Serve
<1>2. ASSUME NEW c \in Calls, Fail(c)
      PROVE  UNCHANGED <<tables, begun>> /\ Reject(c)
  BY <1>2 DEF Fail
<1>3. Terminated => UNCHANGED vars
  BY DEF Terminated
<1> QED
  BY <1>1, <1>2, <1>3 DEF Next
-----------------------------------------------------------------------------
(* When calls begin, and what a step does to the call that takes it.       *)

\* Calls begin one after the other, and the log tells by the time of its
\* entries which call wrote each.
Times ==
  /\ begun \in Nat
  /\ \A c \in Calls : Open(c) => calls[c].now \in Nat /\ calls[c].now <= begun
  /\ \A c, d \in Calls : Open(c) /\ Open(d) /\ calls[c].now = calls[d].now => c = d
  /\ \A e \in events : e.now \in Nat /\ e.now <= begun
  /\ \A c \in Calls, e \in events : Open(c) => e.now # calls[c].now
  /\ \A d, e \in events : d.subject = e.subject /\ d.now = e.now => d = e

LEMMA BecomeIs ==
  ASSUME Inv, NEW c \in Calls, NEW new, Become(c, new)
  PROVE  calls'[c] = new /\ \A d \in Calls : d # c => calls'[d] = calls[d]
  BY DEF Inv, Become

LEMMA RejectIs ==
  ASSUME Inv, NEW c \in Calls, Reject(c) \/ Commit(c)
  PROVE  /\ calls'[c].status # "open" /\ \A d \in Calls : d # c => calls'[d] = calls[d]
         /\ ~Open(c)' /\ \A d \in Calls : Open(d)' => d # c /\ Open(d)
<1> DEFINE e == [Unborn EXCEPT !.status = "ended"]
<1>1. Become(c, e)
  BY DEF Reject, Commit, End
<1>2. e.status = "ended"
  BY DEF Unborn
<1> HIDE DEF e
<1>3. calls'[c] = e /\ \A d \in Calls : d # c => calls'[d] = calls[d]
  BY <1>1, BecomeIs
<1> QED
  BY <1>2, <1>3 DEF Open

LEMMA DoesIs ==
  ASSUME Inv, NEW c \in Calls, NEW name, NEW new, Does(c, name, new)
  PROVE  /\ Open(c) /\ Open(c)' /\ calls'[c] = new /\ new.now = calls[c].now
         /\ \A d \in Calls : d # c => calls'[d] = calls[d]
         /\ \A d \in Calls : Open(d)' <=> Open(d)
<1>1. /\ calls[c].status = "open" /\ new.status = "open" /\ new.now = calls[c].now
      /\ calls'[c] = new /\ \A d \in Calls : d # c => calls'[d] = calls[d]
  BY BecomeIs DEF Does, GoesOn
<1> QED
  BY <1>1 DEF Open

LEMMA BegunNow ==
  ASSUME NEW req, NEW now
  PROVE  /\ Begun(req, now).now = now /\ Begun(req, now).own = None
         /\ Begun(req, now).from = "created"
         /\ Begun(req, now).goods = [s \in Subjects |-> None]
         /\ \A t \in Subjects : Listed(Begun(req, now), t) = Unwritten
<1> DEFINE new == Begun(req, now)
<1>1. /\ new.now = now /\ new.own = None /\ new.goods = [s \in Subjects |-> None]
      /\ new.from = "created" /\ new.writes = NoWrites
  BY DEF Begun, Unborn
<1>2. \A t \in Subjects : NoWrites[<<"goods", t>>] = Unwritten
  BY DEF NoWrites, Rows
<1> QED
  BY <1>1, <1>2 DEF Listed

LEMMA BeginIs ==
  ASSUME Inv, NEW c \in Calls, NEW req \in Requests, Begin(c, req)
  PROVE  /\ calls'[c] = Begun(req, begun + 1) /\ Open(c)' /\ ~Open(c)
         /\ \A d \in Calls : d # c => calls'[d] = calls[d] /\ (Open(d)' <=> Open(d))
         /\ UNCHANGED tables /\ begun' = begun + 1
<1>1. Become(c, Begun(req, begun + 1)) /\ UNCHANGED tables /\ begun' = begun + 1
      /\ calls[c].status = "idle"
  BY DEF Begin, Begun
<1>2. calls'[c] = Begun(req, begun + 1) /\ \A d \in Calls : d # c => calls'[d] = calls[d]
  BY <1>1, BecomeIs
<1>3. Begun(req, begun + 1).status = "open"
  BY BegunIs
<1> QED
  BY <1>1, <1>2, <1>3 DEF Open

LEMMA AppendedIs ==
  ASSUME NEW call, NEW e \in Appended(call)
  PROVE  /\ e = Event(call.req.subject, call.from, call.req.state, call.now)
         /\ Appended(call) = {e}
         /\ e.subject = call.req.subject /\ e.to = call.req.state /\ e.now = call.now
         /\ e.from = call.from
         /\ call.req.op \notin {"split", "merge"} /\ call.req.state # None
         /\ ~(call.req.op = "create" /\ call.req.subject \in Assets)
<1>1. /\ Appended(call) = {Event(call.req.subject, call.from, call.req.state, call.now)}
      /\ call.req.op \notin {"split", "merge"} /\ call.req.state # None
      /\ ~(call.req.op = "create" /\ call.req.subject \in Assets)
  BY DEF Appended
<1> QED
  BY <1>1 DEF Event

LEMMA TimesInit ==
  ASSUME Init
  PROVE  Times
<1>1. begun = 0 /\ \A c \in Calls : ~Open(c)
  BY DEF Init, Open, Unborn
<1>2. \A e \in events : e = Event(e.subject, "created", Stock[e.subject].state, 0)
  BY DEF Init, Event
<1>3. \A e \in events : e.now = 0
  BY <1>2 DEF Event
<1> QED
  BY <1>1, <1>2, <1>3 DEF Times

LEMMA TimesNext ==
  ASSUME Inv, Times, [Next]_vars
  PROVE  Times'
<1>1. CASE UNCHANGED vars
  BY <1>1 DEF vars, Times, Open
<1>2. ASSUME NEW c \in Calls, NEW req \in Requests, Begin(c, req)
      PROVE  Times'
  <2>1. /\ calls'[c] = Begun(req, begun + 1)
        /\ \A d \in Calls : d # c => calls'[d] = calls[d] /\ (Open(d)' <=> Open(d))
        /\ events' = events /\ begun' = begun + 1
    BY <1>2, BeginIs DEF tables
  <2>2. calls'[c].now = begun + 1
    BY <2>1, BegunNow
  <2>3. /\ begun \in Nat /\ \A e \in events : e.now \in Nat /\ e.now <= begun
        /\ \A d \in Calls : Open(d) => calls[d].now \in Nat /\ calls[d].now <= begun
    BY DEF Times
  <2>4. /\ begun + 1 \in Nat /\ \A e \in events : e.now <= begun + 1 /\ e.now # begun + 1
        /\ \A d \in Calls : Open(d) => calls[d].now <= begun + 1 /\ calls[d].now # begun + 1
    BY <2>3
  <2>5. \A d \in Calls : Open(d)' => calls'[d].now \in Nat /\ calls'[d].now <= begun'
    BY <2>1, <2>2, <2>3, <2>4
  <2>6. \A d, e \in Calls : Open(d)' /\ Open(e)' /\ calls'[d].now = calls'[e].now => d = e
    BY <2>1, <2>2, <2>4 DEF Times
  <2>7. \A d \in Calls, e \in events' : Open(d)' => e.now # calls'[d].now
    BY <2>1, <2>2, <2>4 DEF Times
  <2>8. \A d, e \in events' : d.subject = e.subject /\ d.now = e.now => d = e
    BY <2>1 DEF Times
  <2> QED
    BY <2>1, <2>3, <2>4, <2>5, <2>6, <2>7, <2>8 DEF Times
<1>3. ASSUME NEW c \in Calls, Commit(c)
      PROVE  Times'
  <2>1. \A d \in Calls : Open(d)' => d # c /\ Open(d) /\ calls'[d] = calls[d]
    BY <1>3, RejectIs
  <2>2. Open(c) /\ begun' = begun /\ events' = events \cup Appended(calls[c])
    BY <1>3 DEF Commit
  <2>3. \A e \in Appended(calls[c]) : e.now = calls[c].now
    BY AppendedIs
  <2>4. \A e \in events' : e.now \in Nat /\ e.now <= begun
    BY <2>2, <2>3 DEF Times
  <2>5. \A d \in Calls : Open(d)' => calls[d].now # calls[c].now
    BY <2>1, <2>2 DEF Times
  <2>6. \A d \in Calls, e \in events' : Open(d)' => e.now # calls'[d].now
    BY <2>1, <2>2, <2>3, <2>5 DEF Times
  <2>7. ASSUME NEW d \in events', NEW e \in events', d.subject = e.subject, d.now = e.now
        PROVE  d = e
    <3>1. CASE d \in events /\ e \in events
      BY <2>7, <3>1 DEF Times
    <3>2. CASE d \in Appended(calls[c]) /\ e \in Appended(calls[c])
      BY <3>2, AppendedIs
    <3>3. \A f \in events : f.now # calls[c].now
      BY <2>2 DEF Times
    <3> QED
      BY <2>2, <2>3, <2>7, <3>1, <3>2, <3>3
  <2>8. /\ begun' \in Nat
        /\ \A d \in Calls : Open(d)' => calls'[d].now \in Nat /\ calls'[d].now <= begun'
        /\ \A d, e \in Calls : Open(d)' /\ Open(e)' /\ calls'[d].now = calls'[e].now => d = e
    BY <2>1, <2>2 DEF Times
  <2> QED
    BY <2>2, <2>4, <2>6, <2>7, <2>8 DEF Times
<1>4. ASSUME NEW c \in Calls, UNCHANGED <<tables, begun>>, Reject(c)
      PROVE  Times'
  <2>1. \A d \in Calls : Open(d)' => Open(d) /\ calls'[d] = calls[d]
    BY <1>4, RejectIs
  <2> QED
    BY <1>4, <2>1 DEF Times, tables
<1>5. ASSUME NEW c \in Calls, UNCHANGED <<tables, begun>>, NEW name, NEW new, Does(c, name, new)
      PROVE  Times'
  <2>1. \A d \in Calls : (Open(d)' <=> Open(d)) /\ calls'[d].now = calls[d].now
    BY <1>5, DoesIs
  <2> QED
    BY <1>5, <2>1 DEF Times, tables
<1> QED
  BY <1>1, <1>2, <1>3, <1>4, <1>5, StepCases
-----------------------------------------------------------------------------
(* The history of transfers.                                               *)

\* The owner rows a transfer of s starts from: the one in the table, and those
\* that the transfers under way have read, some of which may be old.
Holds(s, row) ==
  \/ row = db[<<"owner", s>>] /\ row # None
  \/ \E c \in Calls : /\ Open(c) /\ calls[c].req.op = "transfer" /\ calls[c].req.subject = s
                      /\ Place(calls[c]) >= 2 /\ row = calls[c].own

\* Each names the receiver of a transfer that led to its count, or counts none;
\* and those that count none name one owner, whom the first transfers came from.
Grounded(s) ==
  /\ \A row : Holds(s, row) =>
       /\ row \in OwnerRows
       /\ row.count > 0 => \E q \in History(s) : q.count = row.count /\ q.to = row.owner
       /\ row.count = 0 => \A q \in History(s) : q.count = 1 => q.from = row.owner
  /\ \A row, other : Holds(s, row) /\ Holds(s, other) /\ row.count = 0 /\ other.count = 0 =>
       row.owner = other.owner
  /\ \A r \in History(s) : r.count \in Nat /\ r.count >= 1

\* A call that is no transfer counts from none.
CountsNone(call) ==
  call.req.op # "transfer" =>
    \A t \in Subjects : Written(call, t) # Unwritten => Written(call, t).count = 0

HistoryInv == /\ \A s \in Subjects : Grounded(s)
              /\ HistoryIsGrounded
              /\ \A c \in Calls : Open(c) => CountsNone(calls[c])

\* A step that leaves the tables alone, and has a transfer read only the row
\* there is.
LEMMA QuietHistory ==
  ASSUME HistoryInv, UNCHANGED tables,
         \A s \in Subjects : \A row : Holds(s, row)' => Holds(s, row),
         \A c \in Calls : Open(c)' => CountsNone(calls'[c])
  PROVE  HistoryInv'
<1>1. \A s : History(s)' = History(s)
  BY DEF History, tables
<1>2. HistoryIsGrounded'
  BY <1>1 DEF HistoryInv, HistoryIsGrounded, tables
<1>3. ASSUME NEW s \in Subjects
      PROVE  Grounded(s)'
  BY <1>1, <1>3 DEF HistoryInv, Grounded
<1> QED
  BY <1>2, <1>3 DEF HistoryInv

LEMMA DoesHistory ==
  ASSUME Inv, HistoryInv, NEW c \in Calls, NEW name, NEW new, Does(c, name, new), UNCHANGED tables
  PROVE  HistoryInv'
<1> DEFINE call == calls[c]
           s == Subject(c)
<1>1. /\ call.status = "open" /\ call.todo # <<>> /\ Head(call.todo)[1] = name /\ s \in Subjects
      /\ GoesOn(call, new) /\ Learns(c, new, name, s) /\ Writes(c, new, name, s)
      /\ Knows(call, db, transfers, serial)
  BY DEF Does, Inv
<1>2. new.req = call.req
  BY <1>1 DEF GoesOn
<1>3. /\ Open(c) /\ calls'[c] = new /\ db' = db
      /\ \A d \in Calls : d # c => calls'[d] = calls[d]
      /\ \A d \in Calls : Open(d)' <=> Open(d)
  BY DoesIs DEF tables
<1>4. ASSUME call.req.op = "transfer", Place(new) >= 2
      PROVE  Holds(call.req.subject, new.own)
  <2> DEFINE k == Place(call)
  <2>1. /\ k \in Nat /\ Place(new) = k + 1 /\ (name = "own" <=> k = 1) /\ name # "holder"
        /\ TransferKnows(call, db, transfers, serial)
    BY <1>1, <1>4, TransferStatement
  <2>2. CASE k = 1
    <3>1. At(c, "own")
      BY <1>1, <2>1, <2>2 DEF At, Open
    <3>2. Read(c, "owner", s) = db[<<"owner", call.req.subject>>]
      BY <1>4, <3>1, TransferReads
    <3>3. new.own = db[<<"owner", call.req.subject>>]
      BY <1>1, <2>1, <2>2, <3>2 DEF Learns
    <3>4. db[<<"owner", call.req.subject>>] # None
      BY <2>1, <2>2 DEF TransferKnows
    <3> QED
      BY <3>3, <3>4 DEF Holds
  <2>3. CASE k >= 2
    <3>1. new.own = call.own
      BY <1>1, <2>1, <2>3 DEF Learns
    <3> QED
      BY <1>3, <1>4, <2>3, <3>1 DEF Holds
  <2> HIDE DEF k
  <2>4. k = 1 \/ k >= 2
    BY <1>4, <2>1
  <2> QED
    BY <2>2, <2>3, <2>4
<1>5. ASSUME NEW t \in Subjects, NEW row, Holds(t, row)'
      PROVE  Holds(t, row)
  <2>1. CASE row = db'[<<"owner", t>>] /\ row # None
    BY <1>3, <2>1 DEF Holds
  <2>2. CASE ~(row = db'[<<"owner", t>>] /\ row # None)
    <3>1. PICK d \in Calls : /\ Open(d)' /\ calls'[d].req.op = "transfer" /\ calls'[d].req.subject = t
                             /\ Place(calls'[d]) >= 2 /\ row = calls'[d].own
      BY <1>5, <2>2 DEF Holds
    <3>2. CASE d = c
      BY <1>2, <1>3, <1>4, <3>1, <3>2
    <3>3. CASE d # c
      BY <1>3, <3>1, <3>3 DEF Holds
    <3> QED
      BY <3>2, <3>3
  <2> QED
    BY <2>1, <2>2
<1>6. CountsNone(new)
  <2> SUFFICES ASSUME call.req.op # "transfer", NEW t \in Subjects, Written(new, t) # Unwritten
               PROVE  Written(new, t).count = 0
    BY <1>2 DEF CountsNone
  <2>1. name # "transfer"
    BY <1>1, OtherStatement
  <2>2. OwnerRow(call, name).count = 0
    BY <2>1 DEF OwnerRow
  <2>3. CountsNone(call)
    BY <1>3 DEF HistoryInv
  <2> QED
    BY <1>1, <2>1, <2>2, <2>3 DEF Writes, CountsNone
<1>7. \A d \in Calls : Open(d)' => CountsNone(calls'[d])
  BY <1>3, <1>6 DEF HistoryInv
<1> QED
  BY <1>5, <1>7, QuietHistory

LEMMA BeginHistory ==
  ASSUME Inv, HistoryInv, NEW c \in Calls, NEW req \in Requests, Begin(c, req)
  PROVE  HistoryInv'
<1> DEFINE new == Begun(req, begun + 1)
<1>1. /\ new.req = req /\ new.todo = Program(req) /\ \A t \in Subjects : Written(new, t) = Unwritten
  BY BegunIs
<1>2. /\ calls'[c] = new /\ UNCHANGED tables /\ db' = db
      /\ \A d \in Calls : d # c => calls'[d] = calls[d] /\ (Open(d)' <=> Open(d))
  BY BeginIs DEF tables
<1> HIDE DEF new
<1>3. ASSUME req.op = "transfer" PROVE ~(Place(new) >= 2)
  <2>1. Program(req) \in Seq(Statements)
    BY <1>3, TransferProgram
  <2>2. Len(Program(req)) \in Nat
    BY <2>1
  <2> QED
    BY <1>1, <2>2 DEF Place
<1>4. ASSUME NEW t \in Subjects, NEW row, Holds(t, row)'
      PROVE  Holds(t, row)
  <2>1. CASE row = db'[<<"owner", t>>] /\ row # None
    BY <1>2, <2>1 DEF Holds
  <2>2. CASE ~(row = db'[<<"owner", t>>] /\ row # None)
    <3>1. PICK d \in Calls : /\ Open(d)' /\ calls'[d].req.op = "transfer" /\ calls'[d].req.subject = t
                             /\ Place(calls'[d]) >= 2 /\ row = calls'[d].own
      BY <1>4, <2>2 DEF Holds
    <3>2. d # c
      BY <1>1, <1>2, <1>3, <3>1
    <3> QED
      BY <1>2, <3>1, <3>2 DEF Holds
  <2> QED
    BY <2>1, <2>2
<1>5. CountsNone(new)
  BY <1>1 DEF CountsNone
<1>6. \A d \in Calls : Open(d)' => CountsNone(calls'[d])
  BY <1>2, <1>5 DEF HistoryInv
<1> QED
  BY <1>2, <1>4, <1>6, QuietHistory

\* The rows transfers start from after a step that ends a call.
LEMMA HoldsAfter ==
  ASSUME Inv, NEW c \in Calls, Reject(c) \/ Commit(c), NEW s \in Subjects, NEW row, Holds(s, row)'
  PROVE  Holds(s, row) \/ (row = db'[<<"owner", s>>] /\ row # None)
<1>1. \A d \in Calls : Open(d)' => Open(d) /\ calls'[d] = calls[d]
  BY RejectIs
<1> QED
  BY <1>1 DEF Holds

LEMMA RejectHistory ==
  ASSUME Inv, HistoryInv, NEW c \in Calls, Reject(c), UNCHANGED tables
  PROVE  HistoryInv'
<1>1. \A d \in Calls : Open(d)' => Open(d) /\ calls'[d] = calls[d]
  BY RejectIs
<1>2. db' = db
  BY DEF tables
<1>3. \A s \in Subjects : \A row : Holds(s, row)' => Holds(s, row)
  BY <1>2, HoldsAfter DEF Holds
<1> QED
  BY <1>1, <1>3, QuietHistory DEF HistoryInv

\* The transfer that is committed starts from a row that transfers start from.
LEMMA TransferHolds ==
  ASSUME Inv, NEW c \in Calls, Commit(c), calls[c].req.op = "transfer"
  PROVE  Holds(calls[c].req.subject, calls[c].own)
<1> DEFINE call == calls[c]
<1>1. /\ call.status = "open" /\ call.todo = <<>> /\ Knows(call, db, transfers, serial)
  BY CommitTables
<1>2. call.req \in Requests
  BY <1>1 DEF Knows
<1>3. Place(call) >= 2
  <2>1. Program(call.req) \in Seq(Statements) /\ Len(Program(call.req)) >= TransferAt(call.req) + 1
    BY <1>2, TransferProgram
  <2>2. TransferAt(call.req) \in {3, 4} /\ Len(Program(call.req)) \in Nat
    BY <2>1 DEF TransferAt
  <2> QED
    BY <1>1, <2>1, <2>2 DEF Place
<1> QED
  BY <1>1, <1>3 DEF Holds, Open

\* A transfer that is committed adds its record to the history of its subject.
LEMMA TransferHistory ==
  ASSUME Inv, HistoryInv, NEW c \in Calls, Commit(c), calls[c].req.op = "transfer"
  PROVE  /\ HistoryIsGrounded'
         /\ \A s \in Subjects : Grounded(s)'
<1>0. PICK s : s = calls[c].req.subject
  OBVIOUS
<1> DEFINE call == calls[c]
           own == call.own
           e == [subject |-> s, by |-> call.req.by, from |-> own.owner,
                 to |-> call.req.to, count |-> own.count + 1, serial |-> call.serial]
<1>1. /\ call.status = "open" /\ call.todo = <<>> /\ Knows(call, db, transfers, serial)
      /\ \A t \in Subjects : db'[<<"owner", t>>] = Merged(call, db, t)
      /\ transfers' = transfers \cup {e}
  BY <1>0, CommitTables DEF Entries
<1>2. /\ s \in Subjects
      /\ Written(call, s) = [owner |-> call.req.to, count |-> own.count + 1]
      /\ Written(call, s) \in OwnerRows
      /\ \A t \in Subjects : t # s => Written(call, t) = Unwritten
      /\ call.serial \in Nat
      /\ \A r \in transfers : r.subject = s => r.serial < call.serial
  BY <1>0, <1>1, Finished
<1>3. Holds(s, own)
  BY <1>0, TransferHolds
<1>4. e.subject = s /\ e.from = own.owner /\ e.to = call.req.to /\ e.count = own.count + 1
      /\ e.serial = call.serial
  OBVIOUS
<1>5. Unwritten \notin OwnerRows
  BY RegistryAssumption
<1> DEFINE fresh == [owner |-> call.req.to, count |-> own.count + 1]
<1>6. fresh.owner = e.to /\ fresh.count = e.count /\ fresh \in OwnerRows /\ db'[<<"owner", s>>] = fresh
  BY <1>1, <1>2, <1>4, <1>5 DEF Merged
<1>7. \A t \in Subjects : t # s => db'[<<"owner", t>>] = db[<<"owner", t>>]
  BY <1>1, <1>2 DEF Merged
<1> HIDE DEF e, fresh, call, own
<1>8. /\ History(s)' = History(s) \cup {e}
      /\ \A t \in Subjects : t # s => History(t)' = History(t)
  <2>1. transfers' = transfers \cup {e} /\ e.subject = s
    BY <1>1, <1>4
  <2>2. History(s)' = History(s) \cup {e}
    BY <2>1 DEF History
  <2>3. ASSUME NEW t \in Subjects, t # s PROVE History(t)' = History(t)
    BY <2>1, <2>3 DEF History
  <2> QED
    BY <2>2, <2>3
<1>9. own \in OwnerRows /\ own.count \in Nat /\ own.count + 1 >= 1
      /\ (own.count + 1 = 1 <=> own.count = 0) /\ ~(own.count + 1 = 0)
      /\ own.count + 1 \in Nat /\ (own.count + 1 > 1 => own.count > 0)
  <2>1. own \in OwnerRows
    BY <1>2, <1>3 DEF HistoryInv, Grounded
  <2>2. own.count \in Nat
    BY <2>1 DEF OwnerRows
  <2> QED
    BY <2>1, <2>2
<1>10. \A t \in Subjects : Grounded(t)
  BY DEF HistoryInv
<1>11. ASSUME NEW t \in Subjects, NEW row, Holds(t, row)'
       PROVE  Holds(t, row) \/ (t = s /\ row = fresh)
  BY <1>6, <1>7, <1>11, HoldsAfter DEF Holds
<1>12. \A q \in History(s) : q.count = 1 /\ own.count = 0 => q.from = own.owner
  BY <1>2, <1>3, <1>10 DEF Grounded
<1>13. ASSUME NEW t \in Subjects
       PROVE  Grounded(t)'
  <2>1. CASE t # s
    <3>1. \A row : Holds(t, row)' => Holds(t, row)
      BY <1>11, <2>1
    <3>2. History(t)' = History(t) /\ Grounded(t)
      BY <1>8, <1>10, <2>1
    <3> QED
      BY <3>1, <3>2 DEF Grounded
  <2>2. CASE t = s
    <3>1. ASSUME NEW row, Holds(s, row)'
          PROVE  /\ row \in OwnerRows
                 /\ row.count > 0 => \E q \in History(s)' : q.count = row.count /\ q.to = row.owner
                 /\ row.count = 0 => \A q \in History(s)' : q.count = 1 => q.from = row.owner
      <4>1. CASE row = fresh
        BY <1>4, <1>6, <1>8, <1>9, <4>1
      <4>2. CASE Holds(s, row)
        <5>1. /\ row \in OwnerRows
              /\ row.count > 0 => \E q \in History(s) : q.count = row.count /\ q.to = row.owner
              /\ row.count = 0 => \A q \in History(s) : q.count = 1 => q.from = row.owner
          BY <1>2, <1>10, <4>2 DEF Grounded
        <5>2. row.count = 0 /\ own.count = 0 => own.owner = row.owner
          BY <1>2, <1>3, <1>10, <4>2 DEF Grounded
        <5>3. row.count = 0 /\ e.count = 1 => e.from = row.owner
          BY <1>4, <1>9, <5>2
        <5> QED
          BY <1>8, <5>1, <5>3
      <4> QED
        BY <1>2, <1>11, <3>1, <4>1, <4>2
    <3>2. ASSUME NEW row, NEW other, Holds(s, row)', Holds(s, other)', row.count = 0, other.count = 0
          PROVE  row.owner = other.owner
      <4>1. Holds(s, row) /\ Holds(s, other)
        BY <1>2, <1>4, <1>6, <1>9, <1>11, <3>2
      <4> QED
        BY <1>2, <1>10, <3>2, <4>1 DEF Grounded
    <3>3. \A r \in History(s)' : r.count \in Nat /\ r.count >= 1
      BY <1>2, <1>4, <1>8, <1>9, <1>10 DEF Grounded
    <3>4. Grounded(s)'
      BY <3>1, <3>2, <3>3 DEF Grounded
    <3> QED
      BY <2>2, <3>4
  <2> QED
    BY <2>1, <2>2
<1>14. ASSUME NEW r \in transfers'
       PROVE  /\ r.count = 1 => \A q \in History(r.subject)' : q.count = 1 => q.from = r.from
              /\ r.count > 1 => \E q \in History(r.subject)' :
                                   /\ q.count = r.count - 1 /\ q.to = r.from
                                   /\ q.serial < r.serial
  <2>1. CASE r = e
    <3>1. r.count = 1 => \A q \in History(s)' : q.count = 1 => q.from = r.from
      BY <1>4, <1>8, <1>9, <1>12, <2>1
    <3>2. ASSUME r.count > 1
          PROVE  \E q \in History(s)' : /\ q.count = r.count - 1 /\ q.to = r.from
                                        /\ q.serial < r.serial
      <4>1. own.count > 0
        BY <1>4, <1>9, <2>1, <3>2
      <4>2. PICK q \in History(s) : q.count = own.count /\ q.to = own.owner
        BY <1>2, <1>3, <1>10, <4>1 DEF Grounded
      <4>3. q.serial < e.serial
        BY <1>2, <1>4, <4>2 DEF History
      <4>4. q.count = r.count - 1 /\ q.to = r.from /\ q.serial < r.serial
        BY <1>4, <1>9, <2>1, <4>2, <4>3
      <4> QED
        BY <1>8, <4>4
    <3> QED
      BY <1>4, <2>1, <3>1, <3>2
  <2>2. CASE r \in transfers
    <3>1. r.subject \in Subjects
      BY <2>2 DEF Inv, TablesInv
    <3>2. History(r.subject) \subseteq History(r.subject)'
      BY <1>8, <3>1
    <3>3. /\ r.count = 1 => \A q \in History(r.subject) : q.count = 1 => q.from = r.from
          /\ r.count > 1 => \E q \in History(r.subject) :
                               /\ q.count = r.count - 1 /\ q.to = r.from /\ q.serial < r.serial
      BY <2>2 DEF HistoryInv, HistoryIsGrounded
    <3>4. ASSUME r.count = 1, NEW q \in History(r.subject)', q.count = 1
          PROVE  q.from = r.from
      <4>1. CASE q \in History(r.subject)
        BY <3>3, <3>4, <4>1
      <4>2. CASE q \notin History(r.subject)
        <5>1. r.subject = s /\ q = e
          BY <1>8, <3>1, <3>4, <4>2
        <5>2. r \in History(s)
          BY <2>2, <5>1 DEF History
        <5>3. r.from = own.owner
          BY <1>4, <1>9, <1>12, <3>4, <5>1, <5>2
        <5> QED
          BY <1>4, <5>1, <5>3
      <4> QED
        BY <4>1, <4>2
    <3> QED
      BY <3>2, <3>3, <3>4
  <2> QED
    BY <1>1, <2>1, <2>2
<1>15. HistoryIsGrounded'
  BY <1>14 DEF HistoryIsGrounded
<1> QED
  BY <1>13, <1>15

\* Another call adds no record, and owners only to what had none.
LEMMA OtherHistory ==
  ASSUME Inv, HistoryInv, NEW c \in Calls, Commit(c), calls[c].req.op # "transfer"
  PROVE  /\ HistoryIsGrounded'
         /\ \A s \in Subjects : Grounded(s)'
<1> DEFINE call == calls[c]
<1>1. /\ call.status = "open" /\ call.todo = <<>> /\ Knows(call, db, transfers, serial)
      /\ \A t \in Subjects : db'[<<"owner", t>>] = Merged(call, db, t)
      /\ transfers' = transfers
  BY CommitTables DEF Entries
<1>2. \A t \in Subjects : Written(call, t) # Unwritten =>
        db[<<"owner", t>>] = None /\ Written(call, t) \in OwnerRows
  BY <1>1, Finished
<1>3. \A t : History(t)' = History(t)
  BY <1>1 DEF History
<1>4. HistoryIsGrounded'
  BY <1>1, <1>3 DEF HistoryInv, HistoryIsGrounded
<1>5. CountsNone(call)
  BY <1>1 DEF HistoryInv, Open
<1> HIDE DEF call
<1>6. ASSUME NEW s \in Subjects
      PROVE  Grounded(s)'
  <2>1. Grounded(s)
    BY DEF HistoryInv
  <2>2. CASE Written(call, s) = Unwritten
    <3>1. db'[<<"owner", s>>] = db[<<"owner", s>>]
      BY <1>1, <2>2 DEF Merged
    <3>2. \A row : Holds(s, row)' => Holds(s, row)
      BY <3>1, HoldsAfter DEF Holds
    <3> QED
      BY <1>3, <2>1, <3>2 DEF Grounded
  <2>3. CASE Written(call, s) # Unwritten
    <3> DEFINE fresh == Written(call, s)
    <3>1. db'[<<"owner", s>>] = fresh /\ db[<<"owner", s>>] = None /\ fresh \in OwnerRows
      BY <1>1, <1>2, <2>3 DEF Merged
    <3>2. fresh.count = 0
      BY <1>5, <2>3, calls[c].req.op # "transfer" DEF CountsNone, call
    <3>3. History(s) = {}
      BY <3>1 DEF Inv, TablesInv, History
    <3>4. \A row : ~Holds(s, row)
      <4> SUFFICES ASSUME NEW row, Holds(s, row) PROVE FALSE
        OBVIOUS
      <4>1. PICK d \in Calls : /\ Open(d) /\ calls[d].req.op = "transfer" /\ calls[d].req.subject = s
                               /\ Place(calls[d]) >= 2
        BY <3>1 DEF Holds
      <4>2. TransferKnows(calls[d], db, transfers, serial) /\ calls[d].req \in Requests
        BY <4>1 DEF Inv, Knows, Open
      <4>3. Place(calls[d]) >= 1
        <5>1. calls[d].todo \in Seq(Statements) /\ Program(calls[d].req) \in Seq(Statements)
          BY <4>1, <4>2, TransferProgram DEF TransferKnows, Ahead
        <5>2. Len(calls[d].todo) \in Int /\ Len(Program(calls[d].req)) \in Int
          BY <5>1
        <5> QED
          BY <4>1, <5>2 DEF Place
      <4> QED
        BY <3>1, <4>1, <4>2, <4>3 DEF TransferKnows
    <3> HIDE DEF fresh
    <3>5. \A row : Holds(s, row)' => row = fresh
      BY <3>1, <3>4, HoldsAfter
    <3> QED
      BY <1>3, <3>1, <3>2, <3>3, <3>5 DEF Grounded
  <2> QED
    BY <2>2, <2>3
<1> QED
  BY <1>4, <1>6

LEMMA HistoryInit ==
  ASSUME Init
  PROVE  HistoryInv
<1>1. transfers = {} /\ \A s \in Subjects : History(s) = {}
  BY DEF Init, History
<1>2. \A c \in Calls : ~Open(c)
  BY DEF Init, Open, Unborn
<1>3. ASSUME NEW s \in Subjects, NEW row, Holds(s, row)
      PROVE  row = db[<<"owner", s>>] /\ row \in OwnerRows /\ row.count = 0
  <2>1. row = db[<<"owner", s>>] /\ row # None
    BY <1>2, <1>3 DEF Holds
  <2>2. s \in DOMAIN Stock /\ row = [owner |-> Stock[s].producer, count |-> 0]
    BY <2>1 DEF Init, Rows
  <2>3. Stock[s].producer \in Parties
    BY <2>2, RegistryAssumption
  <2> QED
    BY <2>1, <2>2, <2>3 DEF OwnerRows
<1>4. ASSUME NEW s \in Subjects PROVE Grounded(s)
  <2>1. \A row : Holds(s, row) => row = db[<<"owner", s>>] /\ row \in OwnerRows /\ row.count = 0
    BY <1>3
  <2> QED
    BY <1>1, <2>1 DEF Grounded
<1> QED
  BY <1>1, <1>2, <1>4 DEF HistoryInv, HistoryIsGrounded

LEMMA HistoryNext ==
  ASSUME Inv, HistoryInv, [Next]_vars
  PROVE  HistoryInv'
<1>1. CASE UNCHANGED vars
  <2>1. UNCHANGED tables /\ calls' = calls /\ db' = db
    BY <1>1 DEF vars, tables
  <2> QED
    BY <2>1, QuietHistory DEF HistoryInv, Open, Holds
<1>2. ASSUME NEW c \in Calls, NEW req \in Requests, Begin(c, req)
      PROVE  HistoryInv'
  BY <1>2, BeginHistory
<1>3. ASSUME NEW c \in Calls, Commit(c)
      PROVE  HistoryInv'
  <2>1. \A d \in Calls : Open(d)' => Open(d) /\ calls'[d] = calls[d]
    BY <1>3, RejectIs
  <2>2. HistoryIsGrounded' /\ \A s \in Subjects : Grounded(s)'
    BY <1>3, TransferHistory, OtherHistory
  <2>3. \A d \in Calls : Open(d)' => CountsNone(calls'[d])
    BY <2>1 DEF HistoryInv
  <2> QED
    BY <2>2, <2>3 DEF HistoryInv
<1>4. ASSUME NEW c \in Calls, UNCHANGED <<tables, begun>>, Reject(c)
      PROVE  HistoryInv'
  BY <1>4, RejectHistory
<1>5. ASSUME NEW c \in Calls, UNCHANGED <<tables, begun>>, NEW name, NEW new, Does(c, name, new)
      PROVE  HistoryInv'
  BY <1>5, DoesHistory
<1> QED
  BY <1>1, <1>2, <1>3, <1>4, <1>5, StepCases

\* Whatever transfers overlap, each starts from the first owner or from the
\* receiver of an earlier one.
THEOREM HistoryAlwaysGrounded == Spec => []HistoryIsGrounded
<1>1. Init => Inv /\ HistoryInv
  BY InitInv, HistoryInit
<1>2. Inv /\ HistoryInv /\ [Next]_vars => (Inv /\ HistoryInv)'
  BY NextInv, HistoryNext
<1>3. HistoryInv => HistoryIsGrounded
  BY DEF HistoryInv
<1> QED
  BY <1>1, <1>2, <1>3, PTL DEF Spec
-----------------------------------------------------------------------------
(* What the programs do to goods.                                          *)

\* The subjects a request makes, those it takes out of use for good, and
\* whether it leads its subject to a new state.
Makes(req) == CASE req.op \in {"create", "merge"} -> {req.subject}
                [] req.op = "split" -> {req.children[i] : i \in DOMAIN req.children}
                [] OTHER -> {}
Parents(req) == CASE req.op = "split" -> {req.subject}
                  [] req.op = "merge" -> {req.parents[i] : i \in DOMAIN req.parents}
                  [] OTHER -> {}
Moves(req) == /\ req.op \in {"transfer", "custody"} \/ (req.op = "create" /\ req.subject \in Batches)
              /\ req.state # None

Legal(req, y) ==
  /\ y[1] \in {"save", "init"} => y[2] \in Makes(req)
  /\ y[1] = "mark" => y[2] = req.subject /\ Moves(req)
  /\ y[1] = "retire" => y[2] \in Parents(req)
  /\ y[1] = "transfer" => req.op = "transfer"
  /\ y[1] = "state" => y[2] = req.subject

Has(u, y) == \E i \in 1 .. Len(u) : u[i] = y

\* No statement b of t that no statement a of t comes before.
Before(u, a, b, t) ==
  \A i \in 1 .. Len(u) : u[i] = <<b, t>> => \E j \in 1 .. i - 1 : u[j] = <<a, t>>

Ordered(u, t) == /\ Before(u, "find", "mark", t) /\ Before(u, "find", "retire", t)
                 /\ Before(u, "save", "init", t)

Proper(req, u) == /\ u \in Seq(Statements)
                  /\ \A i \in 1 .. Len(u) : Legal(req, u[i])
                  /\ \A t \in Subjects : Ordered(u, t)

LEMMA HasJoin ==
  ASSUME NEW S, NEW u \in Seq(S), NEW v \in Seq(S), NEW y
  PROVE  Has(u \o v, y) <=> Has(u, y) \/ Has(v, y)
<1>1. Joined(u, v, S)
  BY Concatenate
<1> DEFINE w == u \o v
<1>2. /\ Len(w) = Len(u) + Len(v) /\ Len(u) \in Nat /\ Len(v) \in Nat
      /\ \A i \in 1 .. Len(u) : w[i] = u[i]
      /\ \A i \in 1 .. Len(v) : w[Len(u) + i] = v[i]
  BY <1>1 DEF Joined
<1> HIDE DEF w
<1>3. ASSUME NEW i \in 1 .. Len(w), w[i] = y
      PROVE  Has(u, y) \/ Has(v, y)
  <2>1. CASE i <= Len(u)
    BY <1>2, <1>3, <2>1 DEF Has
  <2>2. CASE i > Len(u)
    <3>1. i - Len(u) \in 1 .. Len(v) /\ Len(u) + (i - Len(u)) = i
      BY <1>2, <2>2
    <3>2. w[i] = v[i - Len(u)]
      BY <1>2, <3>1
    <3> QED
      BY <1>3, <3>1, <3>2 DEF Has
  <2> QED
    BY <1>2, <2>1, <2>2
<1>4. ASSUME NEW i \in 1 .. Len(u) PROVE i \in 1 .. Len(w) /\ w[i] = u[i]
  BY <1>2
<1>5. ASSUME NEW i \in 1 .. Len(v) PROVE Len(u) + i \in 1 .. Len(w) /\ w[Len(u) + i] = v[i]
  BY <1>2
<1>6. Has(w, y) <=> Has(u, y) \/ Has(v, y)
  BY <1>3, <1>4, <1>5 DEF Has
<1> QED
  BY <1>6 DEF w

LEMMA BeforeJoin ==
  ASSUME NEW S, NEW u \in Seq(S), NEW v \in Seq(S), NEW a, NEW b, NEW t,
         Before(u, a, b, t), Before(v, a, b, t) \/ Has(u, <<a, t>>)
  PROVE  Before(u \o v, a, b, t)
<1> DEFINE w == u \o v
           x == <<a, t>>
           y == <<b, t>>
<1>1. Joined(u, v, S)
  BY Concatenate
<1>2. /\ Len(w) = Len(u) + Len(v) /\ Len(u) \in Nat /\ Len(v) \in Nat
      /\ \A i \in 1 .. Len(u) : w[i] = u[i]
      /\ \A i \in 1 .. Len(v) : w[Len(u) + i] = v[i]
  BY <1>1 DEF Joined
<1>3. /\ \A i \in 1 .. Len(u) : u[i] = y => \E j \in 1 .. i - 1 : u[j] = x
      /\ \/ \A i \in 1 .. Len(v) : v[i] = y => \E j \in 1 .. i - 1 : v[j] = x
         \/ \E j \in 1 .. Len(u) : u[j] = x
  BY DEF Before, Has
<1> HIDE DEF w, x, y
<1> SUFFICES ASSUME NEW i \in 1 .. Len(w), w[i] = y
             PROVE  \E j \in 1 .. i - 1 : w[j] = x
  BY DEF Before, w, x, y
<1>4. CASE i <= Len(u)
  <2>1. i \in 1 .. Len(u) /\ u[i] = y
    BY <1>2, <1>4
  <2>2. PICK j \in 1 .. i - 1 : u[j] = x
    BY <1>3, <2>1
  <2>3. j \in 1 .. Len(u)
    BY <1>2, <2>1
  <2>4. w[j] = x
    BY <1>2, <2>2, <2>3
  <2> QED
    BY <2>4
<1>5. CASE i > Len(u)
  <2>1. i - Len(u) \in 1 .. Len(v) /\ Len(u) + (i - Len(u)) = i
    BY <1>2, <1>5
  <2>2. v[i - Len(u)] = y
    BY <1>2, <2>1
  <2>3. CASE \E j \in 1 .. Len(u) : u[j] = x
    <3>1. PICK j \in 1 .. Len(u) : u[j] = x
      BY <2>3
    <3>2. w[j] = x /\ j \in 1 .. i - 1
      BY <1>2, <1>5, <3>1
    <3> QED
      BY <3>2
  <2>4. CASE \E j \in 1 .. (i - Len(u)) - 1 : v[j] = x
    <3>1. PICK j \in 1 .. (i - Len(u)) - 1 : v[j] = x
      BY <2>4
    <3>2. j \in 1 .. Len(v) /\ Len(u) + j \in 1 .. i - 1
      BY <1>2, <2>1, <3>1
    <3>3. w[Len(u) + j] = x
      BY <1>2, <3>1, <3>2
    <3> QED
      BY <3>2, <3>3
  <2> QED
    BY <1>3, <2>1, <2>2, <2>3, <2>4
<1> QED
  BY <1>2, <1>4, <1>5

LEMMA ProperJoin ==
  ASSUME NEW req, NEW u, NEW v, Proper(req, u), Proper(req, v)
  PROVE  Proper(req, u \o v)
<1>1. u \in Seq(Statements) /\ v \in Seq(Statements)
  BY DEF Proper
<1>2. Joined(u, v, Statements)
  BY <1>1, Concatenate
<1>3. \A t \in Subjects : Ordered(u \o v, t)
  BY <1>1, BeforeJoin DEF Proper, Ordered
<1>4. ASSUME NEW i \in 1 .. Len(u \o v)
      PROVE  Legal(req, (u \o v)[i])
  <2> DEFINE w == u \o v
  <2>1. Has(w, w[i])
    BY DEF Has
  <2>2. Has(u, w[i]) \/ Has(v, w[i])
    <3> HIDE DEF w
    <3>1. w = u \o v
      BY DEF w
    <3> QED
      BY <1>1, <2>1, <3>1, HasJoin
  <2> QED
    BY <2>2 DEF Has, Proper
<1> QED
  BY <1>2, <1>3, <1>4 DEF Proper, Joined

LEMMA ProperNothing ==
  ASSUME NEW req
  PROVE  Proper(req, <<>>)
<1>1. <<>> \in Seq(Statements) /\ Len(<<>>) = 0
  OBVIOUS
<1>2. \A i \in 1 .. Len(<<>>) : FALSE
  BY <1>1
<1> QED
  BY <1>1, <1>2 DEF Proper, Ordered, Before

LEMMA ProperOne ==
  ASSUME NEW req, NEW s \in Subjects, NEW m \in Names \ {"mark", "retire", "init"},
         Legal(req, <<m, s>>)
  PROVE  Proper(req, <<<<m, s>>>>)
<1> DEFINE x == <<m, s>>
           u == <<x>>
<1>1. x \in Statements
  BY StatementOf
<1>2. \A t : x # <<"mark", t>> /\ x # <<"retire", t>> /\ x # <<"init", t>>
  OBVIOUS
<1> HIDE DEF x
<1>3. u \in Seq(Statements) /\ Len(u) = 1 /\ u[1] = x
  BY <1>1
<1> HIDE DEF u
<1>4. \A i \in 1 .. Len(u) : u[i] = x
  BY <1>3
<1>5. \A t \in Subjects : Ordered(u, t)
  BY <1>2, <1>4 DEF Ordered, Before
<1> QED
  BY <1>3, <1>4, <1>5 DEF Proper, u, x

LEMMA ProperTwo ==
  ASSUME NEW req, NEW s \in Subjects, NEW m \in Names \ {"mark", "retire", "init"}, NEW n \in Names,
         n \in {"mark", "retire"} => m = "find", n = "init" => m = "save",
         Legal(req, <<m, s>>), Legal(req, <<n, s>>)
  PROVE  /\ Proper(req, <<<<m, s>>, <<n, s>>>>)
         /\ Has(<<<<m, s>>, <<n, s>>>>, <<n, s>>)
<1> DEFINE x == <<m, s>>
           y == <<n, s>>
           u == <<x, y>>
<1>1. x \in Statements /\ y \in Statements
  BY StatementOf
<1>2. \A t : x # <<"mark", t>> /\ x # <<"retire", t>> /\ x # <<"init", t>>
  OBVIOUS
<1>3. \A t : /\ y = <<"mark", t>> => x = <<"find", t>>
             /\ y = <<"retire", t>> => x = <<"find", t>>
             /\ y = <<"init", t>> => x = <<"save", t>>
  OBVIOUS
<1> HIDE DEF x, y
<1>4. u \in Seq(Statements) /\ Len(u) = 2 /\ u[1] = x /\ u[2] = y
  BY <1>1, Two
<1> HIDE DEF u
<1>5. \A i \in 1 .. Len(u) : (i = 1 /\ u[i] = x) \/ (i = 2 /\ u[i] = y)
  BY <1>4
<1>6. ASSUME NEW a, NEW b, NEW t, x # <<b, t>>, y = <<b, t>> => x = <<a, t>>
      PROVE  Before(u, a, b, t)
  <2>1. 1 \in 1 .. 2 - 1
    OBVIOUS
  <2> QED
    BY <1>4, <1>5, <1>6, <2>1 DEF Before
<1>7. \A t \in Subjects : Ordered(u, t)
  BY <1>2, <1>3, <1>6 DEF Ordered
<1>8. Has(u, y)
  BY <1>4 DEF Has
<1>9. \A i \in 1 .. Len(u) : Legal(req, u[i])
  BY <1>5 DEF x, y
<1> QED
  BY <1>4, <1>7, <1>8, <1>9 DEF Proper, u, x, y

LEMMA ProperThree ==
  ASSUME NEW req, NEW s \in Subjects, NEW l \in Names \ {"mark", "retire", "init"},
         NEW m \in Names \ {"mark", "retire", "init"}, NEW n \in Names,
         n \in {"mark", "retire"} => "find" \in {l, m}, n = "init" => "save" \in {l, m},
         Legal(req, <<l, s>>), Legal(req, <<m, s>>), Legal(req, <<n, s>>)
  PROVE  /\ Proper(req, <<<<l, s>>, <<m, s>>, <<n, s>>>>)
         /\ Has(<<<<l, s>>, <<m, s>>, <<n, s>>>>, <<n, s>>)
<1> DEFINE w == <<l, s>>
           x == <<m, s>>
           y == <<n, s>>
           u == <<w, x, y>>
<1>1. w \in Statements /\ x \in Statements /\ y \in Statements
  BY StatementOf
<1>2. \A t : /\ x # <<"mark", t>> /\ x # <<"retire", t>> /\ x # <<"init", t>>
             /\ w # <<"mark", t>> /\ w # <<"retire", t>> /\ w # <<"init", t>>
  OBVIOUS
<1>3. \A t : /\ y = <<"mark", t>> => x = <<"find", t>> \/ w = <<"find", t>>
             /\ y = <<"retire", t>> => x = <<"find", t>> \/ w = <<"find", t>>
             /\ y = <<"init", t>> => x = <<"save", t>> \/ w = <<"save", t>>
  OBVIOUS
<1> HIDE DEF w, x, y
<1>4. u \in Seq(Statements) /\ Len(u) = 3 /\ u[1] = w /\ u[2] = x /\ u[3] = y
  BY <1>1
<1> HIDE DEF u
<1>5. \A i \in 1 .. Len(u) : (i = 1 /\ u[i] = w) \/ (i = 2 /\ u[i] = x) \/ (i = 3 /\ u[i] = y)
  BY <1>4
<1>6. ASSUME NEW a, NEW b, NEW t, w # <<b, t>>, x # <<b, t>>,
             y = <<b, t>> => x = <<a, t>> \/ w = <<a, t>>
      PROVE  Before(u, a, b, t)
  <2>1. 1 \in 1 .. 3 - 1 /\ 2 \in 1 .. 3 - 1
    OBVIOUS
  <2> QED
    BY <1>4, <1>5, <1>6, <2>1 DEF Before
<1>7. \A t \in Subjects : Ordered(u, t)
  BY <1>2, <1>3, <1>6 DEF Ordered
<1>8. Has(u, y)
  BY <1>4 DEF Has
<1>9. \A i \in 1 .. Len(u) : Legal(req, u[i])
  BY <1>5 DEF w, x, y
<1> QED
  BY <1>4, <1>7, <1>8, <1>9 DEF Proper, u, w, x, y

LEMMA Halved ==
  ASSUME NEW n \in Nat, NEW i \in 1 .. 2 * n
  PROVE  \E j \in 1 .. n : \/ i = 2 * j - 1 /\ i % 2 = 1 /\ (i + 1) \div 2 = j
                           \/ i = 2 * j /\ i % 2 = 0 /\ (i + 1) \div 2 = j
<1>1. (i + 1) \div 2 \in 1 .. n
  BY Halves
<1>2. i % 2 = 0 \/ i % 2 = 1
  OBVIOUS
<1>3. i % 2 = 0 => i = 2 * ((i + 1) \div 2)
  OBVIOUS
<1>4. i % 2 = 1 => i = 2 * ((i + 1) \div 2) - 1
  OBVIOUS
<1> QED
  BY <1>1, <1>2, <1>3, <1>4

LEMMA OddHalf ==
  ASSUME NEW n \in Nat, NEW j \in 1 .. n
  PROVE  /\ 2 * j - 1 \in 1 .. 2 * n /\ (2 * j - 1) % 2 = 1 /\ ((2 * j - 1) + 1) \div 2 = j
         /\ 2 * j - 1 \in 1 .. 2 * j - 1
  OBVIOUS

\* f is the statements m and k of each of u, in turn.
Alternates(f, u, m, k) ==
  /\ f \in Seq(Statements) /\ Len(f) = 2 * Len(u) /\ Len(u) \in Nat /\ DOMAIN u = 1 .. Len(u)
  /\ \A i \in 1 .. 2 * Len(u) : \E j \in 1 .. Len(u) : \/ i = 2 * j - 1 /\ f[i] = <<m, u[j]>>
                                                       \/ i = 2 * j /\ f[i] = <<k, u[j]>>
  /\ \A j \in 1 .. Len(u) : /\ 2 * j - 1 \in 1 .. 2 * Len(u) /\ f[2 * j - 1] = <<m, u[j]>>
                            /\ 2 * j \in 1 .. 2 * Len(u) /\ f[2 * j] = <<k, u[j]>>
                            /\ u[j] \in Subjects

LEMMA ForEachTwoIs ==
  ASSUME NEW u \in Seq(Batches), NEW m \in Names \ {"transfer", "record"},
         NEW k \in Names \ {"transfer", "record"}
  PROVE  Alternates(ForEachTwo(u, m, k), u, m, k)
<1> DEFINE n == Len(u)
           f == ForEachTwo(u, m, k)
<1>1. n \in Nat /\ DOMAIN u = 1 .. n /\ \A i \in 1 .. n : u[i] \in Subjects
  BY DEF Subjects
<1>2. f = [i \in 1 .. 2 * n |-> <<IF i % 2 = 1 THEN m ELSE k, u[(i + 1) \div 2]>>]
  BY DEF ForEachTwo
<1>3. f \in Seq(OtherStatements) /\ Len(f) = 2 * n
      /\ \A j \in 1 .. n : 2 * j \in 1 .. 2 * n /\ f[2 * j] = <<k, u[j]>>
  BY ForEachTwoProgram
<1>4. OtherStatements \subseteq Statements
  BY DEF OtherStatements, Statements
<1> HIDE DEF n, f
<1>5. f \in Seq(Statements)
  BY <1>3, <1>4
<1>6. ASSUME NEW i \in 1 .. 2 * n
      PROVE  \E j \in 1 .. n : \/ i = 2 * j - 1 /\ f[i] = <<m, u[j]>>
                               \/ i = 2 * j /\ f[i] = <<k, u[j]>>
  <2>1. PICK j \in 1 .. n : \/ i = 2 * j - 1 /\ i % 2 = 1 /\ (i + 1) \div 2 = j
                            \/ i = 2 * j /\ i % 2 = 0 /\ (i + 1) \div 2 = j
    BY <1>1, Halved
  <2>2. f[i] = <<IF i % 2 = 1 THEN m ELSE k, u[(i + 1) \div 2]>>
    BY <1>2
  <2>3. CASE i = 2 * j - 1 /\ i % 2 = 1 /\ (i + 1) \div 2 = j
    BY <2>2, <2>3
  <2>4. CASE i = 2 * j /\ i % 2 = 0 /\ (i + 1) \div 2 = j
    BY <2>2, <2>4
  <2> QED
    BY <2>1, <2>3, <2>4
<1>7. ASSUME NEW j \in 1 .. n
      PROVE  2 * j - 1 \in 1 .. 2 * n /\ f[2 * j - 1] = <<m, u[j]>>
  <2>1. 2 * j - 1 \in 1 .. 2 * n /\ (2 * j - 1) % 2 = 1 /\ ((2 * j - 1) + 1) \div 2 = j
    BY <1>1, OddHalf
  <2>2. f[2 * j - 1] = <<IF (2 * j - 1) % 2 = 1 THEN m ELSE k, u[((2 * j - 1) + 1) \div 2]>>
    BY <1>2, <2>1
  <2> QED
    BY <2>1, <2>2
<1>8. /\ f \in Seq(Statements) /\ Len(f) = 2 * n /\ n \in Nat /\ DOMAIN u = 1 .. n
  BY <1>1, <1>3, <1>5
<1>9. \A j \in 1 .. n : /\ 2 * j - 1 \in 1 .. 2 * n /\ f[2 * j - 1] = <<m, u[j]>>
                        /\ 2 * j \in 1 .. 2 * n /\ f[2 * j] = <<k, u[j]>>
                        /\ u[j] \in Subjects
  BY <1>1, <1>3, <1>7
<1> QED
  BY <1>6, <1>8, <1>9 DEF n, f, Alternates

LEMMA LegalReads ==
  ASSUME NEW req, NEW m, NEW s, m \notin {"save", "init", "mark", "retire", "transfer", "state"}
  PROVE  Legal(req, <<m, s>>)
  BY DEF Legal

LEMMA LegalWrites ==
  ASSUME NEW req, NEW t \in Makes(req)
  PROVE  Legal(req, <<"save", t>>) /\ Legal(req, <<"init", t>>)
  BY DEF Legal

LEMMA SecondOf ==
  ASSUME NEW m, NEW s, NEW k, NEW t, <<m, s>> = <<k, t>>
  PROVE  m = k /\ s = t
  OBVIOUS

LEMMA TransitionProper ==
  ASSUME NEW req, req.subject \in Subjects, req.state # None => Moves(req)
  PROVE  /\ Proper(req, Transition(req.subject, req))
         /\ req.state # None => Has(Transition(req.subject, req), <<"mark", req.subject>>)
<1>1. CASE req.state = None
  BY <1>1, ProperNothing DEF Transition
<1>2. CASE req.state # None
  <2>1. Legal(req, <<"find", req.subject>>) /\ Legal(req, <<"mark", req.subject>>)
    BY <1>2 DEF Legal
  <2>2. "find" \in Names \ {"mark", "retire", "init"} /\ "mark" \in Names
    BY DEF Names
  <2>3. Transition(req.subject, req) = <<<<"find", req.subject>>, <<"mark", req.subject>>>>
    BY <1>2 DEF Transition
  <2> QED
    BY <2>1, <2>2, <2>3, ProperTwo
<1> QED
  BY <1>1, <1>2

LEMMA StateReadProper ==
  ASSUME NEW req, NEW s \in Subjects, s = req.subject
  PROVE  Proper(req, StateRead(s, req))
<1>1. "state" \in Names \ {"mark", "retire", "init"}
  BY DEF Names
<1>2. Legal(req, <<"state", s>>)
  BY DEF Legal
<1> QED
  BY <1>1, <1>2, ProperOne, ProperNothing DEF StateRead

LEMMA CustodyProper ==
  ASSUME NEW req, NEW s \in Subjects
  PROVE  Proper(req, CustodyChange(s))
<1>1. "custodian" \in Names \ {"mark", "retire", "init"} /\ "custody" \in Names
  BY DEF Names
<1>2. Legal(req, <<"custodian", s>>) /\ Legal(req, <<"custody", s>>)
  BY LegalReads
<1> QED
  BY <1>1, <1>2, ProperTwo DEF CustodyChange

\* What a program has to do.
Complete(req, u) == /\ Proper(req, u)
                    /\ \A t \in Makes(req) : Has(u, <<"init", t>>)
                    /\ Moves(req) => Has(u, <<"mark", req.subject>>)

LEMMA ProperIs ==
  ASSUME NEW req, NEW u, Proper(req, u)
  PROVE  u \in Seq(Statements)
  BY DEF Proper

LEMMA CreateProper ==
  ASSUME NEW req \in Requests, req.op = "create"
  PROVE  Complete(req, Program(req))
<1> DEFINE s == req.subject
           u == <<<<"absent", s>>, <<"save", s>>, <<"init", s>>>>
           d == Transition(s, req)
<1>1. s \in Subjects /\ Makes(req) = {s}
  BY RequestsAssumption DEF Makes
<1>2. Proper(req, u) /\ Has(u, <<"init", s>>)
  <2>1. /\ "absent" \in Names \ {"mark", "retire", "init"}
        /\ "save" \in Names \ {"mark", "retire", "init"} /\ "init" \in Names
    BY DEF Names
  <2>2. Legal(req, <<"absent", s>>) /\ Legal(req, <<"save", s>>) /\ Legal(req, <<"init", s>>)
    BY <1>1 DEF Legal
  <2> QED
    BY <1>1, <2>1, <2>2, ProperThree
<1>3. CASE s \in Batches
  <2>1. Moves(req) <=> req.state # None
    BY <1>3 DEF Moves
  <2>2. Proper(req, d) /\ (Moves(req) => Has(d, <<"mark", s>>))
    BY <1>1, <2>1, TransitionProper
  <2>3. Program(req) = u \o d
    <3>1. Program(req) = CreateBatch(req)
      BY <1>3, RegistryAssumption DEF Program
    <3> QED
      BY <3>1 DEF CreateBatch
  <2> HIDE DEF u, d
  <2>4. u \in Seq(Statements) /\ d \in Seq(Statements)
    BY <1>2, <2>2, ProperIs
  <2>5. Proper(req, u \o d) /\ Has(u \o d, <<"init", s>>) /\ (Moves(req) => Has(u \o d, <<"mark", s>>))
    BY <1>2, <2>2, <2>4, ProperJoin, HasJoin
  <2> QED
    BY <1>1, <2>3, <2>5 DEF Complete
<1>4. CASE s \notin Batches
  <2>1. s \in Assets /\ ~Moves(req)
    BY <1>1, <1>4 DEF Moves, Subjects
  <2>2. Program(req) = u
    BY <1>4, <2>1 DEF Program, CreateItem
  <2> QED
    BY <1>1, <1>2, <2>1, <2>2 DEF Complete
<1> QED
  BY <1>3, <1>4

LEMMA TransferProper ==
  ASSUME NEW req \in Requests, req.op = "transfer"
  PROVE  Complete(req, Program(req))
<1> DEFINE s == req.subject
           a == <<<<"authorize", s>>, <<"own", s>>>>
           b == StateRead(s, req)
           t == <<<<"transfer", s>>, <<"record", s>>>>
           d == Transition(s, req)
           e == IF req.custodian = None THEN <<>> ELSE CustodyChange(s)
<1>1. s \in Subjects /\ Makes(req) = {} /\ (Moves(req) <=> req.state # None)
  BY RequestsAssumption DEF Makes, Moves
<1>2. Program(req) = (((a \o b) \o t) \o d) \o e
  BY DEF Program, TransferPublic, TransferAndRecord
<1>3. Proper(req, a)
  <2>1. "authorize" \in Names \ {"mark", "retire", "init"} /\ "own" \in Names
    BY DEF Names
  <2>2. Legal(req, <<"authorize", s>>) /\ Legal(req, <<"own", s>>)
    BY LegalReads
  <2> QED
    BY <1>1, <2>1, <2>2, ProperTwo
<1>4. Proper(req, b)
  BY <1>1, StateReadProper
<1>5. Proper(req, t)
  <2>1. "transfer" \in Names \ {"mark", "retire", "init"} /\ "record" \in Names
    BY DEF Names
  <2>2. Legal(req, <<"transfer", s>>) /\ Legal(req, <<"record", s>>)
    BY DEF Legal
  <2> QED
    BY <1>1, <2>1, <2>2, ProperTwo
<1>6. Proper(req, d) /\ (Moves(req) => Has(d, <<"mark", s>>))
  BY <1>1, TransitionProper
<1>7. Proper(req, e)
  BY <1>1, CustodyProper, ProperNothing
<1> HIDE DEF a, b, t, d, e, s
<1>8. Proper(req, (a \o b) \o t)
  BY <1>3, <1>4, <1>5, ProperJoin
<1> DEFINE f == (a \o b) \o t
<1> HIDE DEF f
<1>9. /\ Proper(req, f \o d) /\ f \in Seq(Statements) /\ d \in Seq(Statements)
      /\ e \in Seq(Statements)
  BY <1>6, <1>7, <1>8, ProperJoin, ProperIs DEF f
<1>10. Proper(req, (f \o d) \o e) /\ (f \o d) \in Seq(Statements)
  BY <1>7, <1>9, ProperJoin, ProperIs
<1>11. Moves(req) => Has((f \o d) \o e, <<"mark", s>>)
  BY <1>6, <1>9, <1>10, HasJoin
<1> QED
  BY <1>1, <1>2, <1>10, <1>11 DEF Complete, f, s

LEMMA CustodyUpdateProper ==
  ASSUME NEW req \in Requests, req.op = "custody"
  PROVE  Complete(req, Program(req))
<1> DEFINE s == req.subject
           a == <<<<"holder", s>>, <<"custodian", s>>>>
           b == StateRead(s, req)
           e == CustodyChange(s)
           d == Transition(s, req)
<1>1. s \in Subjects /\ Makes(req) = {} /\ (Moves(req) <=> req.state # None)
  BY RequestsAssumption DEF Makes, Moves
<1>2. Program(req) = ((a \o b) \o e) \o d
  BY DEF Program, UpdateCustody
<1>3. Proper(req, a)
  <2>1. "holder" \in Names \ {"mark", "retire", "init"} /\ "custodian" \in Names
    BY DEF Names
  <2>2. Legal(req, <<"holder", s>>) /\ Legal(req, <<"custodian", s>>)
    BY LegalReads
  <2> QED
    BY <1>1, <2>1, <2>2, ProperTwo
<1>4. Proper(req, b)
  BY <1>1, StateReadProper
<1>5. Proper(req, e)
  BY <1>1, CustodyProper
<1>6. Proper(req, d) /\ (Moves(req) => Has(d, <<"mark", s>>))
  BY <1>1, TransitionProper
<1> HIDE DEF a, b, d, e, s
<1>7. Proper(req, (a \o b) \o e)
  BY <1>3, <1>4, <1>5, ProperJoin
<1> DEFINE f == (a \o b) \o e
<1> HIDE DEF f
<1>8. Proper(req, f \o d) /\ f \in Seq(Statements) /\ d \in Seq(Statements)
  BY <1>6, <1>7, ProperJoin, ProperIs DEF f
<1>9. Moves(req) => Has(f \o d, <<"mark", s>>)
  BY <1>6, <1>8, HasJoin
<1> QED
  BY <1>1, <1>2, <1>8, <1>9 DEF Complete, f, s

\* The children of a split, saved and given their owner in turn.
LEMMA ChildrenProper ==
  ASSUME NEW req, NEW u \in Seq(Batches), \A i \in DOMAIN u : u[i] \in Makes(req)
  PROVE  /\ Proper(req, ForEachTwo(u, "save", "init"))
         /\ \A i \in DOMAIN u : Has(ForEachTwo(u, "save", "init"), <<"init", u[i]>>)
<1> DEFINE f == ForEachTwo(u, "save", "init")
           n == Len(u)
<1>1. "save" \in Names \ {"transfer", "record"} /\ "init" \in Names \ {"transfer", "record"}
  BY DEF Names
<1>2. Alternates(f, u, "save", "init")
  BY <1>1, ForEachTwoIs
<1> HIDE DEF f
<1>3. /\ f \in Seq(Statements) /\ Len(f) = 2 * n /\ n \in Nat /\ DOMAIN u = 1 .. n
      /\ \A i \in 1 .. 2 * n : \E j \in 1 .. n : \/ i = 2 * j - 1 /\ f[i] = <<"save", u[j]>>
                                                 \/ i = 2 * j /\ f[i] = <<"init", u[j]>>
      /\ \A j \in 1 .. n : /\ 2 * j - 1 \in 1 .. 2 * n /\ f[2 * j - 1] = <<"save", u[j]>>
                           /\ 2 * j \in 1 .. 2 * n /\ f[2 * j] = <<"init", u[j]>>
  BY <1>2 DEF Alternates
<1> HIDE DEF n
<1>4. ASSUME NEW i \in 1 .. 2 * n
      PROVE  Legal(req, f[i]) /\ f[i][1] \in {"save", "init"}
  <2>1. PICK j \in 1 .. n : f[i] = <<"save", u[j]>> \/ f[i] = <<"init", u[j]>>
    BY <1>3
  <2>2. u[j] \in Makes(req)
    BY <1>3
  <2>3. Legal(req, f[i])
    BY <2>1, <2>2, LegalWrites
  <2> QED
    BY <2>1, <2>3
<1>5. ASSUME NEW t PROVE Before(f, "save", "init", t)
  <2> SUFFICES ASSUME NEW i \in 1 .. 2 * n, f[i] = <<"init", t>>
               PROVE  \E j \in 1 .. i - 1 : f[j] = <<"save", t>>
    BY <1>3 DEF Before
  <2>0. PICK j \in 1 .. n : \/ i = 2 * j - 1 /\ f[i] = <<"save", u[j]>>
                            \/ i = 2 * j /\ f[i] = <<"init", u[j]>>
    BY <1>3
  <2>1. i = 2 * j /\ <<"init", u[j]>> = <<"init", t>>
    <3>1. <<"save", u[j]>> # <<"init", t>>
      BY SecondOf
    <3> QED
      BY <2>0, <3>1
  <2>2. f[2 * j - 1] = <<"save", u[j]>>
    BY <1>3
  <2>4. u[j] = t
    BY <2>1, SecondOf
  <2>5. 2 * j - 1 \in 1 .. i - 1
    <3>1. i = 2 * j /\ j \in Nat /\ 1 <= j
      BY <1>3, <2>1
    <3> QED
      BY <3>1
  <2>3. u[j] = t /\ 2 * j - 1 \in 1 .. i - 1
    BY <2>4, <2>5
  <2> QED
    BY <2>2, <2>3
<1>6. \A t : Ordered(f, t)
  <2>1. \A t : \A i \in 1 .. Len(f) : f[i] # <<"mark", t>> /\ f[i] # <<"retire", t>>
    <3> SUFFICES ASSUME NEW t, NEW i \in 1 .. Len(f)
                 PROVE  f[i] # <<"mark", t>> /\ f[i] # <<"retire", t>>
      OBVIOUS
    <3>1. f[i][1] # "mark" /\ f[i][1] # "retire"
      BY <1>3, <1>4
    <3> QED
      BY <3>1
  <2> QED
    BY <1>5, <2>1 DEF Ordered, Before
<1>7. \A i \in DOMAIN u : Has(f, <<"init", u[i]>>)
  BY <1>3 DEF Has
<1> QED
  BY <1>3, <1>4, <1>6, <1>7 DEF Proper, f

LEMMA SplitProper ==
  ASSUME NEW req \in Requests, req.op = "split"
  PROVE  Complete(req, Program(req))
<1> DEFINE s == req.subject
           a == <<<<"find", s>>, <<"authorize", s>>, <<"retire", s>>>>
           b == ForEachTwo(req.children, "save", "init")
<1>1. /\ s \in Subjects /\ req.children \in Seq(Batches) /\ ~Moves(req)
      /\ Makes(req) = {req.children[i] : i \in DOMAIN req.children}
      /\ Parents(req) = {s}
  BY RequestsAssumption DEF Makes, Moves, Parents
<1>2. Program(req) = a \o b
  BY DEF Program, SplitBatch
<1>3. Proper(req, a)
  <2>1. /\ "find" \in Names \ {"mark", "retire", "init"}
        /\ "authorize" \in Names \ {"mark", "retire", "init"} /\ "retire" \in Names
    BY DEF Names
  <2>2. Legal(req, <<"find", s>>) /\ Legal(req, <<"authorize", s>>) /\ Legal(req, <<"retire", s>>)
    BY <1>1 DEF Legal
  <2> QED
    BY <1>1, <2>1, <2>2, ProperThree
<1>4. Proper(req, b) /\ \A t \in Makes(req) : Has(b, <<"init", t>>)
  BY <1>1, ChildrenProper
<1> HIDE DEF a, b
<1>5. Proper(req, a \o b) /\ a \in Seq(Statements) /\ b \in Seq(Statements)
  BY <1>3, <1>4, ProperJoin, ProperIs
<1>6. \A t \in Makes(req) : Has(a \o b, <<"init", t>>)
  BY <1>4, <1>5, HasJoin
<1> QED
  BY <1>1, <1>2, <1>5, <1>6 DEF Complete

LEMMA MergeProper ==
  ASSUME NEW req \in Requests, req.op = "merge"
  PROVE  Complete(req, Program(req))
<1> DEFINE s == req.subject
           ps == req.parents
           a == ForEachTwo(ps, "find", "authorize")
           b == ForEach(ps, "retire")
           e == <<<<"save", s>>, <<"init", s>>>>
           n == Len(ps)
<1>1. /\ s \in Subjects /\ ps \in Seq(Batches) /\ ~Moves(req)
      /\ Makes(req) = {s} /\ Parents(req) = {ps[i] : i \in DOMAIN ps}
  BY RequestsAssumption DEF Makes, Moves, Parents
<1>2. Program(req) = (a \o b) \o e
  BY DEF Program, MergeBatch
<1>3. {"find", "authorize", "retire"} \subseteq Names \ {"transfer", "record"}
  BY DEF Names
<1>4. Alternates(a, ps, "find", "authorize")
  BY <1>1, <1>3, ForEachTwoIs
<1>5. b \in Seq(OtherStatements) /\ n \in Nat /\ DOMAIN ps = 1 .. n
  BY <1>1, <1>3, ForEachProgram
<1>6. b = [i \in 1 .. n |-> <<"retire", ps[i]>>]
  BY <1>5 DEF ForEach
<1>7. Proper(req, e) /\ Has(e, <<"init", s>>)
  <2>1. "save" \in Names \ {"mark", "retire", "init"} /\ "init" \in Names
    BY DEF Names
  <2>2. Legal(req, <<"save", s>>) /\ Legal(req, <<"init", s>>)
    BY <1>1 DEF Legal
  <2> QED
    BY <1>1, <2>1, <2>2, ProperTwo
<1> HIDE DEF a, b, e
<1>8. /\ a \in Seq(Statements) /\ Len(a) = 2 * n
      /\ \A i \in 1 .. 2 * n : \E j \in 1 .. n : \/ i = 2 * j - 1 /\ a[i] = <<"find", ps[j]>>
                                                 \/ i = 2 * j /\ a[i] = <<"authorize", ps[j]>>
      /\ \A j \in 1 .. n : 2 * j - 1 \in 1 .. 2 * n /\ a[2 * j - 1] = <<"find", ps[j]>>
  BY <1>4 DEF Alternates
<1> HIDE DEF n, ps, s
<1>9. \A i \in 1 .. Len(a) : Legal(req, a[i]) /\ a[i][1] \in {"find", "authorize"}
  BY <1>8 DEF Legal
<1>10. /\ b \in Seq(Statements) /\ Len(b) = n
       /\ \A i \in 1 .. Len(b) : b[i] = <<"retire", ps[i]>> /\ Legal(req, b[i])
  <2>1. OtherStatements \subseteq Statements
    BY DEF OtherStatements, Statements
  <2>2. b \in Seq(Statements)
    BY <1>5, <2>1
  <2>3. Len(b) = n
    BY <1>5, <1>6
  <2>4. \A i \in 1 .. n : b[i] = <<"retire", ps[i]>>
    BY <1>6
  <2>5. \A i \in 1 .. n : <<"retire", ps[i]>>[2] \in Parents(req)
    BY <1>1, <1>5
  <2>6. \A i \in 1 .. n : Legal(req, <<"retire", ps[i]>>)
    BY <2>5 DEF Legal
  <2> QED
    BY <2>2, <2>3, <2>4, <2>6
<1>11. \A t : Ordered(a, t)
  BY <1>9 DEF Ordered, Before
<1>12. \A t : Before(b, "find", "mark", t) /\ Before(b, "save", "init", t)
  BY <1>10 DEF Before
<1>13. \A t : Has(a, <<"find", t>>) \/ Before(b, "find", "retire", t)
  <2> SUFFICES ASSUME NEW t, NEW i \in 1 .. Len(b), b[i] = <<"retire", t>>
               PROVE  Has(a, <<"find", t>>)
    BY DEF Before
  <2>1. t = ps[i] /\ i \in 1 .. n
    BY <1>10
  <2>2. 2 * i - 1 \in 1 .. Len(a) /\ a[2 * i - 1] = <<"find", t>>
    BY <1>8, <2>1
  <2> QED
    BY <2>2 DEF Has
<1>14. \A t : Ordered(a \o b, t)
  <2> SUFFICES ASSUME NEW t PROVE Ordered(a \o b, t)
    OBVIOUS
  <2>1. Before(a \o b, "find", "mark", t)
    BY <1>8, <1>10, <1>11, <1>12, BeforeJoin DEF Ordered
  <2>2. Before(a \o b, "find", "retire", t)
    BY <1>8, <1>10, <1>11, <1>13, BeforeJoin DEF Ordered
  <2>3. Before(a \o b, "save", "init", t)
    BY <1>8, <1>10, <1>11, <1>12, BeforeJoin DEF Ordered
  <2> QED
    BY <2>1, <2>2, <2>3 DEF Ordered
<1>15. Joined(a, b, Statements)
  BY <1>8, <1>10, Concatenate
<1>16. ASSUME NEW i \in 1 .. Len(a \o b)
       PROVE  Legal(req, (a \o b)[i])
  <2> DEFINE w == a \o b
  <2>1. Has(w, w[i])
    BY DEF Has
  <2>2. Has(a, w[i]) \/ Has(b, w[i])
    <3>1. w = a \o b
      OBVIOUS
    <3> HIDE DEF w
    <3> QED
      BY <1>8, <1>10, <2>1, <3>1, HasJoin
  <2> QED
    BY <1>9, <1>10, <2>2 DEF Has
<1>17. Proper(req, a \o b) /\ (a \o b) \in Seq(Statements)
  BY <1>14, <1>15, <1>16 DEF Proper, Joined
<1>18. Proper(req, (a \o b) \o e) /\ e \in Seq(Statements)
  BY <1>7, <1>17, ProperJoin, ProperIs
<1>19. Has((a \o b) \o e, <<"init", s>>)
  BY <1>7, <1>17, <1>18, HasJoin
<1> QED
  BY <1>1, <1>2, <1>18, <1>19 DEF Complete

LEMMA ProgramProper ==
  ASSUME NEW req \in Requests
  PROVE  Complete(req, Program(req))
<1>1. req.op \in {"create", "transfer", "custody", "split", "merge"}
  BY RequestsAssumption
<1> QED
  BY <1>1, CreateProper, TransferProper, CustodyUpdateProper, SplitProper, MergeProper
-----------------------------------------------------------------------------
(* The state of goods.                                                     *)

RowOf(quantity, state, active, producer) ==
  [quantity |-> quantity, state |-> state, active |-> active, producer |-> producer]

IsGoods(g) == g = RowOf(g.quantity, g.state, g.active, g.producer) /\ g.active \in BOOLEAN

\* Unwritten is no row of goods.
NoRowIsUnwritten == \A g : IsGoods(g) => g # Unwritten

\* The state of what a request makes.
Wanted(req) == IF req.op = "create" /\ req.subject \in Batches /\ req.state # None
               THEN req.state ELSE "created"

\* What is out of use for a reason: parents in the lineage and what was delisted.
Idle == {t \in Subjects : \/ \E e \in lineage : e.parent = t
                          \/ \E e \in events : e.subject = t /\ e.to = "delisted"}

\* What the commit of the request puts out of use.
Ends(req, t) == \/ t \in Parents(req) /\ (req.op = "split" => req.children # <<>>)
                \/ t = req.subject /\ Moves(req) /\ req.state = "delisted"

\* A row of t that a call has read or written: in a state the log has led to, as
\* the call makes it, or in the state it leads to; out of use only for a reason.
Sound(req, rows, idle, log, row, t) ==
  /\ IsGoods(row)
  /\ \/ rows[<<"owner", t>>] # None /\ row.state \in Reached(log, t)
     \/ t \in Makes(req) /\ row.state = Wanted(req)
     \/ /\ rows[<<"owner", t>>] # None /\ t = req.subject
        /\ req.op \in {"transfer", "custody"} /\ Moves(req) /\ row.state = req.state
  /\ row.active \/ t \in idle \/ Ends(req, t)

Current(call, rows, t) ==
  IF Listed(call, t) = Unwritten THEN rows[<<"goods", t>>] ELSE Listed(call, t)

Seen(call, rows, idle, log, t) ==
  /\ Sound(call.req, rows, idle, log, call.goods[t], t) /\ IsGoods(Current(call, rows, t))
  /\ call.req.op = "split" => call.req.children # <<>>

\* What a call has done to t, or its program still has to do.
OneKnows(call, rows, idle, log, t) ==
  LET u == call.todo IN
  /\ Listed(call, t) # Unwritten => Sound(call.req, rows, idle, log, Listed(call, t), t)
  /\ \/ Before(u, "find", "mark", t) /\ Before(u, "find", "retire", t)
     \/ Seen(call, rows, idle, log, t)
  /\ t \in Makes(call.req) =>
       /\ Listed(call, t) # Unwritten \/ Before(u, "save", "init", t)
       /\ Written(call, t) # Unwritten \/ Has(u, <<"init", t>>)
  /\ call.req.op # "transfer" /\ Written(call, t) # Unwritten =>
       t \in Makes(call.req) /\ Listed(call, t) # Unwritten
  /\ t = call.req.subject /\ Moves(call.req) =>
       \/ Listed(call, t) # Unwritten /\ Listed(call, t).state = call.req.state
       \/ Has(u, <<"mark", t>>)

StateKnows(call, rows, idle, log) ==
  /\ call.todo \in Seq(Statements) /\ \A i \in 1 .. Len(call.todo) : Legal(call.req, call.todo[i])
  /\ call.goods = [t \in Subjects |-> call.goods[t]]
  /\ call.from \in Reached(log, call.req.subject)
  /\ \A t \in Subjects : OneKnows(call, rows, idle, log, t)

Log(s) == {e \in events : e.subject = s}

\* What there is has a state that an event led to, and is in use or idle; and an
\* event, if any, is the last.
Stated == \A s \in Subjects :
  LET goods == db[<<"goods", s>>] IN
  /\ db[<<"owner", s>>] = None => goods = None /\ Log(s) = {}
  /\ db[<<"owner", s>>] # None =>
       IsGoods(goods) /\ goods.state \in Reached(events, s) /\ (goods.active \/ s \in Idle)
  /\ Log(s) # {} => \E e \in Log(s) : \A d \in Log(s) : d.now <= e.now

StateInv == /\ Stated /\ \A e \in events : e.from \in Reached(events, e.subject)
            /\ \A c \in Calls : Open(c) => StateKnows(calls[c], db, Idle, events)

\* What is read of a log is one of the states it led to, the last.
LEMMA CurrentIs ==
  ASSUME Stated, NEW s \in Subjects
  PROVE  /\ CurrentState(s) \in Reached(events, s)
         /\ Log(s) # {} => \E e \in Log(s) : /\ CurrentState(s) = e.to
                                             /\ \A d \in Log(s) : d.now <= e.now
<1> DEFINE last == CHOOSE e \in Log(s) : \A d \in Log(s) : d.now <= e.now
<1>1. CurrentState(s) = IF Log(s) = {} THEN "created" ELSE last.to
  BY DEF CurrentState, Log
<1>2. CASE Log(s) = {}
  BY <1>1, <1>2 DEF Reached
<1>3. CASE Log(s) # {}
  <2>1. last \in Log(s) /\ \A d \in Log(s) : d.now <= last.now
    BY <1>3 DEF Stated
  <2>2. last.to \in Reached(events, s)
    BY <2>1 DEF Reached, Log
  <2> HIDE DEF last
  <2> QED
    BY <1>1, <1>3, <2>1, <2>2
<1> QED
  BY <1>2, <1>3

\* A log only grows, and with it what it led to.
LEMMA ReachedGrows ==
  ASSUME NEW log, NEW more, log \subseteq more, NEW s
  PROVE  Reached(log, s) \subseteq Reached(more, s)
  BY DEF Reached

LEMMA RowParts ==
  ASSUME NEW a, NEW b, NEW c, NEW d, NEW g, g = RowOf(a, b, c, d)
  PROVE  g.quantity = a /\ g.state = b /\ g.active = c /\ g.producer = d
  BY DEF RowOf

LEMMA RowIs ==
  ASSUME NEW a, NEW b, NEW c \in BOOLEAN, NEW d
  PROVE  /\ IsGoods(RowOf(a, b, c, d))
         /\ RowOf(a, b, c, d).state = b /\ RowOf(a, b, c, d).active = c
<1> DEFINE g == RowOf(a, b, c, d)
<1>1. g = RowOf(a, b, c, d)
  OBVIOUS
<1> HIDE DEF g
<1>2. g.quantity = a /\ g.state = b /\ g.active = c /\ g.producer = d
  BY <1>1, RowParts
<1>3. IsGoods(g)
  BY <1>1, <1>2 DEF IsGoods
<1> QED
  BY <1>2, <1>3 DEF g

LEMMA GoodsIs ==
  ASSUME NEW quantity, NEW state, NEW producer
  PROVE  /\ IsGoods(Goods(quantity, state, producer))
         /\ Goods(quantity, state, producer).state = state
         /\ Goods(quantity, state, producer).active
<1> DEFINE g == Goods(quantity, state, producer)
           yes == TRUE
<1>1. g = RowOf(quantity, state, yes, producer) /\ yes \in BOOLEAN
  BY DEF Goods, RowOf
<1> HIDE DEF g, yes
<1>2. IsGoods(g) /\ g.state = state /\ g.active = yes
  BY <1>1, RowIs
<1> QED
  BY <1>2 DEF g, yes

LEMMA RowChanges ==
  ASSUME NEW g, IsGoods(g), NEW x, NEW a \in BOOLEAN
  PROVE  /\ [g EXCEPT !.state = x] = RowOf(g.quantity, x, g.active, g.producer)
         /\ [g EXCEPT !.active = a] = RowOf(g.quantity, g.state, a, g.producer)
         /\ [g EXCEPT !.state = x, !.active = a] = RowOf(g.quantity, x, a, g.producer)
<1> DEFINE q == g.quantity
           s == g.state
           b == g.active
           p == g.producer
<1>1. g = RowOf(q, s, b, p)
  BY DEF IsGoods
<1> HIDE DEF q, s, b, p
<1>2. g = [quantity |-> q, state |-> s, active |-> b, producer |-> p]
  BY <1>1 DEF RowOf
<1>3. [g EXCEPT !.state = x] = RowOf(q, x, b, p)
  BY <1>2 DEF RowOf
<1>4. [g EXCEPT !.active = a] = RowOf(q, s, a, p)
  BY <1>2 DEF RowOf
<1>5. [[g EXCEPT !.state = x] EXCEPT !.active = a] = RowOf(q, x, a, p)
  <2> DEFINE mid == [g EXCEPT !.state = x]
  <2>1. mid = [quantity |-> q, state |-> x, active |-> b, producer |-> p]
    BY <1>3 DEF RowOf
  <2> HIDE DEF mid
  <2>2. [mid EXCEPT !.active = a] = RowOf(q, x, a, p)
    BY <2>1 DEF RowOf
  <2> QED
    BY <2>2 DEF mid
<1>6. [g EXCEPT !.state = x, !.active = a] = [[g EXCEPT !.state = x] EXCEPT !.active = a]
  OBVIOUS
<1> QED
  BY <1>3, <1>4, <1>5, <1>6 DEF q, s, b, p

LEMMA HasTail ==
  ASSUME NEW u \in Seq(Statements), u # <<>>, NEW y, Has(u, y)
  PROVE  Head(u) = y \/ Has(Tail(u), y)
<1>1. /\ Head(u) = u[1] /\ Len(Tail(u)) = Len(u) - 1 /\ Len(u) \in Nat
      /\ \A i \in 1 .. Len(Tail(u)) : i + 1 \in 1 .. Len(u) /\ Tail(u)[i] = u[i + 1]
  BY TailOf
<1>2. PICK i \in 1 .. Len(u) : u[i] = y
  BY DEF Has
<1>3. CASE i = 1
  BY <1>1, <1>2, <1>3
<1>4. CASE i # 1
  <2>1. i - 1 \in 1 .. Len(Tail(u)) /\ (i - 1) + 1 = i
    BY <1>1, <1>4
  <2>2. Tail(u)[i - 1] = y
    BY <1>1, <1>2, <2>1
  <2> QED
    BY <2>1, <2>2 DEF Has
<1> QED
  BY <1>3, <1>4

LEMMA BeforeTail ==
  ASSUME NEW u \in Seq(Statements), u # <<>>, NEW a, NEW b, NEW t, Before(u, a, b, t)
  PROVE  Head(u) # <<b, t>> /\ (Head(u) = <<a, t>> \/ Before(Tail(u), a, b, t))
<1> DEFINE x == <<a, t>>
           y == <<b, t>>
           v == Tail(u)
<1>1. /\ Head(u) = u[1] /\ Len(v) = Len(u) - 1 /\ Len(u) \in Nat /\ 1 \in 1 .. Len(u)
      /\ \A i \in 1 .. Len(v) : i + 1 \in 1 .. Len(u) /\ v[i] = u[i + 1]
  BY TailOf
<1>2. \A i \in 1 .. Len(u) : u[i] = y => \E j \in 1 .. i - 1 : u[j] = x
  BY DEF Before
<1> HIDE DEF x, y, v
<1>3. Head(u) # y
  <2>1. ~ \E j \in 1 .. 1 - 1 : TRUE
    OBVIOUS
  <2> QED
    BY <1>1, <1>2, <2>1
<1>4. ASSUME Head(u) # x, NEW i \in 1 .. Len(v), v[i] = y
      PROVE  \E j \in 1 .. i - 1 : v[j] = x
  <2>1. i + 1 \in 1 .. Len(u) /\ u[i + 1] = y
    BY <1>1, <1>4
  <2>2. PICK j \in 1 .. (i + 1) - 1 : u[j] = x
    BY <1>2, <2>1
  <2>3. j # 1
    BY <1>1, <1>4, <2>2
  <2>4. j - 1 \in 1 .. i - 1 /\ j - 1 \in 1 .. Len(v) /\ (j - 1) + 1 = j
    BY <1>1, <2>1, <2>2, <2>3
  <2>5. v[j - 1] = x
    BY <1>1, <2>2, <2>4
  <2> QED
    BY <2>4, <2>5
<1>5. Head(u) = x \/ Before(v, a, b, t)
  BY <1>4 DEF Before, x, y
<1> QED
  BY <1>3, <1>5 DEF x, y, v

LEMMA ReadCurrent ==
  ASSUME NEW c \in Calls, NEW s \in Subjects
  PROVE  Read(c, "goods", s) = Current(calls[c], db, s)
  BY DEF Read, Current, Listed

(* The rows that a statement reads or writes are as they may be.           *)
LEMMA ReadSound ==
  ASSUME Stated, NEW c \in Calls, NEW s \in Subjects, OneKnows(calls[c], db, Idle, events, s),
         Read(c, "goods", s) # None
  PROVE  Sound(calls[c].req, db, Idle, events, Read(c, "goods", s), s)
<1> DEFINE call == calls[c]
           row == Read(c, "goods", s)
<1>1. row = Current(call, db, s)
  BY ReadCurrent
<1>2. CASE Listed(call, s) # Unwritten
  BY <1>1, <1>2 DEF Current, OneKnows
<1>3. CASE Listed(call, s) = Unwritten
  <2>1. row = db[<<"goods", s>>]
    BY <1>1, <1>3 DEF Current
  <2>2. db[<<"owner", s>>] # None
    BY <2>1 DEF Stated
  <2>3. IsGoods(row) /\ row.state \in Reached(events, s) /\ (row.active \/ s \in Idle)
    BY <2>1, <2>2 DEF Stated
  <2> QED
    BY <2>2, <2>3 DEF Sound
<1> QED
  BY <1>2, <1>3

LEMMA SaveSound ==
  ASSUME NEW call, call.req \in Requests, NEW s \in Makes(call.req), NEW rows, NEW idle, NEW log
  PROVE  /\ Sound(call.req, rows, idle, log, NewGoods(call, s), s)
         /\ NewGoods(call, s).state = Wanted(call.req)
<1> DEFINE req == call.req
           w == Wanted(req)
<1>1. PICK quantity, producer : NewGoods(call, s) = Goods(quantity, w, producer)
  <2>1. CASE req.op = "create"
    <3>1. s = req.subject /\ s \in Subjects
      BY <2>1, RequestsAssumption DEF Makes
    <3>2. CASE s \in Assets
      <4>1. s \notin Batches
        BY <3>2, RegistryAssumption
      <4>2. w = "created"
        BY <3>1, <4>1 DEF Wanted
      <4>3. NewGoods(call, s) = Goods(1, "created", req.to)
        BY <2>1, <3>2, <4>1 DEF NewGoods, NewAsset
      <4> QED
        BY <4>2, <4>3
    <3>3. CASE s \in Batches
      <4>1. s \notin Assets
        BY <3>3, RegistryAssumption
      <4>2. w = IF req.state = None THEN "created" ELSE req.state
        BY <2>1, <3>1, <3>3 DEF Wanted
      <4>3. NewGoods(call, s)
              = Goods(req.quantity, IF req.state = None THEN "created" ELSE req.state, req.to)
        BY <2>1, <3>3, <4>1 DEF NewGoods
      <4> QED
        BY <4>2, <4>3
    <3> QED
      BY <3>1, <3>2, <3>3 DEF Subjects
  <2>2. CASE req.op \in {"split", "merge"}
    <3>1. w = "created"
      BY <2>2 DEF Wanted
    <3> QED
      BY <2>2, <3>1 DEF NewGoods
  <2>3. req.op \in {"create", "split", "merge"}
    BY DEF Makes
  <2> QED
    BY <2>1, <2>2, <2>3
<1>2. /\ IsGoods(NewGoods(call, s)) /\ NewGoods(call, s).state = w
      /\ NewGoods(call, s).active
  BY <1>1, GoodsIs
<1> QED
  BY <1>2 DEF Sound

LEMMA MarkSound ==
  ASSUME NEW c \in Calls, NEW s \in Subjects, calls[c].req \in Requests,
         Moves(calls[c].req), s = calls[c].req.subject, Seen(calls[c], db, Idle, events, s)
  PROVE  /\ Sound(calls[c].req, db, Idle, events, GoodsRow(c, "mark", s), s)
         /\ GoodsRow(c, "mark", s).state = calls[c].req.state
<1> DEFINE call == calls[c]
           req == call.req
           g == call.goods[s]
           now == Read(c, "goods", s)
           to == req.state
           active == (to = "available") \/ (to # "delisted" /\ g.active)
           row == GoodsRow(c, "mark", s)
<1>1. Sound(req, db, Idle, events, g, s) /\ IsGoods(now)
  BY ReadCurrent DEF Seen
<1>2. row = IF s \in Assets THEN [g EXCEPT !.state = to]
            ELSE [now EXCEPT !.state = to, !.active = active]
  BY DEF GoodsRow, MarkedAsset, MarkedBatch
<1>3. IsGoods(g) /\ g.active \in BOOLEAN /\ (g.active \/ s \in Idle \/ Ends(req, s))
  BY <1>1 DEF Sound, IsGoods
<1>4. active \in BOOLEAN
  OBVIOUS
<1>5. active \/ s \in Idle \/ Ends(req, s)
  BY <1>3 DEF Ends
<1> HIDE DEF active, now, g, row, to
<1>6. IsGoods(row) /\ row.state = to /\ (row.active \/ s \in Idle \/ Ends(req, s))
  <2>1. CASE s \in Assets
    <3>1. row = RowOf(g.quantity, to, g.active, g.producer)
      BY <1>2, <1>3, <2>1, RowChanges
    <3>2. IsGoods(row) /\ row.state = to /\ row.active = g.active
      BY <1>3, <3>1, RowIs
    <3> QED
      BY <1>3, <3>2
  <2>2. CASE s \notin Assets
    <3>1. row = RowOf(now.quantity, to, active, now.producer)
      BY <1>1, <1>2, <1>4, <2>2, RowChanges
    <3>2. IsGoods(row) /\ row.state = to /\ row.active = active
      BY <1>4, <3>1, RowIs
    <3> QED
      BY <1>5, <3>2
  <2> QED
    BY <2>1, <2>2
<1>7. \/ s \in Makes(req) /\ row.state = Wanted(req)
      \/ /\ db[<<"owner", s>>] # None /\ s = req.subject
         /\ req.op \in {"transfer", "custody"} /\ Moves(req) /\ row.state = req.state
  <2>1. CASE req.op = "create"
    BY <1>6, <2>1 DEF Moves, Makes, Wanted, to
  <2>2. CASE req.op \in {"transfer", "custody"}
    <3>1. Makes(req) = {}
      BY <2>2 DEF Makes
    <3>2. db[<<"owner", s>>] # None
      BY <1>1, <3>1 DEF Sound
    <3> QED
      BY <1>6, <2>2, <3>2 DEF to
  <2> QED
    BY <2>1, <2>2 DEF Moves
<1> QED
  BY <1>6, <1>7 DEF Sound, to, row

LEMMA RetireSound ==
  ASSUME NEW c \in Calls, NEW s \in Parents(calls[c].req), Seen(calls[c], db, Idle, events, s)
  PROVE  Sound(calls[c].req, db, Idle, events, GoodsRow(c, "retire", s), s)
<1> DEFINE req == calls[c].req
           g == calls[c].goods[s]
           row == GoodsRow(c, "retire", s)
           no == FALSE
<1>1. Sound(req, db, Idle, events, g, s) /\ Ends(req, s)
  BY DEF Seen, Ends
<1>2. row = [g EXCEPT !.active = no] /\ no \in BOOLEAN
  BY DEF GoodsRow
<1>3. IsGoods(g)
  BY <1>1 DEF Sound
<1> HIDE DEF g, no, row
<1>4. row = RowOf(g.quantity, g.state, no, g.producer)
  BY <1>2, <1>3, RowChanges
<1>5. IsGoods(row) /\ row.state = g.state
  BY <1>2, <1>4, RowIs
<1> QED
  BY <1>1, <1>5 DEF Sound, row

(* A statement, and what its call knows of one subject afterwards.          *)
LEMMA DoesOne ==
  ASSUME NoRowIsUnwritten, Inv, Stated, NEW c \in Calls, NEW name, NEW new, Does(c, name, new),
         StateKnows(calls[c], db, Idle, events), NEW t \in Subjects
  PROVE  OneKnows(new, db, Idle, events, t)
<1> DEFINE call == calls[c]
           req == call.req
           s == Subject(c)
           u == call.todo
           v == Tail(u)
           y == <<name, s>>
           row == GoodsRow(c, name, s)
           puts == name \in {"mark", "retire", "save"} /\ t = s
<1>1. /\ u # <<>> /\ s \in Subjects /\ GoesOn(call, new)
      /\ Learns(c, new, name, s) /\ Writes(c, new, name, s)
      /\ call.status = "open" /\ req \in Requests
  BY StatementAt DEF Does, Inv, Knows
<1>2. /\ u \in Seq(Statements) /\ (\A i \in 1 .. Len(u) : Legal(req, u[i]))
      /\ call.goods = [d \in Subjects |-> call.goods[d]]
      /\ OneKnows(call, db, Idle, events, t) /\ OneKnows(call, db, Idle, events, s)
  BY <1>1 DEF StateKnows
<1>3. Head(u) = y /\ Legal(req, y)
  <2>1. Head(u) = u[1] /\ 1 \in 1 .. Len(u) /\ Head(u) \in Statements
    BY <1>1, <1>2, TailOf
  <2>2. Head(u)[1] = name /\ Head(u)[2] = s
    BY DEF Does, Subject
  <2>3. Head(u) = y
    BY <2>1, <2>2 DEF Statements
  <2> QED
    BY <1>2, <2>1, <2>3
<1>4. new.req = req /\ new.todo = v
  BY <1>1 DEF GoesOn
<1>5. /\ \A a, b : Before(u, a, b, t) => y # <<b, t>> /\ (y = <<a, t>> \/ Before(v, a, b, t))
      /\ \A x : Has(u, x) => y = x \/ Has(v, x)
  BY <1>1, <1>2, <1>3, BeforeTail, HasTail
<1>6. /\ Written(new, t) = IF name \in {"transfer", "init"} /\ t = s
                           THEN OwnerRow(call, name) ELSE Written(call, t)
      /\ Listed(new, t) = IF puts THEN row ELSE Listed(call, t)
  BY <1>1 DEF Writes
<1> HIDE DEF u, v, row, s
<1>7. ASSUME puts
      PROVE  /\ Sound(req, db, Idle, events, row, t) /\ row # Unwritten
             /\ t = req.subject /\ Moves(req) => row.state = req.state
  <2>1. CASE name = "save"
    <3>1. s \in Makes(req)
      BY <1>3, <2>1 DEF Legal
    <3>2. row = NewGoods(call, s)
      BY <2>1 DEF row, GoodsRow, s
    <3>3. Sound(req, db, Idle, events, row, t) /\ row.state = Wanted(req)
      BY <1>1, <1>7, <3>1, <3>2, SaveSound
    <3>4. t = req.subject /\ Moves(req) => row.state = req.state
      <4>1. req.op \in {"create", "split", "merge"}
        BY <3>1 DEF Makes
      <4> QED
        BY <3>3, <4>1 DEF Moves, Wanted
    <3> QED
      BY <3>3, <3>4 DEF Sound, NoRowIsUnwritten
  <2>2. CASE name = "mark"
    <3>1. s = req.subject /\ Moves(req)
      BY <1>3, <2>2 DEF Legal
    <3>2. Seen(call, db, Idle, events, s)
      <4>1. ~Before(u, "find", "mark", t)
        BY <1>5, <1>7, <2>2
      <4> QED
        BY <1>2, <1>7, <4>1 DEF OneKnows, u
    <3>3. Sound(req, db, Idle, events, row, s) /\ row.state = req.state
      BY <1>1, <2>2, <3>1, <3>2, MarkSound DEF row
    <3> QED
      BY <1>7, <3>3 DEF Sound, NoRowIsUnwritten
  <2>3. CASE name = "retire"
    <3>1. s \in Parents(req)
      BY <1>3, <2>3 DEF Legal
    <3>2. Seen(call, db, Idle, events, s)
      <4>1. ~Before(u, "find", "retire", t)
        BY <1>5, <1>7, <2>3
      <4> QED
        BY <1>2, <1>7, <4>1 DEF OneKnows, u
    <3>3. Sound(req, db, Idle, events, row, s)
      BY <1>1, <2>3, <3>1, <3>2, RetireSound DEF row
    <3>4. ~Moves(req)
      BY <3>1 DEF Parents, Moves
    <3> QED
      BY <1>7, <3>3, <3>4 DEF Sound, NoRowIsUnwritten
  <2> QED
    BY <1>7, <2>1, <2>2, <2>3
<1>8. /\ Listed(call, t) # Unwritten => Listed(new, t) # Unwritten
      /\ name = "init" => OwnerRow(call, name) # Unwritten
      /\ req.op # "transfer" /\ Written(call, t) # Unwritten => Written(new, t) # Unwritten
  <2>1. ASSUME name = "init"
        PROVE  OwnerRow(call, name) # Unwritten
    <3> DEFINE owner == IF req.op = "create" THEN req.to ELSE req.by
               made == [owner |-> owner, count |-> 0]
    <3>1. OwnerRow(call, name) = made
      BY <2>1 DEF OwnerRow
    <3>2. owner \in Parties
      BY <1>1, RequestsAssumption
    <3> HIDE DEF owner
    <3>3. made \in OwnerRows
      BY <3>2 DEF OwnerRows
    <3> HIDE DEF made
    <3> QED
      BY <3>1, <3>3, RegistryAssumption
  <2>2. name = "transfer" => req.op = "transfer"
    BY <1>3 DEF Legal
  <2> QED
    BY <1>6, <1>7, <2>1, <2>2
<1>9. Listed(new, t) # Unwritten => Sound(req, db, Idle, events, Listed(new, t), t)
  BY <1>2, <1>6, <1>7 DEF OneKnows
<1>10. \/ Before(v, "find", "mark", t) /\ Before(v, "find", "retire", t)
       \/ Seen(new, db, Idle, events, t)
  <2>1. CASE Seen(call, db, Idle, events, t) \/ y = <<"find", t>>
    <3>1. /\ Sound(req, db, Idle, events, new.goods[t], t) /\ IsGoods(Current(call, db, t))
          /\ req.op = "split" => req.children # <<>>
      <4>1. CASE y = <<"find", t>>
        <5>1. name = "find" /\ s = t
          BY <4>1, SecondOf
        <5>2. /\ new.goods = [call.goods EXCEPT ![t] = Read(c, "goods", t)]
              /\ Read(c, "goods", t) # None
              /\ req.op = "split" => req.children # <<>>
          BY <1>1, <5>1 DEF Learns, MaySplit
        <5>3. new.goods[t] = Read(c, "goods", t)
          BY <1>2, <5>2
        <5>4. Sound(req, db, Idle, events, Read(c, "goods", t), t)
          BY <1>2, <5>2, ReadSound
        <5> QED
          BY <5>2, <5>3, <5>4, ReadCurrent DEF Sound
      <4>2. CASE y # <<"find", t>> /\ Seen(call, db, Idle, events, t)
        <5>1. new.goods[t] = call.goods[t]
          <6>1. CASE name = "find"
            <7>1. s # t
              BY <4>2, <6>1
            <7>2. new.goods = [call.goods EXCEPT ![s] = Read(c, "goods", s)]
              BY <1>1, <6>1 DEF Learns
            <7> QED
              BY <1>2, <7>1, <7>2
          <6>2. CASE name # "find"
            BY <1>1, <6>2 DEF Learns
          <6> QED
            BY <6>1, <6>2
        <5> QED
          BY <4>2, <5>1 DEF Seen
      <4> QED
        BY <2>1, <4>1, <4>2
    <3>2. IsGoods(Current(new, db, t))
      BY <1>6, <1>7, <3>1 DEF Current, Sound
    <3> QED
      BY <1>4, <3>1, <3>2 DEF Seen
  <2>2. CASE /\ y # <<"find", t>>
             /\ Before(u, "find", "mark", t) /\ Before(u, "find", "retire", t)
    BY <1>5, <2>2
  <2> QED
    BY <1>2, <2>1, <2>2 DEF OneKnows, u
<1>11. ASSUME t \in Makes(req)
       PROVE  /\ Listed(new, t) # Unwritten \/ Before(v, "save", "init", t)
              /\ Written(new, t) # Unwritten \/ Has(v, <<"init", t>>)
  <2>1. /\ Listed(call, t) # Unwritten \/ Before(u, "save", "init", t)
        /\ Written(call, t) # Unwritten \/ Has(u, <<"init", t>>)
    BY <1>2, <1>11 DEF OneKnows, u
  <2>2. y = <<"save", t>> => Listed(new, t) # Unwritten
    <3>1. y = <<"save", t>> => name = "save" /\ s = t
      BY SecondOf
    <3> QED
      BY <1>6, <1>7, <3>1
  <2>3. y = <<"init", t>> => Written(new, t) # Unwritten
    <3>1. y = <<"init", t>> => name = "init" /\ s = t
      BY SecondOf
    <3> QED
      BY <1>6, <1>8, <3>1
  <2>4. req.op # "transfer"
    BY <1>11 DEF Makes
  <2> QED
    BY <1>5, <1>8, <2>1, <2>2, <2>3, <2>4
<1>12. ASSUME req.op # "transfer", Written(new, t) # Unwritten
       PROVE  t \in Makes(req) /\ Listed(new, t) # Unwritten
  <2>1. CASE Written(call, t) # Unwritten
    BY <1>2, <1>8, <1>12, <2>1 DEF OneKnows
  <2>2. CASE Written(call, t) = Unwritten
    <3>1. name \in {"transfer", "init"} /\ t = s
      BY <1>6, <1>12, <2>2
    <3>2. name = "init" /\ s \in Makes(req)
      BY <1>3, <1>12, <3>1 DEF Legal
    <3>3. ~Before(u, "save", "init", t)
      BY <1>5, <3>1, <3>2
    <3> QED
      BY <1>2, <1>8, <3>1, <3>2, <3>3 DEF OneKnows, u
  <2> QED
    BY <2>1, <2>2
<1>13. ASSUME t = req.subject, Moves(req)
       PROVE  \/ Listed(new, t) # Unwritten /\ Listed(new, t).state = req.state
              \/ Has(v, <<"mark", t>>)
  <2>1. \/ Listed(call, t) # Unwritten /\ Listed(call, t).state = req.state
        \/ Has(u, <<"mark", t>>)
    BY <1>2, <1>13 DEF OneKnows, u
  <2>2. CASE puts
    BY <1>6, <1>7, <1>13, <2>2
  <2>3. CASE ~puts
    <3>1. Listed(new, t) = Listed(call, t)
      BY <1>6, <2>3
    <3>2. y # <<"mark", t>>
      <4>1. y = <<"mark", t>> => name = "mark" /\ s = t
        BY SecondOf
      <4> QED
        BY <2>3, <4>1
    <3> QED
      BY <1>5, <2>1, <3>1, <3>2
  <2> QED
    BY <2>2, <2>3
<1> QED
  BY <1>4, <1>9, <1>10, <1>11, <1>12, <1>13 DEF OneKnows, v

LEMMA DoesState ==
  ASSUME NoRowIsUnwritten, Inv, Stated, NEW c \in Calls, NEW name, NEW new, Does(c, name, new),
         StateKnows(calls[c], db, Idle, events)
  PROVE  StateKnows(new, db, Idle, events)
<1> DEFINE call == calls[c]
           s == Subject(c)
           u == call.todo
           v == Tail(u)
<1>1. /\ u # <<>> /\ GoesOn(call, new) /\ Learns(c, new, name, s)
  BY DEF Does
<1>2. /\ u \in Seq(Statements) /\ (\A i \in 1 .. Len(u) : Legal(call.req, u[i]))
      /\ call.goods = [d \in Subjects |-> call.goods[d]]
  BY DEF StateKnows
<1>3. new.req = call.req /\ new.todo = v
  BY <1>1 DEF GoesOn
<1>4. /\ v \in Seq(Statements)
      /\ \A i \in 1 .. Len(v) : i + 1 \in 1 .. Len(u) /\ v[i] = u[i + 1]
  BY <1>1, <1>2, TailOf
<1>5. new.goods = [d \in Subjects |-> new.goods[d]]
  BY <1>1, <1>2 DEF Learns
<1>6. \A t \in Subjects : OneKnows(new, db, Idle, events, t)
  BY DoesOne
<1>7. call.from \in Reached(events, call.req.subject)
  BY DEF StateKnows
<1>8. name = "state" => s = call.req.subject /\ s \in Subjects
  <2>1. Head(u) = u[1] /\ 1 \in 1 .. Len(u)
    BY <1>1, <1>2, TailOf
  <2>2. Head(u)[1] = name /\ Head(u)[2] = s /\ s \in Subjects
    BY DEF Does, Subject
  <2>3. Legal(call.req, Head(u))
    BY <1>2, <2>1
  <2> QED
    BY <2>2, <2>3 DEF Legal
<1> HIDE DEF u, v, s
<1>9. new.from \in Reached(events, call.req.subject)
  BY <1>1, <1>7, <1>8, CurrentIs DEF Learns
<1> QED
  BY <1>2, <1>3, <1>4, <1>5, <1>6, <1>9 DEF StateKnows

LEMMA BegunState ==
  ASSUME NEW req \in Requests, NEW now, NEW rows, NEW idle, NEW log
  PROVE  StateKnows(Begun(req, now), rows, idle, log)
<1> DEFINE new == Begun(req, now)
           u == Program(req)
<1>1. /\ new.req = req /\ new.todo = u /\ new.goods = [s \in Subjects |-> None]
      /\ new.from = "created"
      /\ \A t \in Subjects : Written(new, t) = Unwritten /\ Listed(new, t) = Unwritten
  BY BegunIs, BegunNow
<1>2. Complete(req, u)
  BY ProgramProper
<1> HIDE DEF new, u
<1>3. /\ u \in Seq(Statements) /\ (\A i \in 1 .. Len(u) : Legal(req, u[i]))
      /\ \A t \in Subjects : Ordered(u, t)
      /\ \A t \in Makes(req) : Has(u, <<"init", t>>)
      /\ Moves(req) => Has(u, <<"mark", req.subject>>)
  BY <1>2 DEF Complete, Proper
<1>4. \A t \in Subjects : OneKnows(new, rows, idle, log, t)
  BY <1>1, <1>3 DEF OneKnows, Ordered
<1>5. new.goods = [t \in Subjects |-> new.goods[t]] /\ new.from \in Reached(log, req.subject)
  BY <1>1 DEF Reached
<1> QED
  BY <1>1, <1>3, <1>4, <1>5 DEF StateKnows, new

\* What a call knows stays true while tables and log grow.
LEMMA StateLater ==
  ASSUME NEW call, NEW rows, NEW idle, NEW log, StateKnows(call, rows, idle, log),
         NEW new, NEW more, NEW longer, idle \subseteq more, log \subseteq longer,
         \A t \in Subjects : rows[<<"owner", t>>] # None => new[<<"owner", t>>] # None,
         \A t \in Subjects : IsGoods(rows[<<"goods", t>>]) => IsGoods(new[<<"goods", t>>])
  PROVE  StateKnows(call, new, more, longer)
<1>1. \A t : Reached(log, t) \subseteq Reached(longer, t)
  BY ReachedGrows
<1>2. ASSUME NEW t \in Subjects, NEW row, Sound(call.req, rows, idle, log, row, t)
      PROVE  Sound(call.req, new, more, longer, row, t)
  BY <1>1, <1>2 DEF Sound
<1>3. ASSUME NEW t \in Subjects, Seen(call, rows, idle, log, t)
      PROVE  Seen(call, new, more, longer, t)
  BY <1>2, <1>3 DEF Seen, Current
<1>4. ASSUME NEW t \in Subjects
      PROVE  OneKnows(call, new, more, longer, t)
  <2>1. OneKnows(call, rows, idle, log, t)
    BY DEF StateKnows
  <2> QED
    BY <1>2, <1>3, <2>1 DEF OneKnows
<1> QED
  BY <1>1, <1>4 DEF StateKnows

\* The log of a subject after a commit.
LEMMA LogAfter ==
  ASSUME NEW c \in Calls, Commit(c), NEW s
  PROVE  \/ /\ Log(s)' = Log(s) /\ \A e \in Appended(calls[c]) : e.subject # s
         \/ \E e \in Appended(calls[c]) : e.subject = s /\ Log(s)' = Log(s) \cup {e}
<1> DEFINE call == calls[c]
<1>1. events' = events \cup Appended(call)
  BY DEF Commit
<1>2. CASE \A e \in Appended(call) : e.subject # s
  BY <1>1, <1>2 DEF Log
<1>3. ASSUME NEW e \in Appended(call), e.subject = s
      PROVE  Log(s)' = Log(s) \cup {e}
  <2>1. Appended(call) = {e}
    BY AppendedIs
  <2> QED
    BY <1>1, <1>3, <2>1 DEF Log
<1> QED
  BY <1>2, <1>3

LEMMA LastOf ==
  ASSUME NEW log, NEW e, e.now \in Nat, \A d \in log : d.now \in Nat,
         log # {} => \E f \in log : \A d \in log : d.now <= f.now
  PROVE  \E f \in log \cup {e} : \A d \in log \cup {e} : d.now <= f.now
<1>1. CASE log = {}
  BY <1>1
<1>2. CASE log # {}
  <2>1. PICK f \in log : \A d \in log : d.now <= f.now
    BY <1>2
  <2>2. CASE f.now <= e.now
    <3>1. \A d \in log \cup {e} : d.now <= e.now
      BY <2>1, <2>2
    <3> QED
      BY <3>1
  <2>3. CASE ~(f.now <= e.now)
    <3>1. \A d \in log \cup {e} : d.now <= f.now
      BY <2>1, <2>3
    <3> QED
      BY <2>1, <3>1
  <2> QED
    BY <2>2, <2>3
<1> QED
  BY <1>1, <1>2

LEMMA AppendedMoves ==
  ASSUME NEW call, call.req \in Requests
  PROVE  /\ Moves(call.req) => \E e \in Appended(call) : e.subject = call.req.subject
                                                        /\ e.to = call.req.state
         /\ \A e \in Appended(call) : /\ Moves(call.req) /\ e.subject = call.req.subject
                                      /\ e.to = call.req.state
<1> DEFINE req == call.req
           e == Event(req.subject, call.from, req.state, call.now)
<1>1. /\ req.subject \in Subjects /\ Batches \cap Assets = {}
      /\ req.op \in {"create", "transfer", "custody", "split", "merge"}
  BY RequestsAssumption, RegistryAssumption
<1>2. e.subject = req.subject /\ e.to = req.state
  BY DEF Event
<1>3. Appended(call) = IF Moves(req) THEN {e} ELSE {}
  BY <1>1 DEF Appended, Moves, Subjects
<1> HIDE DEF e
<1> QED
  BY <1>2, <1>3

LEMMA EndsIdle ==
  ASSUME Inv, NEW c \in Calls, Commit(c), NEW t \in Subjects,
         t \in Idle \/ Ends(calls[c].req, t)
  PROVE  t \in Idle'
<1> DEFINE call == calls[c]
           req == call.req
<1>1. /\ lineage' = lineage \cup Edges(c) /\ events' = events \cup Appended(call)
      /\ req \in Requests
  BY DEF Commit, Inv, Knows, Open
<1>2. CASE t \in Idle
  BY <1>1, <1>2 DEF Idle
<1>3. CASE t \in Parents(req) /\ (req.op = "split" => req.children # <<>>)
  <2>1. \E e \in Edges(c) : e.parent = t
    <3>1. CASE req.op = "split"
      <4>1. req.children \in Seq(Batches) /\ req.children # <<>> /\ t = req.subject
        BY <1>1, <1>3, <3>1, RequestsAssumption DEF Parents
      <4>2. 1 \in DOMAIN req.children
        BY <4>1
      <4>3. [parent |-> req.subject, child |-> req.children[1], call |-> c] \in Edges(c)
        BY <3>1, <4>2 DEF Edges
      <4> QED
        BY <4>1, <4>3
    <3>2. CASE req.op = "merge"
      <4>1. PICK i \in DOMAIN req.parents : t = req.parents[i]
        BY <1>3, <3>2 DEF Parents
      <4>2. [parent |-> req.parents[i], child |-> req.subject, call |-> c] \in Edges(c)
        BY <3>2, <4>1 DEF Edges
      <4> QED
        BY <4>1, <4>2
    <3> QED
      BY <1>3, <3>1, <3>2 DEF Parents
  <2> QED
    BY <1>1, <2>1 DEF Idle
<1>4. CASE t = req.subject /\ Moves(req) /\ req.state = "delisted"
  <2>1. \E e \in Appended(call) : e.subject = t /\ e.to = "delisted"
    BY <1>1, <1>4, AppendedMoves
  <2> QED
    BY <1>1, <2>1 DEF Idle
<1> QED
  BY <1>2, <1>3, <1>4 DEF Ends

LEMMA CommittedGoods ==
  ASSUME NEW c \in Calls, Commit(c), NEW t \in Subjects
  PROVE  db'[<<"goods", t>>] = Current(calls[c], db, t)
<1>1. db' = [r \in Rows |-> Read(c, r[1], r[2])] /\ <<"goods", t>> \in Rows
  BY DEF Commit, Rows
<1>2. db'[<<"goods", t>>] = Read(c, "goods", t)
  BY <1>1
<1> QED
  BY <1>2, ReadCurrent

\* The goods of one subject after a commit.
LEMMA CommitOne ==
  ASSUME NoRowIsUnwritten, Inv, Times, Stated, NEW c \in Calls, Commit(c),
         StateKnows(calls[c], db, Idle, events), NEW t \in Subjects
  PROVE  LET goods == db'[<<"goods", t>>] IN
         /\ db'[<<"owner", t>>] = None => goods = None /\ Log(t)' = {}
         /\ db'[<<"owner", t>>] # None =>
              IsGoods(goods) /\ goods.state \in Reached(events, t)' /\ (goods.active \/ t \in Idle')
         /\ Log(t)' # {} => \E e \in Log(t)' : \A d \in Log(t)' : d.now <= e.now
<1> DEFINE call == calls[c]
           req == call.req
           old == db[<<"goods", t>>]
           goods == db'[<<"goods", t>>]
           wrote == Listed(call, t)
           made == Written(call, t)
           led == Reached(events, t)'
<1>1. /\ call.todo = <<>> /\ Knows(call, db, transfers, serial) /\ call.status = "open"
      /\ db'[<<"owner", t>>] = Merged(call, db, t)
  BY CommitTables
<1>2. goods = IF wrote = Unwritten THEN old ELSE wrote
  BY CommittedGoods DEF Current
<1>3. /\ req \in Requests
      /\ req.op = "transfer" =>
           /\ req.subject \in Subjects /\ db[<<"owner", req.subject>>] # None
           /\ Written(call, req.subject) \in OwnerRows
           /\ \A d \in Subjects : d # req.subject => Written(call, d) = Unwritten
      /\ req.op # "transfer" =>
           (made # Unwritten => db[<<"owner", t>>] = None /\ made \in OwnerRows)
  BY <1>1, Finished
<1>4. /\ wrote # Unwritten => Sound(req, db, Idle, events, wrote, t)
      /\ t \in Makes(req) => made # Unwritten
      /\ req.op # "transfer" /\ made # Unwritten => t \in Makes(req) /\ wrote # Unwritten
      /\ t = req.subject /\ Moves(req) => wrote # Unwritten
  <2>1. OneKnows(call, db, Idle, events, t)
    BY DEF StateKnows
  <2>2. \A y : ~Has(<<>>, y)
    BY DEF Has
  <2> QED
    BY <1>1, <2>1, <2>2 DEF OneKnows
<1>5. /\ db[<<"owner", t>>] = None => old = None /\ Log(t) = {}
      /\ db[<<"owner", t>>] # None =>
              IsGoods(old) /\ old.state \in Reached(events, t) /\ (old.active \/ t \in Idle)
      /\ Log(t) # {} => \E e \in Log(t) : \A d \in Log(t) : d.now <= e.now
  BY DEF Stated
<1>6. (t \in Idle \/ Ends(req, t)) => t \in Idle'
  BY EndsIdle
<1>7. None \notin OwnerRows /\ Unwritten \notin OwnerRows
  BY RegistryAssumption
<1>8. /\ \A e \in Appended(call) : /\ Moves(req) /\ e.subject = req.subject /\ e.to = req.state
      /\ Moves(req) => \E e \in Appended(call) : e.subject = req.subject /\ e.to = req.state
      /\ events' = events \cup Appended(call) /\ \A e \in Appended(call) : e.now = call.now
  BY <1>3, AppendedMoves, AppendedIs DEF Commit
\* What the log leads to: all it led to, and what the call leads to.
<1>9. /\ Reached(events, t) \subseteq led /\ "created" \in led
      /\ t = req.subject /\ Moves(req) => req.state \in led
  <2>1. led = Reached(events', t)
    BY DEF Reached
  <2>2. \A e \in events' : e.subject = t => e.to \in led
    BY <2>1 DEF Reached
  <2>3. Reached(events, t) \subseteq led /\ "created" \in led
    BY <1>8, <2>1, ReachedGrows DEF Reached
  <2> QED
    BY <1>8, <2>2, <2>3
<1>10. wrote # Unwritten => IsGoods(wrote) /\ (wrote.active \/ t \in Idle') /\ wrote.state \in led
  <2>1. ASSUME wrote # Unwritten
        PROVE  wrote.state \in led
    <3>1. CASE wrote.state \in Reached(events, t)
      BY <1>9, <3>1
    <3>2. CASE t \in Makes(req) /\ wrote.state = Wanted(req)
      <4>1. Wanted(req) = "created" \/ (t = req.subject /\ Moves(req) /\ Wanted(req) = req.state)
        BY <3>2 DEF Wanted, Makes, Moves
      <4> QED
        BY <1>9, <3>2, <4>1
    <3>3. CASE t = req.subject /\ Moves(req) /\ wrote.state = req.state
      BY <1>9, <3>3
    <3> QED
      BY <1>4, <2>1, <3>1, <3>2, <3>3 DEF Sound
  <2> QED
    BY <1>4, <1>6, <2>1 DEF Sound
<1>11. Log(t)' # {} => \E e \in Log(t)' : \A d \in Log(t)' : d.now <= e.now
  <2>1. CASE Log(t)' = Log(t)
    BY <1>5, <2>1
  <2>2. ASSUME NEW e \in Appended(call), Log(t)' = Log(t) \cup {e}
        PROVE  \E f \in Log(t)' : \A d \in Log(t)' : d.now <= f.now
    <3>1. e.now \in Nat /\ \A d \in Log(t) : d.now \in Nat
      BY <1>1, <1>8 DEF Times, Log, Open
    <3>2. \E f \in Log(t) \cup {e} : \A d \in Log(t) \cup {e} : d.now <= f.now
      <4> DEFINE log == Log(t)
      <4>1. log # {} => \E f \in log : \A d \in log : d.now <= f.now
        BY <1>5
      <4> HIDE DEF log
      <4>2. \A d \in log : d.now \in Nat
        BY <3>1 DEF log
      <4>3. \E f \in log \cup {e} : \A d \in log \cup {e} : d.now <= f.now
        BY <3>1, <4>1, <4>2, LastOf
      <4> QED
        BY <4>3 DEF log
    <3> QED
      BY <2>2, <3>2
  <2> QED
    BY <2>1, <2>2, LogAfter
<1>12. ASSUME ~(t = req.subject /\ Moves(req))
       PROVE  Log(t)' = Log(t)
  BY <1>8, <1>12, LogAfter
<1> HIDE DEF call, req, old, goods, wrote, made, led
<1>13. CASE t \in Makes(req)
  <2>1. req.op # "transfer"
    BY <1>13 DEF Makes
  <2>2. wrote # Unwritten /\ made # Unwritten /\ made \in OwnerRows
    BY <1>3, <1>4, <1>13, <2>1
  <2>3. goods = wrote /\ db'[<<"owner", t>>] # None
    BY <1>1, <1>2, <1>7, <2>2 DEF Merged, made
  <2> QED
    BY <1>10, <1>11, <2>2, <2>3 DEF goods, led
<1>14. CASE t \notin Makes(req)
  <2>1. db'[<<"owner", t>>] = None <=> db[<<"owner", t>>] = None
    <3>1. CASE made = Unwritten
      BY <1>1, <3>1 DEF Merged, made
    <3>2. CASE made # Unwritten
      <4>1. req.op = "transfer" /\ t = req.subject
        BY <1>3, <1>4, <1>14, <3>2 DEF made
      <4> QED
        BY <1>1, <1>3, <1>7, <3>2, <4>1 DEF Merged, made
    <3> QED
      BY <3>1, <3>2
  <2>2. wrote # Unwritten => db[<<"owner", t>>] # None
    BY <1>4, <1>14 DEF Sound
  <2>3. CASE db[<<"owner", t>>] = None
    <3>1. goods = None
      BY <1>2, <1>5, <2>2, <2>3
    <3>2. Log(t)' = {}
      BY <1>4, <1>5, <1>12, <2>2, <2>3
    <3> QED
      BY <2>1, <2>3, <3>1, <3>2 DEF goods
  <2>4. CASE db[<<"owner", t>>] # None
    <3>1. IsGoods(goods) /\ (goods.active \/ t \in Idle') /\ goods.state \in led
      BY <1>2, <1>5, <1>6, <1>9, <1>10, <2>4
    <3> QED
      BY <1>11, <2>1, <2>4, <3>1 DEF goods, led
  <2> QED
    BY <2>3, <2>4
<1> QED
  BY <1>13, <1>14

\* What the other calls know after a commit.
LEMMA CommitOthers ==
  ASSUME NoRowIsUnwritten, Inv, Times, Stated, NEW c \in Calls, Commit(c),
         StateKnows(calls[c], db, Idle, events),
         NEW call, StateKnows(call, db, Idle, events)
  PROVE  StateKnows(call, db', Idle', events')
<1>1. Idle \subseteq Idle' /\ events \subseteq events'
  <2>1. events' = events \cup Appended(calls[c]) /\ lineage' = lineage \cup Edges(c)
    BY DEF Commit
  <2> QED
    BY <2>1 DEF Idle
<1>2. ASSUME NEW t \in Subjects, db[<<"owner", t>>] # None
      PROVE  db'[<<"owner", t>>] # None
  <2>1. /\ calls[c].todo = <<>> /\ Knows(calls[c], db, transfers, serial) /\ calls[c].status = "open"
        /\ db'[<<"owner", t>>] = Merged(calls[c], db, t)
    BY CommitTables
  <2>2. Written(calls[c], t) # Unwritten => Written(calls[c], t) \in OwnerRows
    BY <2>1, Finished
  <2> QED
    BY <1>2, <2>1, <2>2, RegistryAssumption DEF Merged
<1>3. ASSUME NEW t \in Subjects, IsGoods(db[<<"goods", t>>])
      PROVE  IsGoods(db'[<<"goods", t>>])
  <2>1. Listed(calls[c], t) # Unwritten => IsGoods(Listed(calls[c], t))
    BY DEF StateKnows, OneKnows, Sound
  <2> QED
    BY <1>3, <2>1, CommittedGoods DEF Current
<1> QED
  BY <1>1, <1>2, <1>3, StateLater

LEMMA StateInit ==
  ASSUME Init
  PROVE  StateInv
<1>1. \A c \in Calls : ~Open(c)
  BY DEF Init, Open, Unborn
<1>2. ASSUME NEW s \in Subjects
      PROVE  LET goods == db[<<"goods", s>>] IN
             /\ db[<<"owner", s>>] = None => goods = None /\ Log(s) = {}
             /\ db[<<"owner", s>>] # None =>
                  IsGoods(goods) /\ goods.state \in Reached(events, s) /\ (goods.active \/ s \in Idle)
             /\ Log(s) # {} => \E e \in Log(s) : \A d \in Log(s) : d.now <= e.now
  <2> DEFINE b == Stock[s]
             goods == db[<<"goods", s>>]
             first == Event(s, "created", b.state, 0)
  <2>1. <<"owner", s>> \in Rows /\ <<"goods", s>> \in Rows
    BY DEF Rows
  <2>2. first.subject = s /\ first.to = b.state /\ first.now = 0
    BY DEF Event
  <2>3. \A e \in Log(s) : s \in DOMAIN Stock /\ b.state # "created" /\ e = first
    BY DEF Init, Log, Event
  <2>4. s \in DOMAIN Stock /\ b.state # "created" => first \in Log(s) /\ first \in events
    BY <2>2 DEF Init, Log
  <2>5. CASE s \notin DOMAIN Stock
    <3>1. db[<<"owner", s>>] = None /\ goods = None
      BY <2>1, <2>5 DEF Init
    <3> QED
      BY <2>3, <2>5, <3>1
  <2>6. CASE s \in DOMAIN Stock
    <3>1. /\ db[<<"owner", s>>] = [owner |-> b.producer, count |-> 0]
          /\ goods = Goods(b.quantity, b.state, b.producer)
      BY <2>1, <2>6 DEF Init
    <3>2. IsGoods(goods) /\ goods.state = b.state /\ goods.active
      BY <3>1, GoodsIs
    <3>3. db[<<"owner", s>>] # None
      <4>1. [owner |-> b.producer, count |-> 0] \in OwnerRows
        BY <2>6, RegistryAssumption DEF OwnerRows
      <4> QED
        BY <3>1, <4>1, RegistryAssumption
    <3>4. b.state \in Reached(events, s)
      BY <2>2, <2>4, <2>6 DEF Reached
    <3>5. \A d \in Log(s), e \in Log(s) : d.now <= e.now
      BY <2>2, <2>3
    <3> HIDE DEF first, b, goods
    <3> QED
      BY <3>2, <3>3, <3>4, <3>5 DEF goods
  <2> QED
    BY <2>5, <2>6
<1>3. Stated
  BY <1>2 DEF Stated
<1>4. \A e \in events : e.from \in Reached(events, e.subject)
  BY DEF Init, Event, Reached
<1> QED
  BY <1>1, <1>3, <1>4 DEF StateInv

LEMMA CommitState ==
  ASSUME NoRowIsUnwritten, Inv, Times, StateInv, NEW c \in Calls, Commit(c)
  PROVE  StateInv'
<1>1. \A d \in Calls : Open(d)' => Open(d) /\ calls'[d] = calls[d]
  BY RejectIs
<1>2. Open(c) /\ events' = events \cup Appended(calls[c])
  BY DEF Commit
<1>3. Stated /\ StateKnows(calls[c], db, Idle, events)
  BY <1>2 DEF StateInv
<1>4. \A t \in Subjects : Reached(events, t)' = Reached(events', t)
  BY DEF Reached
<1>5. Stated'
  BY <1>3, CommitOne DEF Stated
<1>6. ASSUME NEW e \in events'
      PROVE  e.from \in Reached(events', e.subject)
  <2>1. Reached(events, e.subject) \subseteq Reached(events', e.subject)
    BY <1>2, ReachedGrows
  <2>2. CASE e \in events
    BY <2>1, <2>2 DEF StateInv
  <2>3. CASE e \in Appended(calls[c])
    BY <1>3, <2>1, <2>3, AppendedIs DEF StateKnows
  <2> QED
    BY <1>2, <2>2, <2>3
<1>7. \A d \in Calls : Open(d)' => StateKnows(calls'[d], db', Idle', events')
  <2> SUFFICES ASSUME NEW d \in Calls, Open(d)'
               PROVE  StateKnows(calls'[d], db', Idle', events')
    OBVIOUS
  <2>1. calls'[d] = calls[d] /\ StateKnows(calls[d], db, Idle, events)
    BY <1>1 DEF StateInv
  <2>2. StateKnows(calls[d], db', Idle', events')
    BY <1>3, <2>1, CommitOthers
  <2> QED
    BY <2>1, <2>2
<1>8. \A e \in events' : e.from \in Reached(events, e.subject)'
  BY <1>6 DEF Reached
<1> QED
  BY <1>5, <1>7, <1>8 DEF StateInv

LEMMA StateNext ==
  ASSUME NoRowIsUnwritten, Inv, Times, StateInv, [Next]_vars
  PROVE  StateInv'
<1>1. ASSUME UNCHANGED tables
      PROVE  /\ Stated' /\ Idle' = Idle /\ db' = db /\ events' = events
             /\ \A e \in events' : e.from \in Reached(events, e.subject)'
  BY <1>1 DEF StateInv, Stated, Idle, Log, Reached, tables
<1>2. CASE UNCHANGED vars
  <2>1. UNCHANGED tables /\ calls' = calls
    BY <1>2 DEF vars, tables
  <2> QED
    BY <1>1, <2>1 DEF StateInv, Open
<1>3. ASSUME NEW c \in Calls, NEW req \in Requests, Begin(c, req)
      PROVE  StateInv'
  <2>1. /\ calls'[c] = Begun(req, begun + 1) /\ UNCHANGED tables
        /\ \A d \in Calls : d # c => calls'[d] = calls[d] /\ (Open(d)' <=> Open(d))
    BY <1>3, BeginIs
  <2>2. StateKnows(calls'[c], db', Idle', events')
    BY <2>1, BegunState
  <2> QED
    BY <1>1, <2>1, <2>2 DEF StateInv
<1>4. ASSUME NEW c \in Calls, Commit(c)
      PROVE  StateInv'
  BY <1>4, CommitState
<1>5. ASSUME NEW c \in Calls, UNCHANGED <<tables, begun>>, Reject(c)
      PROVE  StateInv'
  <2>1. \A d \in Calls : Open(d)' => Open(d) /\ calls'[d] = calls[d]
    BY <1>5, RejectIs
  <2>2. UNCHANGED tables
    BY <1>5
  <2> QED
    BY <1>1, <2>1, <2>2 DEF StateInv
<1>6. ASSUME NEW c \in Calls, UNCHANGED <<tables, begun>>, NEW name, NEW new, Does(c, name, new)
      PROVE  StateInv'
  <2>1. /\ Open(c) /\ calls'[c] = new /\ \A d \in Calls : d # c => calls'[d] = calls[d]
        /\ \A d \in Calls : Open(d)' <=> Open(d)
    BY <1>6, DoesIs
  <2>2. UNCHANGED tables
    BY <1>6
  <2>3. StateKnows(new, db, Idle, events)
    BY <1>6, <2>1, DoesState DEF StateInv
  <2> QED
    BY <1>1, <2>1, <2>2, <2>3 DEF StateInv
<1> QED
  BY <1>2, <1>3, <1>4, <1>5, <1>6, StepCases

\* All that holds of the tables and of what calls under way know.
OverlapInv == Inv /\ Times /\ StateInv

LEMMA OverlapInvariance ==
  ASSUME NoRowIsUnwritten
  PROVE  Spec => []OverlapInv
<1>1. Init => OverlapInv
  BY InitInv, TimesInit, StateInit DEF OverlapInv
<1>2. OverlapInv /\ [Next]_vars => OverlapInv'
  BY NextInv, TimesNext, StateNext DEF OverlapInv
<1> QED
  BY <1>1, <1>2, PTL DEF Spec

LEMMA StatedOnRecord ==
  ASSUME StateInv
  PROVE  StatesAreOnRecord
<1> SUFFICES ASSUME NEW s \in Subjects, db[<<"goods", s>>] # None
             PROVE  db[<<"goods", s>>].state \in Reached(events, s)
  BY DEF StatesAreOnRecord, StateInv
<1> QED
  BY DEF StateInv, Stated

\* Whichever of two calls writes its row last, the state in the row is one that
\* an event of the log led to, and so is the state each event led from.
THEOREM StatesAlwaysOnRecord ==
  ASSUME NoRowIsUnwritten
  PROVE  Spec => []StatesAreOnRecord
<1>1. OverlapInv => StatesAreOnRecord
  BY StatedOnRecord DEF OverlapInv
<1> QED
  BY <1>1, OverlapInvariance, PTL
-----------------------------------------------------------------------------
(* Quantities.                                                             *)

\* None is no row of goods.
NoRowIsNone == \A g : IsGoods(g) => g # None

Joins(req) == req.op \in {"split", "merge"}

\* The quantity of what a request makes.
Made(req, rows, t) ==
  CASE req.op = "create" -> req.quantity
    [] req.op = "split"  -> req.parts[CHOOSE i \in DOMAIN req.children : req.children[i] = t]
    [] req.op = "merge"  -> SumFunction([i \in DOMAIN req.parents |->
                                           rows[<<"goods", req.parents[i]>>].quantity])

\* A program that writes no goods before it has found all that it asks for.
FindsFirst(u) == \A i, j \in 1 .. Len(u) :
  i < j /\ u[i][1] \in {"mark", "retire", "save"} => u[j][1] # "find"

NoFinds(u) == \A i \in 1 .. Len(u) : u[i][1] # "find"

\* A parent is registered, with the quantity that was found; its state and
\* whether it is in use may have changed since.
FoundParent(call, rows, t) ==
  /\ rows[<<"goods", t>>] # None /\ call.goods[t] # None
  /\ call.goods[t].quantity = rows[<<"goods", t>>].quantity
  /\ call.req.op = "split" => MaySplit(call.goods[t], call.req)

ParentsKnown(call, rows) ==
  /\ FindsFirst(call.todo)
  /\ NoFinds(call.todo) \/ \A t \in Subjects : Listed(call, t) = Unwritten
  /\ \A t \in Parents(call.req) : Has(call.todo, <<"find", t>>) \/ FoundParent(call, rows, t)

\* A goods row that a call has written has the quantity it was made with, or
\* that it had before.
AmountKnown(call, rows, t) ==
  Listed(call, t) # Unwritten =>
    IF t \in Makes(call.req)
    THEN rows[<<"goods", t>>] # None \/ Listed(call, t).quantity = Made(call.req, rows, t)
    ELSE Listed(call, t).quantity = rows[<<"goods", t>>].quantity

QuantityKnows(call, rows) ==
  /\ Joins(call.req) => ParentsKnown(call, rows)
  /\ \A t \in Batches : AmountKnown(call, rows, t)

\* The lineage is of registered batches.
LineageKnown == \A e \in lineage : e.parent \in Registered(db) /\ e.child \in Registered(db)

Amounts(rows) == \A b \in Registered(rows) : rows[<<"goods", b>>].quantity \in Nat

Kept(rows, edges) == Amount(rows, Leaves(rows, edges)) >= Amount(rows, Roots(rows, edges))

QuantityInv ==
  /\ LineageKnown /\ Amounts(db) /\ Kept(db, lineage)
  /\ \A c \in Calls : Open(c) => QuantityKnows(calls[c], db)

LEMMA FindsFirstTail ==
  ASSUME NEW u \in Seq(Statements), u # <<>>, FindsFirst(u)
  PROVE  /\ FindsFirst(Tail(u)) /\ (NoFinds(u) => NoFinds(Tail(u)))
         /\ Head(u)[1] \in {"mark", "retire", "save"} => NoFinds(u)
<1> DEFINE v == Tail(u)
<1>1. /\ Head(u) = u[1] /\ Len(v) = Len(u) - 1 /\ Len(u) \in Nat /\ 1 \in 1 .. Len(u)
      /\ \A i \in 1 .. Len(v) : i + 1 \in 1 .. Len(u) /\ v[i] = u[i + 1]
  BY TailOf
<1> HIDE DEF v
<1>2. NoFinds(u) => NoFinds(v)
  BY <1>1 DEF NoFinds
<1>3. FindsFirst(v)
  <2> SUFFICES ASSUME NEW i \in 1 .. Len(v), NEW j \in 1 .. Len(v), i < j,
                      v[i][1] \in {"mark", "retire", "save"}
               PROVE  v[j][1] # "find"
    BY DEF FindsFirst
  <2>1. i + 1 \in 1 .. Len(u) /\ j + 1 \in 1 .. Len(u) /\ i + 1 < j + 1
    BY <1>1
  <2>2. u[i + 1][1] \in {"mark", "retire", "save"} /\ v[j] = u[j + 1]
    BY <1>1
  <2> QED
    BY <2>1, <2>2 DEF FindsFirst
<1>4. ASSUME Head(u)[1] \in {"mark", "retire", "save"}, NEW j \in 1 .. Len(u)
      PROVE  u[j][1] # "find"
  <2>1. CASE j = 1
    BY <1>1, <1>4, <2>1
  <2>2. CASE j # 1
    <3>1. 1 < j
      BY <1>1, <2>2
    <3> QED
      BY <1>1, <1>4, <3>1 DEF FindsFirst
  <2> QED
    BY <2>1, <2>2
<1> QED
  BY <1>2, <1>3, <1>4 DEF NoFinds, v

LEMMA FindsFirstJoin ==
  ASSUME NEW u \in Seq(Statements), NEW v \in Seq(Statements), FindsFirst(u), NoFinds(v)
  PROVE  FindsFirst(u \o v) /\ (NoFinds(u) => NoFinds(u \o v))
<1> DEFINE w == u \o v
<1>1. Joined(u, v, Statements)
  BY Concatenate
<1>2. /\ Len(w) = Len(u) + Len(v) /\ Len(u) \in Nat /\ Len(v) \in Nat
      /\ \A i \in 1 .. Len(u) : w[i] = u[i]
      /\ \A i \in 1 .. Len(v) : w[Len(u) + i] = v[i]
  BY <1>1 DEF Joined
<1> HIDE DEF w
<1>3. ASSUME NEW i \in 1 .. Len(w), i > Len(u)
      PROVE  w[i][1] # "find"
  <2>1. i - Len(u) \in 1 .. Len(v) /\ Len(u) + (i - Len(u)) = i
    BY <1>2, <1>3
  <2>2. w[i] = v[i - Len(u)]
    BY <1>2, <2>1
  <2> QED
    BY <2>1, <2>2 DEF NoFinds
<1>4. ASSUME NEW i \in 1 .. Len(w), ~(i > Len(u))
      PROVE  i \in 1 .. Len(u) /\ w[i] = u[i]
  BY <1>2, <1>4
<1>5. FindsFirst(w)
  <2> SUFFICES ASSUME NEW i \in 1 .. Len(w), NEW j \in 1 .. Len(w), i < j,
                      w[i][1] \in {"mark", "retire", "save"}
               PROVE  w[j][1] # "find"
    BY DEF FindsFirst
  <2>1. CASE j > Len(u)
    BY <1>3, <2>1
  <2>2. CASE ~(j > Len(u))
    <3>1. ~(i > Len(u))
      BY <1>2, <2>2
    <3> QED
      BY <1>4, <2>2, <3>1 DEF FindsFirst
  <2> QED
    BY <2>1, <2>2
<1>6. NoFinds(u) => NoFinds(w)
  BY <1>3, <1>4 DEF NoFinds
<1> QED
  BY <1>5, <1>6 DEF w

\* A program that finds each of its parents before it writes any goods.
Ready(req, u) ==
  /\ u \in Seq(Statements) /\ FindsFirst(u)
  /\ \A t \in Parents(req) : Has(u, <<"find", t>>)

LEMMA AlternatesFind ==
  ASSUME NEW f, NEW u, NEW m, NEW k, Alternates(f, u, m, k)
  PROVE  /\ f \in Seq(Statements)
         /\ \A i \in 1 .. Len(f) : f[i][1] \in {m, k}
         /\ \A j \in DOMAIN u : Has(f, <<m, u[j]>>)
<1>1. \A i \in 1 .. Len(f) : f[i][1] \in {m, k}
  <2> SUFFICES ASSUME NEW i \in 1 .. Len(f) PROVE f[i][1] \in {m, k}
    OBVIOUS
  <2>1. PICK j \in 1 .. Len(u) : f[i] = <<m, u[j]>> \/ f[i] = <<k, u[j]>>
    BY DEF Alternates
  <2> QED
    BY <2>1
<1>2. \A j \in DOMAIN u : Has(f, <<m, u[j]>>)
  BY DEF Alternates, Has
<1> QED
  BY <1>1, <1>2 DEF Alternates

LEMMA SplitReady ==
  ASSUME NEW req \in Requests, req.op = "split"
  PROVE  Ready(req, Program(req))
<1> DEFINE s == req.subject
           x == <<"find", s>>
           y == <<"authorize", s>>
           z == <<"retire", s>>
           a == <<x, y, z>>
           b == ForEachTwo(req.children, "save", "init")
<1>1. s \in Subjects /\ req.children \in Seq(Batches) /\ Parents(req) = {s}
  BY RequestsAssumption DEF Parents
<1>2. Program(req) = a \o b
  BY DEF Program, SplitBatch
<1>3. {"find", "authorize", "retire"} \subseteq Names
      /\ {"save", "init"} \subseteq Names \ {"transfer", "record"}
  BY DEF Names
<1>4. x \in Statements /\ y \in Statements /\ z \in Statements
      /\ x[1] = "find" /\ y[1] = "authorize" /\ z[1] = "retire"
  BY <1>1, <1>3 DEF Statements
<1>5. Alternates(b, req.children, "save", "init")
  BY <1>1, <1>3, ForEachTwoIs
<1> HIDE DEF b, x, y, z
<1>6. a \in Seq(Statements) /\ Len(a) = 3 /\ a[1] = x /\ a[2] = y /\ a[3] = z
  BY <1>4
<1> HIDE DEF a
<1>7. FindsFirst(a)
  <2> SUFFICES ASSUME NEW i \in 1 .. 3, NEW j \in 1 .. 3, i < j
               PROVE  a[j][1] # "find"
    BY <1>6 DEF FindsFirst
  <2>1. j = 2 \/ j = 3
    OBVIOUS
  <2> QED
    BY <1>4, <1>6, <2>1
<1>8. b \in Seq(Statements) /\ NoFinds(b)
  BY <1>5, AlternatesFind DEF NoFinds
<1>9. a \o b \in Seq(Statements) /\ FindsFirst(a \o b)
  BY <1>6, <1>7, <1>8, FindsFirstJoin
<1>10. Has(a, x)
  <2>1. 1 \in 1 .. Len(a)
    BY <1>6
  <2> QED
    BY <1>6, <2>1 DEF Has
<1>11. Has(a \o b, x)
  BY <1>6, <1>8, <1>10, HasJoin
<1> QED
  BY <1>1, <1>2, <1>9, <1>11 DEF Ready, x

LEMMA MergeReady ==
  ASSUME NEW req \in Requests, req.op = "merge"
  PROVE  Ready(req, Program(req))
<1> DEFINE s == req.subject
           ps == req.parents
           a == ForEachTwo(ps, "find", "authorize")
           b == ForEach(ps, "retire")
           x == <<"save", s>>
           y == <<"init", s>>
           e == <<x, y>>
<1>1. s \in Subjects /\ ps \in Seq(Batches) /\ Parents(req) = {ps[i] : i \in DOMAIN ps}
  BY RequestsAssumption DEF Parents
<1>2. Program(req) = (a \o b) \o e
  BY DEF Program, MergeBatch
<1>3. {"find", "authorize", "retire"} \subseteq Names \ {"transfer", "record"}
      /\ {"save", "init"} \subseteq Names
  BY DEF Names
<1>4. Alternates(a, ps, "find", "authorize") /\ b \in Seq(OtherStatements)
  BY <1>1, <1>3, ForEachTwoIs, ForEachProgram
<1>5. b = [i \in 1 .. Len(ps) |-> <<"retire", ps[i]>>] /\ DOMAIN ps = 1 .. Len(ps)
  BY <1>1 DEF ForEach
<1>6. x \in Statements /\ y \in Statements /\ x[1] = "save" /\ y[1] = "init"
  BY <1>1, <1>3 DEF Statements
<1> HIDE DEF a, b, x, y
<1>7. /\ a \in Seq(Statements)
      /\ \A i \in 1 .. Len(a) : a[i][1] \in {"find", "authorize"}
      /\ \A j \in DOMAIN ps : Has(a, <<"find", ps[j]>>)
  BY <1>4, AlternatesFind
<1>8. FindsFirst(a)
  BY <1>7 DEF FindsFirst
<1>9. /\ b \in Seq(Statements) /\ Len(b) = Len(ps)
      /\ \A i \in DOMAIN ps : i \in 1 .. Len(b) /\ b[i] = <<"retire", ps[i]>>
  <2>1. OtherStatements \subseteq Statements
    BY DEF OtherStatements, Statements
  <2>2. b \in Seq(Statements)
    BY <1>4, <2>1
  <2>3. Len(b) = Len(ps)
    BY <1>1, <1>4, <1>5
  <2> QED
    BY <1>5, <2>2, <2>3
<1>10. NoFinds(b)
  BY <1>5, <1>9 DEF NoFinds
<1>11. e \in Seq(Statements) /\ Len(e) = 2 /\ e[1] = x /\ e[2] = y
  BY <1>6, Two
<1> HIDE DEF e
<1>12. NoFinds(e)
  <2> SUFFICES ASSUME NEW i \in 1 .. 2 PROVE e[i][1] # "find"
    BY <1>11 DEF NoFinds
  <2>1. i = 1 \/ i = 2
    OBVIOUS
  <2> QED
    BY <1>6, <1>11, <2>1
<1> DEFINE ab == a \o b
           all == ab \o e
<1>13. ab \in Seq(Statements) /\ FindsFirst(ab)
  BY <1>7, <1>8, <1>9, <1>10, FindsFirstJoin
<1>14. ASSUME NEW j \in DOMAIN ps
       PROVE  Has(ab, <<"find", ps[j]>>)
  <2>1. Has(a, <<"find", ps[j]>>)
    BY <1>7
  <2> HIDE DEF ps
  <2>2. \A z : Has(ab, z) <=> Has(a, z) \/ Has(b, z)
    BY <1>7, <1>9, HasJoin
  <2> HIDE DEF ab
  <2> QED
    BY <2>1, <2>2
<1> HIDE DEF ab
<1>15. all \in Seq(Statements) /\ FindsFirst(all)
  BY <1>11, <1>12, <1>13, FindsFirstJoin
<1>16. ASSUME NEW j \in DOMAIN ps
       PROVE  Has(all, <<"find", ps[j]>>)
  <2>1. \A z : Has(all, z) <=> Has(ab, z) \/ Has(e, z)
    BY <1>11, <1>13, HasJoin
  <2> HIDE DEF all, ps
  <2> QED
    BY <1>14, <2>1
<1>17. Program(req) = all
  BY <1>2 DEF ab
<1> HIDE DEF ps, all
<1> QED
  BY <1>1, <1>15, <1>16, <1>17 DEF Ready

LEMMA ProgramReady ==
  ASSUME NEW req \in Requests, Joins(req)
  PROVE  Ready(req, Program(req))
  BY SplitReady, MergeReady DEF Joins

LEMMA DoesHead ==
  ASSUME Inv, NEW c \in Calls, NEW name, NEW new, Does(c, name, new),
         StateKnows(calls[c], db, Idle, events)
  PROVE  /\ calls[c].req \in Requests /\ calls[c].todo \in Seq(Statements) /\ calls[c].todo # <<>>
         /\ Subject(c) \in Subjects /\ Head(calls[c].todo) = <<name, Subject(c)>>
         /\ Legal(calls[c].req, <<name, Subject(c)>>)
         /\ new.req = calls[c].req /\ new.todo = Tail(calls[c].todo)
         /\ calls[c].goods = [d \in Subjects |-> calls[c].goods[d]]
         /\ Learns(c, new, name, Subject(c)) /\ Writes(c, new, name, Subject(c))
<1> DEFINE call == calls[c]
           s == Subject(c)
           u == call.todo
<1>1. /\ u # <<>> /\ s \in Subjects /\ GoesOn(call, new) /\ Head(u)[1] = name /\ Head(u)[2] = s
      /\ Learns(c, new, name, s) /\ Writes(c, new, name, s)
      /\ call.status = "open" /\ call.req \in Requests
  BY DEF Does, Inv, Knows, Subject
<1>2. /\ u \in Seq(Statements) /\ (\A i \in 1 .. Len(u) : Legal(call.req, u[i]))
      /\ call.goods = [d \in Subjects |-> call.goods[d]]
  BY DEF StateKnows
<1>3. Head(u) = u[1] /\ 1 \in 1 .. Len(u) /\ Head(u) \in Statements
  BY <1>1, <1>2, TailOf
<1>4. Head(u) = <<name, s>>
  BY <1>1, <1>3 DEF Statements
<1>5. Legal(call.req, <<name, s>>)
  BY <1>2, <1>3, <1>4
<1> QED
  BY <1>1, <1>2, <1>4, <1>5 DEF GoesOn

\* What a split or merge has found of its parents stays so.
LEMMA DoesParents ==
  ASSUME Inv, NEW c \in Calls, NEW name, NEW new, Does(c, name, new),
         StateKnows(calls[c], db, Idle, events), ParentsKnown(calls[c], db), Joins(calls[c].req)
  PROVE  ParentsKnown(new, db)
<1> DEFINE call == calls[c]
           req == call.req
           s == Subject(c)
           u == call.todo
           v == Tail(u)
           y == <<name, s>>
<1>1. /\ req \in Requests /\ u \in Seq(Statements) /\ u # <<>> /\ s \in Subjects /\ Head(u) = y
      /\ new.req = req /\ new.todo = v /\ call.goods = [d \in Subjects |-> call.goods[d]]
      /\ Learns(c, new, name, s) /\ Writes(c, new, name, s)
  BY DoesHead
<1>2. /\ FindsFirst(u)
      /\ NoFinds(u) \/ \A t \in Subjects : Listed(call, t) = Unwritten
      /\ \A t \in Parents(req) : Has(u, <<"find", t>>) \/ FoundParent(call, db, t)
  BY DEF ParentsKnown
<1> HIDE DEF u, v, s
<1>3. /\ FindsFirst(v) /\ (NoFinds(u) => NoFinds(v))
      /\ name \in {"mark", "retire", "save"} => NoFinds(u)
      /\ name = "find" => ~NoFinds(u)
  <2>1. Head(u)[1] = name
    BY <1>1
  <2>2. Head(u) = u[1] /\ 1 \in 1 .. Len(u)
    BY <1>1, TailOf
  <2> QED
    BY <1>1, <1>2, <2>1, <2>2, FindsFirstTail DEF NoFinds, v
<1>4. NoFinds(v) \/ \A t \in Subjects : Listed(new, t) = Unwritten
  <2>1. CASE NoFinds(u)
    BY <1>3, <2>1
  <2>2. CASE ~NoFinds(u)
    BY <1>1, <1>2, <1>3, <2>2 DEF Writes
  <2> QED
    BY <2>1, <2>2
<1>5. ASSUME NEW t \in Parents(req)
      PROVE  Has(v, <<"find", t>>) \/ FoundParent(new, db, t)
  <2>1. t \in Subjects
    BY <1>1, RequestsAssumption DEF Parents, Subjects
  <2>2. CASE y = <<"find", t>>
    <3>1. name = "find" /\ s = t
      BY <2>2, SecondOf
    <3>2. Listed(call, t) = Unwritten
      BY <1>2, <1>3, <2>1, <3>1
    <3>3. Read(c, "goods", t) = db[<<"goods", t>>]
      BY <2>1, <3>2, ReadCurrent DEF Current
    <3>4. /\ new.goods = [call.goods EXCEPT ![t] = db[<<"goods", t>>]]
          /\ db[<<"goods", t>>] # None
          /\ req.op = "split" => MaySplit(db[<<"goods", t>>], req)
      BY <1>1, <3>1, <3>3 DEF Learns
    <3>5. new.goods[t] = db[<<"goods", t>>]
      BY <1>1, <2>1, <3>4
    <3> QED
      BY <1>1, <3>4, <3>5 DEF FoundParent
  <2>3. CASE y # <<"find", t>>
    <3>1. new.goods[t] = call.goods[t]
      <4>1. CASE name = "find"
        <5>1. s # t
          BY <2>3, <4>1
        <5>2. new.goods = [call.goods EXCEPT ![s] = Read(c, "goods", s)]
          BY <1>1, <4>1 DEF Learns
        <5> QED
          BY <1>1, <2>1, <5>1, <5>2
      <4>2. CASE name # "find"
        BY <1>1, <4>2 DEF Learns
      <4> QED
        BY <4>1, <4>2
    <3>2. Has(u, <<"find", t>>) => Has(v, <<"find", t>>)
      BY <1>1, <2>3, HasTail DEF v
    <3> QED
      BY <1>1, <1>2, <3>1, <3>2 DEF FoundParent
  <2> QED
    BY <2>2, <2>3
<1> QED
  BY <1>1, <1>3, <1>4, <1>5 DEF ParentsKnown

\* The quantity of new goods is what the request makes of the rows there are.
LEMMA NewAmount ==
  ASSUME NEW call, call.req \in Requests, NEW t \in Batches, t \in Makes(call.req), NEW rows,
         call.req.op = "merge" => \A d \in Parents(call.req) :
           call.goods[d].quantity = rows[<<"goods", d>>].quantity
  PROVE  NewGoods(call, t).quantity = Made(call.req, rows, t)
<1> DEFINE req == call.req
<1>0. \A a, b, d : Goods(a, b, d).quantity = a
  BY DEF Goods
<1>1. CASE req.op = "create"
  <2>1. t \notin Assets
    BY RegistryAssumption
  <2> DEFINE state == IF req.state = None THEN "created" ELSE req.state
  <2>2. NewGoods(call, t) = Goods(req.quantity, state, req.to)
    BY <1>1, <2>1 DEF NewGoods
  <2>3. Made(req, rows, t) = req.quantity
    BY <1>1 DEF Made
  <2> HIDE DEF state
  <2>4. Goods(req.quantity, state, req.to).quantity = req.quantity
    BY <1>0
  <2> QED
    BY <2>2, <2>3, <2>4
<1>2. CASE req.op = "split"
  <2> DEFINE part == req.parts[CHOOSE i \in DOMAIN req.children : req.children[i] = t]
  <2>1. NewGoods(call, t) = Goods(part, "created", call.goods[req.subject].producer)
    BY <1>2 DEF NewGoods
  <2>2. Made(req, rows, t) = part
    BY <1>2 DEF Made
  <2> QED
    BY <1>0, <2>1, <2>2
<1>3. CASE req.op = "merge"
  <2> DEFINE f == [i \in DOMAIN req.parents |-> call.goods[req.parents[i]].quantity]
             g == [i \in DOMAIN req.parents |-> rows[<<"goods", req.parents[i]>>].quantity]
  <2>1. NewGoods(call, t) = Goods(SumFunction(f), "created", call.goods[req.parents[1]].producer)
    BY <1>3 DEF NewGoods
  <2>2. Made(req, rows, t) = SumFunction(g)
    BY <1>3 DEF Made
  <2>3. f = g
    BY <1>3 DEF Parents
  <2> DEFINE total == SumFunction(g)
             from == call.goods[req.parents[1]].producer
  <2>4. NewGoods(call, t) = Goods(total, "created", from)
    <3> HIDE DEF f, g, from
    <3> QED
      BY <2>1, <2>3 DEF from
  <2>5. Made(req, rows, t) = total
    BY <2>2
  <2> HIDE DEF total, from
  <2> QED
    BY <1>0, <2>4, <2>5
<1>4. req.op \in {"create", "split", "merge"}
  BY DEF Makes
<1> QED
  BY <1>1, <1>2, <1>3, <1>4

LEMMA DoesAmount ==
  ASSUME NoRowIsUnwritten, NoRowIsNone, Inv, Stated,
         NEW c \in Calls, NEW name, NEW new, Does(c, name, new),
         StateKnows(calls[c], db, Idle, events), QuantityKnows(calls[c], db), NEW t \in Batches
  PROVE  AmountKnown(new, db, t)
<1> DEFINE call == calls[c]
           req == call.req
           s == Subject(c)
           u == call.todo
           y == <<name, s>>
           row == GoodsRow(c, name, s)
           old == db[<<"goods", t>>]
           puts == name \in {"mark", "retire", "save"} /\ t = s
<1>1. /\ req \in Requests /\ u \in Seq(Statements) /\ u # <<>> /\ s \in Subjects /\ Head(u) = y
      /\ Legal(req, y) /\ new.req = req
      /\ Writes(c, new, name, s)
  BY DoesHead
<1>2. t \in Subjects /\ t \notin Assets
  BY RegistryAssumption DEF Subjects
<1>3. OneKnows(call, db, Idle, events, t) /\ AmountKnown(call, db, t) /\ (Joins(req) => ParentsKnown(call, db))
  BY <1>2 DEF StateKnows, QuantityKnows
<1>4. Listed(new, t) = IF puts THEN row ELSE Listed(call, t)
  BY <1>1, <1>2 DEF Writes
<1>5. ASSUME puts, Joins(req)
      PROVE  \A d \in Parents(req) : FoundParent(call, db, d)
  <2>1. /\ FindsFirst(u)
        /\ \A d \in Parents(req) : Has(u, <<"find", d>>) \/ FoundParent(call, db, d)
    BY <1>3, <1>5 DEF ParentsKnown
  <2>2. Head(u)[1] = name
    BY <1>1
  <2>3. NoFinds(u)
    <3> HIDE DEF u
    <3> QED
      BY <1>1, <1>5, <2>1, <2>2, FindsFirstTail
  <2>4. \A d : ~Has(u, <<"find", d>>)
    <3> SUFFICES ASSUME NEW d, NEW i \in 1 .. Len(u), u[i] = <<"find", d>>
                 PROVE  FALSE
      BY DEF Has
    <3>1. u[i][1] # "find"
      BY <2>3 DEF NoFinds
    <3> HIDE DEF u
    <3> QED
      BY <3>1
  <2> QED
    BY <2>1, <2>4
<1>6. \A a, b : Before(u, a, b, t) => y # <<b, t>>
  BY <1>1, BeforeTail
<1> HIDE DEF row, u, s
<1>7. ASSUME puts
      PROVE  IF t \in Makes(req) THEN old # None \/ row.quantity = Made(req, db, t)
             ELSE row.quantity = old.quantity
  <2>1. CASE name = "save"
    <3>1. t \in Makes(req)
      BY <1>1, <1>7, <2>1 DEF Legal
    <3>2. row = NewGoods(call, t)
      BY <1>7, <2>1 DEF row, GoodsRow
    <3>3. req.op = "merge" => \A d \in Parents(req) :
            call.goods[d].quantity = db[<<"goods", d>>].quantity
      BY <1>5, <1>7 DEF Joins, FoundParent
    <3> QED
      BY <1>1, <3>1, <3>2, <3>3, NewAmount
  <2>2. CASE name = "mark"
    <3> DEFINE now == Read(c, "goods", t)
               to == req.state
               active == (to = "available") \/ (to # "delisted" /\ call.goods[t].active)
    <3>1. Seen(call, db, Idle, events, t)
      <4>1. ~Before(u, "find", "mark", t)
        BY <1>6, <1>7, <2>2
      <4> QED
        BY <1>3, <4>1 DEF OneKnows, u
    <3>2. now = Current(call, db, t) /\ IsGoods(now)
      BY <1>2, <3>1, ReadCurrent DEF Seen
    <3>3. row = [now EXCEPT !.state = to, !.active = active] /\ active \in BOOLEAN
      BY <1>2, <1>7, <2>2 DEF row, GoodsRow, MarkedBatch
    <3> HIDE DEF now, to, active
    <3>4. row = RowOf(now.quantity, to, active, now.producer)
      BY <3>2, <3>3, RowChanges
    <3>5. row.quantity = now.quantity
      BY <3>4, RowParts
    <3>6. CASE Listed(call, t) = Unwritten
      <4>1. now = old
        BY <3>2, <3>6 DEF Current
      <4> QED
        BY <3>2, <3>5, <4>1 DEF NoRowIsNone
    <3>7. CASE Listed(call, t) # Unwritten
      <4>1. now = Listed(call, t)
        BY <3>2, <3>7 DEF Current
      <4> QED
        BY <1>3, <3>5, <3>7, <4>1 DEF AmountKnown
    <3> QED
      BY <3>6, <3>7
  <2>3. CASE name = "retire"
    <3> DEFINE g == call.goods[t]
               no == FALSE
    <3>1. t \in Parents(req)
      BY <1>1, <1>7, <2>3 DEF Legal
    <3>2. Joins(req)
      BY <3>1 DEF Parents, Joins
    <3>3. g.quantity = old.quantity /\ g # None /\ old # None
      BY <1>5, <1>7, <3>1, <3>2 DEF FoundParent
    <3>4. Seen(call, db, Idle, events, t)
      <4>1. ~Before(u, "find", "retire", t)
        BY <1>6, <1>7, <2>3
      <4> QED
        BY <1>3, <4>1 DEF OneKnows, u
    <3>5. IsGoods(g)
      BY <3>4 DEF Seen, Sound
    <3>6. row = [g EXCEPT !.active = no] /\ no \in BOOLEAN
      BY <1>7, <2>3 DEF row, GoodsRow
    <3> HIDE DEF g, no
    <3>7. row = RowOf(g.quantity, g.state, no, g.producer)
      BY <3>5, <3>6, RowChanges
    <3>8. row.quantity = g.quantity
      BY <3>7, RowParts
    <3> QED
      BY <3>3, <3>8
  <2> QED
    BY <1>7, <2>1, <2>2, <2>3
<1> QED
  BY <1>1, <1>3, <1>4, <1>7 DEF AmountKnown

LEMMA DoesQuantity ==
  ASSUME NoRowIsUnwritten, NoRowIsNone, Inv, Stated,
         NEW c \in Calls, NEW name, NEW new, Does(c, name, new),
         StateKnows(calls[c], db, Idle, events), QuantityKnows(calls[c], db)
  PROVE  QuantityKnows(new, db)
<1>1. new.req = calls[c].req
  BY DEF Does, GoesOn
<1>2. Joins(new.req) => ParentsKnown(new, db)
  BY <1>1, DoesParents DEF QuantityKnows
<1>3. \A t \in Batches : AmountKnown(new, db, t)
  BY DoesAmount
<1> QED
  BY <1>2, <1>3 DEF QuantityKnows

LEMMA BegunQuantity ==
  ASSUME NEW req \in Requests, NEW now, NEW rows
  PROVE  QuantityKnows(Begun(req, now), rows)
<1> DEFINE new == Begun(req, now)
           u == Program(req)
<1>1. new.req = req /\ new.todo = u /\ \A t \in Subjects : Listed(new, t) = Unwritten
  BY BegunIs, BegunNow
<1> HIDE DEF new, u
<1>2. Joins(req) => ParentsKnown(new, rows)
  BY <1>1, ProgramReady DEF Ready, ParentsKnown, u
<1>3. \A t \in Batches : AmountKnown(new, rows, t)
  BY <1>1 DEF AmountKnown, Subjects
<1> QED
  BY <1>1, <1>2, <1>3 DEF QuantityKnows, new

(* Sums of quantities.                                                     *)
LEMMA AmountSame ==
  ASSUME NEW rows, NEW new, NEW S,
         \A b \in S : new[<<"goods", b>>].quantity = rows[<<"goods", b>>].quantity
  PROVE  Amount(new, S) = Amount(rows, S)
<1>1. [b \in S |-> new[<<"goods", b>>].quantity] = [b \in S |-> rows[<<"goods", b>>].quantity]
  OBVIOUS
<1> QED
  BY <1>1, Zenon DEF Amount

LEMMA AmountOfParts ==
  ASSUME NEW rows, NEW S, NEW R, IsFiniteSet(S), IsFiniteSet(R), S \cap R = {},
         \A b \in S \cup R : rows[<<"goods", b>>].quantity \in Int
  PROVE  Amount(rows, S \cup R) = Amount(rows, S) + Amount(rows, R)
<1> DEFINE f == [b \in S \cup R |-> rows[<<"goods", b>>].quantity]
           g == [b \in S |-> rows[<<"goods", b>>].quantity]
           h == [b \in R |-> rows[<<"goods", b>>].quantity]
<1>1. /\ \A b \in S \cup R : f[b] \in Int
      /\ \A b \in S : f[b] = g[b]
      /\ \A b \in R : f[b] = h[b]
  OBVIOUS
<1>2. /\ Amount(rows, S) = SumFunctionOnSet(g, S) /\ Amount(rows, R) = SumFunctionOnSet(h, R)
      /\ Amount(rows, S \cup R) = SumFunctionOnSet(f, S \cup R)
  BY Zenon DEF Amount
<1> HIDE DEF f, g, h
<1>3. SumFunctionOnSet(f, S \cup R) = SumFunctionOnSet(f, S) + SumFunctionOnSet(f, R)
  BY <1>1, SumOfParts
<1>4. SumFunctionOnSet(f, S) = SumFunctionOnSet(g, S) /\ SumFunctionOnSet(f, R) = SumFunctionOnSet(h, R)
  BY <1>1, SumOfSame
<1> QED
  BY <1>2, <1>3, <1>4

LEMMA AmountOfOne ==
  ASSUME NEW rows, NEW b, rows[<<"goods", b>>].quantity \in Int
  PROVE  Amount(rows, {b}) = rows[<<"goods", b>>].quantity
<1> DEFINE f == [x \in {b} |-> rows[<<"goods", x>>].quantity]
<1>1. f[b] = rows[<<"goods", b>>].quantity
  OBVIOUS
<1>2. Amount(rows, {b}) = SumFunctionOnSet(f, {b})
  BY Zenon DEF Amount
<1> HIDE DEF f
<1>3. SumFunctionOnSet(f, {b}) = f[b]
  BY <1>1, SumOfOne
<1> QED
  BY <1>1, <1>2, <1>3

\* What the quantities named by a sequence add up to, if no batch is named twice.
LEMMA AmountListed ==
  ASSUME NEW rows, NEW u, NEW f, IsFiniteSet(DOMAIN u), DOMAIN f = DOMAIN u,
         \A i \in DOMAIN u : f[i] = rows[<<"goods", u[i]>>].quantity /\ f[i] \in Int,
         \A i, j \in DOMAIN u : u[i] = u[j] => i = j
  PROVE  SumFunction(f) = Amount(rows, {u[i] : i \in DOMAIN u})
<1> DEFINE S == DOMAIN u
           T == {u[i] : i \in S}
           g == [b \in T |-> rows[<<"goods", b>>].quantity]
<1>1. \A i \in S : f[i] = g[u[i]] /\ f[i] \in Int
  OBVIOUS
<1>2. SumFunction(f) = SumFunctionOnSet(f, S)
  BY DEF SumFunction
<1>3. Amount(rows, T) = SumFunctionOnSet(g, T)
  BY Zenon DEF Amount
<1> HIDE DEF g, S
<1>4. IsFiniteSet(S) /\ \A i, j \in S : u[i] = u[j] => i = j
  BY DEF S
<1>5. SumFunctionOnSet(f, S) = SumFunctionOnSet(g, {u[i] : i \in S})
  BY <1>1, <1>4, SumRenamed
<1> QED
  BY <1>2, <1>3, <1>5 DEF S

\* What they add up to at least, if a batch may be named twice.
LEMMA AmountNamed ==
  ASSUME NEW rows, NEW u, NEW f, IsFiniteSet(DOMAIN u), DOMAIN f = DOMAIN u,
         \A i \in DOMAIN u : f[i] = rows[<<"goods", u[i]>>].quantity /\ f[i] \in Nat
  PROVE  SumFunction(f) >= Amount(rows, {u[i] : i \in DOMAIN u})
<1> DEFINE S == DOMAIN u
           T == {u[i] : i \in S}
           g == [b \in T |-> rows[<<"goods", b>>].quantity]
<1>1. \A i \in S : f[i] = g[u[i]] /\ f[i] \in Nat
  OBVIOUS
<1>2. SumFunction(f) = SumFunctionOnSet(f, S)
  BY DEF SumFunction
<1>3. Amount(rows, T) = SumFunctionOnSet(g, T)
  BY Zenon DEF Amount
<1> HIDE DEF g, S
<1>4. IsFiniteSet(S)
  BY DEF S
<1>5. SumFunctionOnSet(f, S) >= SumFunctionOnSet(g, {u[i] : i \in S})
  BY <1>1, <1>4, SumOfImage
<1> QED
  BY <1>2, <1>3, <1>5 DEF S

LEMMA AmountIsNat ==
  ASSUME NEW rows, NEW S, IsFiniteSet(S), \A b \in S : rows[<<"goods", b>>].quantity \in Nat
  PROVE  Amount(rows, S) \in Nat
<1> DEFINE f == [b \in S |-> rows[<<"goods", b>>].quantity]
<1>1. \A b \in S : f[b] \in Nat
  OBVIOUS
<1> HIDE DEF f
<1>2. SumFunctionOnSet(f, S) \in Nat
  BY <1>1, SumIsNat
<1> QED
  BY <1>2 DEF Amount, f

\* Batches that are added to some that keep their quantities.
LEMMA AmountAdded ==
  ASSUME NEW rows, NEW new, NEW L, NEW K, IsFiniteSet(L), IsFiniteSet(K), L \cap K = {},
         \A b \in L : /\ rows[<<"goods", b>>].quantity \in Int
                      /\ new[<<"goods", b>>].quantity = rows[<<"goods", b>>].quantity,
         \A b \in K : new[<<"goods", b>>].quantity \in Int
  PROVE  Amount(new, L \cup K) = Amount(rows, L) + Amount(new, K)
<1>1. Amount(new, L \cup K) = Amount(new, L) + Amount(new, K)
  BY AmountOfParts
<1>2. Amount(new, L) = Amount(rows, L)
  BY AmountSame
<1> QED
  BY <1>1, <1>2

\* Batches that take the place of others, which had no more; some of those may
\* have been replaced before.
LEMMA AmountReplaced ==
  ASSUME NEW rows, NEW new, NEW L, NEW P, NEW K,
         IsFiniteSet(L), IsFiniteSet(K), IsFiniteSet(P), L \cap K = {},
         \A b \in L \cup P : rows[<<"goods", b>>].quantity \in Nat,
         \A b \in L : new[<<"goods", b>>].quantity = rows[<<"goods", b>>].quantity,
         \A b \in K : new[<<"goods", b>>].quantity \in Nat,
         Amount(new, K) >= Amount(rows, P)
  PROVE  Amount(new, (L \ P) \cup K) >= Amount(rows, L)
<1> DEFINE R == L \ P
           B == P \cap L
           Q == P \ L
<1>1. /\ IsFiniteSet(R) /\ IsFiniteSet(B) /\ IsFiniteSet(Q)
      /\ R \cap K = {} /\ R \cap B = {} /\ Q \cap B = {} /\ R \subseteq L /\ B \subseteq P /\ Q \subseteq P
  BY FS_Subset
<1>2. R \cup B = L /\ Q \cup B = P
  OBVIOUS
<1>3. /\ \A b \in R \cup B : rows[<<"goods", b>>].quantity \in Nat /\ rows[<<"goods", b>>].quantity \in Int
      /\ \A b \in Q \cup B : rows[<<"goods", b>>].quantity \in Nat /\ rows[<<"goods", b>>].quantity \in Int
      /\ \A b \in R : new[<<"goods", b>>].quantity = rows[<<"goods", b>>].quantity
      /\ \A b \in K : new[<<"goods", b>>].quantity \in Int
  OBVIOUS
<1> HIDE DEF R, B, Q
<1>4. Amount(new, R \cup K) = Amount(rows, R) + Amount(new, K)
  BY <1>1, <1>3, AmountAdded
<1>5. Amount(rows, R \cup B) = Amount(rows, R) + Amount(rows, B)
  BY <1>1, <1>3, AmountOfParts
<1>6. Amount(rows, Q \cup B) = Amount(rows, Q) + Amount(rows, B)
  BY <1>1, <1>3, AmountOfParts
<1>7. Amount(rows, R) \in Nat /\ Amount(rows, B) \in Nat /\ Amount(rows, Q) \in Nat
      /\ Amount(new, K) \in Nat
  BY <1>1, <1>3, AmountIsNat
<1>8. Amount(new, K) >= Amount(rows, Q) + Amount(rows, B)
  BY <1>2, <1>6
<1>9. Amount(rows, L) = Amount(rows, R) + Amount(rows, B)
  BY <1>2, <1>5
<1> QED
  BY <1>4, <1>7, <1>8, <1>9 DEF R

(* The commit of a call.                                                   *)

\* The goods of a subject: new if the call makes it, and not otherwise.
LEMMA CommitGoods ==
  ASSUME NoRowIsNone, Inv, Stated, NEW c \in Calls, Commit(c),
         StateKnows(calls[c], db, Idle, events), NEW t \in Subjects
  PROVE  /\ db'[<<"goods", t>>] = IF Listed(calls[c], t) = Unwritten THEN db[<<"goods", t>>]
                                  ELSE Listed(calls[c], t)
         /\ t \in Makes(calls[c].req) =>
              /\ db[<<"goods", t>>] = None /\ db'[<<"goods", t>>] # None
              /\ Listed(calls[c], t) # Unwritten
         /\ t \notin Makes(calls[c].req) =>
              (db'[<<"goods", t>>] # None <=> db[<<"goods", t>>] # None)
<1> DEFINE call == calls[c]
           req == call.req
           old == db[<<"goods", t>>]
           goods == db'[<<"goods", t>>]
           wrote == Listed(call, t)
           made == Written(call, t)
<1>1. /\ call.todo = <<>> /\ Knows(call, db, transfers, serial) /\ call.status = "open"
  BY CommitTables
<1>2. goods = IF wrote = Unwritten THEN old ELSE wrote
  BY CommittedGoods DEF Current
<1>3. req.op # "transfer" => (made # Unwritten => db[<<"owner", t>>] = None)
  BY <1>1, Finished
<1>4. /\ wrote # Unwritten => Sound(req, db, Idle, events, wrote, t)
      /\ t \in Makes(req) => made # Unwritten
      /\ req.op # "transfer" /\ made # Unwritten => wrote # Unwritten
  <2>1. OneKnows(call, db, Idle, events, t)
    BY DEF StateKnows
  <2>2. \A y : ~Has(<<>>, y)
    BY DEF Has
  <2> QED
    BY <1>1, <2>1, <2>2 DEF OneKnows
<1>5. /\ db[<<"owner", t>>] = None => old = None
      /\ db[<<"owner", t>>] # None => IsGoods(old)
  BY DEF Stated
<1>6. t \in Makes(req) => req.op # "transfer"
  BY DEF Makes
<1>7. wrote # Unwritten => IsGoods(wrote) /\ (t \notin Makes(req) => db[<<"owner", t>>] # None)
  BY <1>4 DEF Sound
<1> HIDE DEF call, req, old, goods, wrote, made
<1> QED
  BY <1>2, <1>3, <1>4, <1>5, <1>6, <1>7 DEF NoRowIsNone, call, req, old, goods, wrote, made

\* The quantities after a commit.
LEMMA CommitAmounts ==
  ASSUME NoRowIsNone, Inv, Stated, NEW c \in Calls, Commit(c),
         StateKnows(calls[c], db, Idle, events), QuantityKnows(calls[c], db)
  PROVE  LET K == Makes(calls[c].req) \cap Batches IN
         /\ Registered(db') = Registered(db) \cup K /\ Registered(db) \cap K = {}
         /\ \A b \in Registered(db) : db'[<<"goods", b>>].quantity = db[<<"goods", b>>].quantity
         /\ \A b \in K : db'[<<"goods", b>>].quantity = Made(calls[c].req, db, b)
<1> DEFINE call == calls[c]
           req == call.req
           K == Makes(req) \cap Batches
<1>1. ASSUME NEW b \in Batches
      PROVE  /\ b \in Registered(db') <=> b \in Registered(db) \/ b \in K
             /\ b \in Registered(db) => b \notin K
             /\ b \in Registered(db) => db'[<<"goods", b>>].quantity = db[<<"goods", b>>].quantity
             /\ b \in K => db'[<<"goods", b>>].quantity = Made(req, db, b)
  <2>1. b \in Subjects
    BY DEF Subjects
  <2>2. AmountKnown(call, db, b)
    BY DEF QuantityKnows
  <2>3. /\ db'[<<"goods", b>>] = IF Listed(call, b) = Unwritten THEN db[<<"goods", b>>]
                                  ELSE Listed(call, b)
        /\ b \in Makes(req) =>
             /\ db[<<"goods", b>>] = None /\ db'[<<"goods", b>>] # None
             /\ Listed(call, b) # Unwritten
        /\ b \notin Makes(req) => (db'[<<"goods", b>>] # None <=> db[<<"goods", b>>] # None)
    BY <2>1, CommitGoods
  <2> HIDE DEF call, req
  <2> QED
    BY <2>2, <2>3 DEF AmountKnown, Registered, req
<1>2. Registered(db) \subseteq Batches /\ Registered(db') \subseteq Batches
  BY DEF Registered
<1> HIDE DEF req, K
<1>3. K \subseteq Batches
  BY DEF K
<1>4. Registered(db') = Registered(db) \cup K /\ Registered(db) \cap K = {}
  BY <1>1, <1>2, <1>3
<1> QED
  BY <1>1, <1>2, <1>3, <1>4 DEF K, req

\* A call has found its parents as they are when it commits.
\* A call has found its parents, which are registered when it commits.
LEMMA CommitParents ==
  ASSUME Inv, NEW c \in Calls, Commit(c), QuantityKnows(calls[c], db), Joins(calls[c].req)
  PROVE  /\ Parents(calls[c].req) \subseteq Registered(db)
         /\ \A t \in Parents(calls[c].req) : FoundParent(calls[c], db, t)
<1> DEFINE call == calls[c]
           req == call.req
<1>1. call.todo = <<>> /\ req \in Requests
  BY CommitTables DEF Knows
<1>2. \A y : ~Has(<<>>, y)
  BY DEF Has
<1>3. \A t \in Parents(req) : FoundParent(call, db, t)
  BY <1>1, <1>2 DEF QuantityKnows, ParentsKnown
<1>4. Parents(req) \subseteq Batches
  BY <1>1, RequestsAssumption, QuantitiesAssumption DEF Parents, Joins
<1> QED
  BY <1>3, <1>4 DEF FoundParent, Registered

\* What a split or merge makes has as much as its parents.
LEMMA SplitAmount ==
  ASSUME NEW req \in Requests, req.op = "split", NEW rows, NEW new,
         NEW found, MaySplit(found, req),
         found.quantity = rows[<<"goods", req.subject>>].quantity,
         \A b \in Makes(req) : new[<<"goods", b>>].quantity = Made(req, rows, b),
         rows[<<"goods", req.subject>>].quantity \in Nat
  PROVE  /\ Amount(rows, Parents(req)) = Amount(new, Makes(req))
         /\ \A b \in Makes(req) : new[<<"goods", b>>].quantity \in Nat
<1> DEFINE u == req.children
           f == req.parts
           s == req.subject
<1>1. /\ u \in Seq(Batches) /\ f \in Seq(Nat) /\ Len(f) = Len(u)
      /\ Makes(req) = {u[i] : i \in DOMAIN u} /\ Parents(req) = {s}
  BY RequestsAssumption, QuantitiesAssumption DEF Makes, Parents
<1>2. /\ \A i, j \in DOMAIN u : u[i] = u[j] => i = j
      /\ SumFunction(f) = rows[<<"goods", s>>].quantity
  BY DEF MaySplit
<1>3. \A t : Made(req, rows, t) = f[CHOOSE i \in DOMAIN u : u[i] = t]
  BY DEF Made
<1> HIDE DEF u, f, s
<1>4. DOMAIN u = 1 .. Len(u) /\ DOMAIN f = DOMAIN u /\ Len(u) \in Nat
      /\ \A i \in DOMAIN u : f[i] \in Nat
  BY <1>1
<1>5. IsFiniteSet(DOMAIN u)
  BY <1>4, FS_Interval
<1>6. ASSUME NEW i \in DOMAIN u
      PROVE  new[<<"goods", u[i]>>].quantity = f[i]
  <2>1. (CHOOSE j \in DOMAIN u : u[j] = u[i]) = i
    BY <1>2
  <2> QED
    BY <1>1, <1>3, <2>1
<1>7. SumFunction(f) = Amount(new, {u[i] : i \in DOMAIN u})
  BY <1>2, <1>4, <1>5, <1>6, AmountListed
<1>8. Amount(rows, {s}) = rows[<<"goods", s>>].quantity
  BY AmountOfOne DEF s
<1>9. ASSUME NEW b \in Makes(req)
      PROVE  new[<<"goods", b>>].quantity \in Nat
  <2>1. PICK i \in DOMAIN u : b = u[i]
    BY <1>1
  <2> QED
    BY <1>4, <1>6, <2>1
<1> QED
  BY <1>1, <1>2, <1>7, <1>8, <1>9

\* A merge may name a parent twice, and then makes more.
LEMMA MergeAmount ==
  ASSUME NEW req \in Requests, req.op = "merge", NEW rows, NEW new,
         \A b \in Parents(req) : rows[<<"goods", b>>].quantity \in Nat,
         \A b \in Makes(req) : new[<<"goods", b>>].quantity = Made(req, rows, b)
  PROVE  /\ Amount(new, Makes(req)) >= Amount(rows, Parents(req))
         /\ \A b \in Makes(req) : new[<<"goods", b>>].quantity \in Nat
<1> DEFINE u == req.parents
           s == req.subject
           f == [i \in DOMAIN u |-> rows[<<"goods", u[i]>>].quantity]
<1>1. u \in Seq(Batches) /\ Makes(req) = {s} /\ Parents(req) = {u[i] : i \in DOMAIN u}
  BY RequestsAssumption DEF Makes, Parents
<1>2. \A i \in DOMAIN u : rows[<<"goods", u[i]>>].quantity \in Nat
  BY <1>1
<1>3. Made(req, rows, s) = SumFunction(f)
  BY DEF Made
<1>4. DOMAIN f = DOMAIN u /\ \A i \in DOMAIN u : f[i] = rows[<<"goods", u[i]>>].quantity /\ f[i] \in Nat
  BY <1>2
<1> HIDE DEF u, s, f
<1>5. IsFiniteSet(DOMAIN u)
  <2>1. DOMAIN u = 1 .. Len(u) /\ Len(u) \in Nat
    BY <1>1
  <2> QED
    BY <2>1, FS_Interval
<1>6. SumFunction(f) >= Amount(rows, Parents(req))
  BY <1>1, <1>4, <1>5, AmountNamed
<1>7. SumFunction(f) \in Nat
  <2>1. SumFunctionOnSet(f, DOMAIN u) \in Nat
    BY <1>4, <1>5, SumIsNat
  <2> QED
    BY <1>4, <2>1 DEF SumFunction
<1>8. new[<<"goods", s>>].quantity = SumFunction(f)
  BY <1>1, <1>3
<1>9. Amount(new, {s}) = new[<<"goods", s>>].quantity
  BY <1>7, <1>8, AmountOfOne
<1> QED
  BY <1>1, <1>6, <1>7, <1>8, <1>9

\* The edges of a split or merge lead from each parent, and to all it makes.
LEMMA EdgesJoin ==
  ASSUME NEW c \in Calls, calls[c].req \in Requests, Joins(calls[c].req),
         calls[c].req.op = "split" => calls[c].req.children # <<>>
  PROVE  /\ \A e \in Edges(c) : /\ e.parent \in Parents(calls[c].req)
                                /\ e.child \in Makes(calls[c].req) /\ e.call = c
         /\ \A p \in Parents(calls[c].req) : \E e \in Edges(c) : e.parent = p
         /\ \A k \in Makes(calls[c].req) : \E e \in Edges(c) : e.child = k
         /\ Makes(calls[c].req) \subseteq Batches /\ IsFiniteSet(Makes(calls[c].req))
<1> DEFINE req == calls[c].req
           s == req.subject
           edge(p, k) == [parent |-> p, child |-> k, call |-> c]
<1>1. \A p, k : edge(p, k).parent = p /\ edge(p, k).child = k /\ edge(p, k).call = c
  OBVIOUS
<1>2. s \in Batches
  BY QuantitiesAssumption DEF Joins
<1>3. CASE req.op = "split"
  <2> DEFINE u == req.children
  <2>1. /\ u \in Seq(Batches) /\ u # <<>> /\ Parents(req) = {s}
        /\ Makes(req) = {u[i] : i \in DOMAIN u}
        /\ Edges(c) = {edge(s, u[i]) : i \in DOMAIN u}
    BY <1>3, RequestsAssumption DEF Parents, Makes, Edges
  <2> HIDE DEF u, edge, s
  <2>2. 1 \in DOMAIN u /\ Makes(req) \subseteq Batches
    BY <2>1
  <2>3. edge(s, u[1]) \in Edges(c)
    BY <2>1, <2>2
  <2>4. \A k \in Makes(req) : \E e \in Edges(c) : e.child = k
    <3> TAKE k \in Makes(req)
    <3>1. PICK i \in DOMAIN u : k = u[i]
      BY <2>1
    <3>2. edge(s, u[i]) \in Edges(c)
      BY <2>1
    <3> QED
      BY <1>1, <3>1, <3>2
  <2>5. \A e \in Edges(c) : e.parent \in Parents(req) /\ e.child \in Makes(req) /\ e.call = c
    <3> TAKE e \in Edges(c)
    <3>1. PICK i \in DOMAIN u : e = edge(s, u[i])
      BY <2>1
    <3> QED
      BY <1>1, <2>1, <3>1
  <2>6. \A p \in Parents(req) : \E e \in Edges(c) : e.parent = p
    BY <1>1, <2>1, <2>3
  <2>7. IsFiniteSet(Makes(req))
    BY <2>2, FS_Subset, QuantitiesAssumption
  <2> QED
    BY <2>2, <2>4, <2>5, <2>6, <2>7
<1>4. CASE req.op = "merge"
  <2> DEFINE u == req.parents
  <2>1. /\ u \in Seq(Batches) /\ u # <<>> /\ Makes(req) = {s}
        /\ Parents(req) = {u[i] : i \in DOMAIN u}
        /\ Edges(c) = {edge(u[i], s) : i \in DOMAIN u}
    BY <1>4, RequestsAssumption DEF Parents, Makes, Edges
  <2> HIDE DEF u, edge, s
  <2>2. 1 \in DOMAIN u
    BY <2>1
  <2>3. edge(u[1], s) \in Edges(c)
    BY <2>1, <2>2
  <2>4. \A p \in Parents(req) : \E e \in Edges(c) : e.parent = p
    <3> TAKE p \in Parents(req)
    <3>1. PICK i \in DOMAIN u : p = u[i]
      BY <2>1
    <3>2. edge(u[i], s) \in Edges(c)
      BY <2>1
    <3> QED
      BY <1>1, <3>1, <3>2
  <2>5. \A e \in Edges(c) : e.parent \in Parents(req) /\ e.child \in Makes(req) /\ e.call = c
    <3> TAKE e \in Edges(c)
    <3>1. PICK i \in DOMAIN u : e = edge(u[i], s)
      BY <2>1
    <3> QED
      BY <1>1, <2>1, <3>1
  <2>6. \A k \in Makes(req) : \E e \in Edges(c) : e.child = k
    BY <1>1, <2>1, <2>3
  <2>7. IsFiniteSet(Makes(req)) /\ Makes(req) \subseteq Batches
    BY <1>2, <2>1, FS_Singleton
  <2> QED
    BY <2>4, <2>5, <2>6, <2>7
<1> QED
  BY <1>3, <1>4 DEF Joins

LEMMA EdgesOfOther ==
  ASSUME NEW c \in Calls, ~Joins(calls[c].req)
  PROVE  Edges(c) = {} /\ Parents(calls[c].req) = {}
  BY DEF Joins, Edges, Parents

\* All that a commit is to the quantities: what is registered keeps its own, a
\* split or merge puts new batches in the place of parents, leaves or not, and a
\* creation adds one to the leaves and to the roots.
LEMMA CommitKeeps ==
  ASSUME NoRowIsNone, Inv, Stated, NEW c \in Calls, Commit(c),
         StateKnows(calls[c], db, Idle, events), QuantityKnows(calls[c], db),
         LineageKnown, Amounts(db), Kept(db, lineage)
  PROVE  Kept(db', lineage') /\ Amounts(db')
<1> DEFINE call == calls[c]
           req == call.req
           K == Makes(req) \cap Batches
           P == Parents(req)
           R == Registered(db)
           L == Leaves(db, lineage)
           T == Roots(db, lineage)
<1>1. /\ Registered(db') = R \cup K /\ R \cap K = {}
      /\ \A b \in R : db'[<<"goods", b>>].quantity = db[<<"goods", b>>].quantity
      /\ \A b \in K : db'[<<"goods", b>>].quantity = Made(req, db, b)
  BY CommitAmounts
<1>2. /\ req \in Requests /\ lineage' = lineage \cup Edges(c)
  BY CommitTables DEF Knows
<1>3. /\ L \subseteq R /\ T \subseteq R /\ R \subseteq Batches
      /\ \A b \in L : b \in R /\ \A e \in lineage : e.parent # b
      /\ \A b \in T : b \in R /\ \A e \in lineage : e.child # b
  BY DEF Leaves, Roots, Registered
<1>4. IsFiniteSet(R) /\ IsFiniteSet(L) /\ IsFiniteSet(T) /\ IsFiniteSet(K)
  <2>1. R \in SUBSET Batches /\ L \in SUBSET Batches /\ T \in SUBSET Batches /\ K \in SUBSET Batches
    BY <1>3
  <2> HIDE DEF R, L, T, K
  <2> QED
    BY <2>1, FS_Subset, QuantitiesAssumption
<1>5. \A e \in lineage : e.parent \in R /\ e.child \in R
  BY DEF LineageKnown
<1>6. \A b \in R : db[<<"goods", b>>].quantity \in Nat /\ db[<<"goods", b>>].quantity \in Int
  <2>1. \A b \in R : db[<<"goods", b>>].quantity \in Nat
    BY DEF Amounts
  <2>2. Nat \subseteq Int
    OBVIOUS
  <2> HIDE DEF R
  <2> QED
    BY <2>1, <2>2, Zenon
<1>7. Amount(db, L) >= Amount(db, T) /\ Amount(db, L) \in Nat /\ Amount(db, T) \in Nat
  <2>1. Amount(db, L) >= Amount(db, T)
    BY DEF Kept
  <2> HIDE DEF L, T, R
  <2>2. Amount(db, L) \in Nat /\ Amount(db, T) \in Nat
    BY <1>3, <1>4, <1>6, AmountIsNat
  <2> QED
    BY <2>1, <2>2
<1> HIDE DEF req, P, L, T, R, K
<1>8. CASE Joins(req)
  <2> DEFINE found == call.goods[req.subject]
  <2>1. /\ P \subseteq R
        /\ \A t \in P : FoundParent(call, db, t)
    BY <1>8, CommitParents DEF P, req, R
  <2>2. ASSUME req.op = "split"
        PROVE  /\ MaySplit(found, req) /\ req.children # <<>> /\ req.subject \in P
               /\ found.quantity = db[<<"goods", req.subject>>].quantity
    <3>1. req.subject \in P
      BY <2>2 DEF P, Parents
    <3>2. MaySplit(found, req) /\ found.quantity = db[<<"goods", req.subject>>].quantity
      BY <2>1, <2>2, <3>1 DEF FoundParent, req
    <3> QED
      BY <3>1, <3>2 DEF MaySplit
  <2>3. /\ \A e \in Edges(c) : e.parent \in P /\ e.child \in Makes(req)
        /\ \A p \in P : \E e \in Edges(c) : e.parent = p
        /\ \A k \in Makes(req) : \E e \in Edges(c) : e.child = k
        /\ K = Makes(req)
    BY <1>2, <1>8, <2>2, EdgesJoin DEF req, P, K
  <2> HIDE DEF found
  <2>4. Amount(db', K) >= Amount(db, P) /\ \A b \in K : db'[<<"goods", b>>].quantity \in Nat
    <3>1. \A b \in Makes(req) : db'[<<"goods", b>>].quantity = Made(req, db, b)
      BY <1>1, <2>3
    <3>2. \A b \in P : db[<<"goods", b>>].quantity \in Nat
      BY <1>6, <2>1
    <3>3. CASE req.op = "split"
      <4>1. /\ MaySplit(found, req) /\ found.quantity = db[<<"goods", req.subject>>].quantity
            /\ db[<<"goods", req.subject>>].quantity \in Nat
        BY <2>2, <3>2, <3>3
      <4>2. /\ Amount(db, Parents(req)) = Amount(db', Makes(req))
            /\ \A b \in Makes(req) : db'[<<"goods", b>>].quantity \in Nat
        BY <1>2, <3>1, <3>3, <4>1, SplitAmount
      <4>3. Amount(db, P) \in Nat
        <5>1. IsFiniteSet(P)
          BY <1>4, <2>1, FS_Subset
        <5> QED
          BY <3>2, <5>1, AmountIsNat
      <4> QED
        BY <2>3, <4>2, <4>3 DEF P
    <3>4. CASE req.op = "merge"
      BY <1>2, <2>3, <3>1, <3>2, <3>4, MergeAmount DEF P
    <3> QED
      BY <1>8, <3>3, <3>4 DEF Joins
  <2>5. Leaves(db', lineage') = (L \ P) \cup K
    <3>1. ASSUME NEW b \in Leaves(db', lineage')
          PROVE  b \in (L \ P) \cup K
      <4>1. /\ b \in R \cup K /\ \A e \in lineage : e.parent # b
            /\ \A e \in Edges(c) : e.parent # b
        BY <1>1, <1>2, <3>1 DEF Leaves
      <4>2. b \notin P
        BY <2>3, <4>1
      <4> QED
        BY <4>1, <4>2 DEF L, Leaves, R
    <3>2. ASSUME NEW b \in (L \ P) \cup K
          PROVE  b \in Leaves(db', lineage')
      <4>1. b \in R \cup K
        BY <1>3
      <4>2. \A e \in lineage : e.parent # b
        BY <1>1, <1>3, <1>5
      <4>3. \A e \in Edges(c) : e.parent # b
        BY <1>1, <2>1, <2>3
      <4> QED
        BY <1>1, <1>2, <4>1, <4>2, <4>3 DEF Leaves
    <3> QED
      BY <3>1, <3>2
  <2>6. Roots(db', lineage') = T
    <3>1. ASSUME NEW b \in Roots(db', lineage')
          PROVE  b \in T
      <4>1. /\ b \in R \cup K /\ \A e \in lineage : e.child # b
            /\ \A e \in Edges(c) : e.child # b
        BY <1>1, <1>2, <3>1 DEF Roots
      <4>2. b \notin K
        BY <2>3, <4>1
      <4> QED
        BY <4>1, <4>2 DEF T, Roots, R
    <3>2. ASSUME NEW b \in T
          PROVE  b \in Roots(db', lineage')
      <4>1. b \in R /\ \A e \in lineage : e.child # b
        BY <1>3
      <4>2. \A e \in Edges(c) : e.child # b
        BY <1>1, <2>3, <4>1
      <4> QED
        BY <1>1, <1>2, <4>1, <4>2 DEF Roots
    <3> QED
      BY <3>1, <3>2
  <2>7. Amount(db', (L \ P) \cup K) >= Amount(db, L)
    <3>1. /\ L \cap K = {} /\ IsFiniteSet(P)
          /\ \A b \in L \cup P : db[<<"goods", b>>].quantity \in Nat
          /\ \A b \in L : db'[<<"goods", b>>].quantity = db[<<"goods", b>>].quantity
      BY <1>1, <1>3, <1>4, <1>6, <2>1, FS_Subset
    <3> QED
      BY <1>4, <2>4, <3>1, AmountReplaced
  <2>10. Amount(db', (L \ P) \cup K) \in Nat
    <3>1. \A b \in (L \ P) \cup K : db'[<<"goods", b>>].quantity \in Nat
      BY <1>1, <1>3, <1>6, <2>4
    <3>2. IsFiniteSet((L \ P) \cup K)
      <4>1. IsFiniteSet(L \ P)
        BY <1>4, FS_Subset
      <4> QED
        BY <1>4, <4>1, FS_Union
    <3> QED
      BY <3>1, <3>2, AmountIsNat
  <2>8. Amount(db', T) = Amount(db, T)
    <3>1. \A b \in T : db'[<<"goods", b>>].quantity = db[<<"goods", b>>].quantity
      BY <1>1, <1>3
    <3> QED
      BY <3>1, AmountSame
  <2>9. Amounts(db')
    BY <1>1, <1>6, <2>4 DEF Amounts
  <2> QED
    BY <1>7, <2>5, <2>6, <2>7, <2>8, <2>9, <2>10 DEF Kept
<1>9. CASE ~Joins(req)
  <2>1. lineage' = lineage
    BY <1>2, <1>9, EdgesOfOther DEF req
  <2>2. /\ Leaves(db', lineage') = L \cup K
        /\ Roots(db', lineage') = T \cup K
    <3>1. \A b \in R \cup K : (\A e \in lineage : e.parent # b) <=> b \in L \cup K
      BY <1>1, <1>3, <1>5 DEF L, Leaves, R
    <3>2. \A b \in R \cup K : (\A e \in lineage : e.child # b) <=> b \in T \cup K
      BY <1>1, <1>3, <1>5 DEF T, Roots, R
    <3>3. Leaves(db', lineage') = {b \in R \cup K : \A e \in lineage : e.parent # b}
          /\ Roots(db', lineage') = {b \in R \cup K : \A e \in lineage : e.child # b}
      BY <1>1, <2>1 DEF Leaves, Roots
    <3> QED
      BY <1>3, <3>1, <3>2, <3>3
  <2>3. \A b \in K : db'[<<"goods", b>>].quantity \in Nat
    <3> SUFFICES ASSUME NEW b \in K
                 PROVE  Made(req, db, b) \in Nat
      BY <1>1
    <3>1. req.op = "create" /\ b = req.subject /\ b \in Batches
      BY <1>9 DEF K, Makes, Joins
    <3>2. Made(req, db, b) = req.quantity
      BY <3>1 DEF Made
    <3> QED
      BY <1>2, <3>1, <3>2, QuantitiesAssumption
  <2>4. /\ L \cap K = {} /\ T \cap K = {}
        /\ \A b \in L \cup T : /\ db[<<"goods", b>>].quantity \in Int
                               /\ db'[<<"goods", b>>].quantity = db[<<"goods", b>>].quantity
    BY <1>1, <1>3, <1>6
  <2>9. \A b \in K : db'[<<"goods", b>>].quantity \in Int
    <3>1. Nat \subseteq Int
      OBVIOUS
    <3> QED
      BY <2>3, <3>1, Zenon
  <2>5. Amount(db', L \cup K) = Amount(db, L) + Amount(db', K)
    BY <1>4, <2>4, <2>9, AmountAdded
  <2>6. Amount(db', T \cup K) = Amount(db, T) + Amount(db', K)
    BY <1>4, <2>4, <2>9, AmountAdded
  <2>7. Amounts(db')
    BY <1>1, <1>6, <2>3 DEF Amounts
  <2>8. Amount(db', K) \in Nat
    BY <1>4, <2>3, AmountIsNat
  <2> QED
    BY <1>7, <2>2, <2>5, <2>6, <2>7, <2>8 DEF Kept
<1> QED
  BY <1>8, <1>9

LEMMA CommitLineage ==
  ASSUME NoRowIsNone, Inv, Stated, NEW c \in Calls, Commit(c),
         StateKnows(calls[c], db, Idle, events), QuantityKnows(calls[c], db), LineageKnown
  PROVE  LineageKnown'
<1> DEFINE req == calls[c].req
           K == Makes(req) \cap Batches
           R == Registered(db)
<1>1. Registered(db') = R \cup K
  BY CommitAmounts
<1>2. req \in Requests /\ lineage' = lineage \cup Edges(c) /\ calls[c].status = "open"
  BY CommitTables DEF Knows
<1>4. ASSUME NEW e \in lineage
      PROVE  e.parent \in R \cup K /\ e.child \in R \cup K
  BY DEF LineageKnown
<1>5. ASSUME NEW e \in Edges(c)
      PROVE  e.parent \in R \cup K /\ e.child \in R \cup K
  <2>1. Joins(req)
    BY <1>5, EdgesOfOther
  <2>2. /\ Parents(req) \subseteq R /\ \A t \in Parents(req) : FoundParent(calls[c], db, t)
    BY <2>1, CommitParents
  <2>3. req.op = "split" => req.children # <<>>
    BY <1>2, <2>2 DEF Parents, FoundParent, MaySplit
  <2>4. e.parent \in Parents(req) /\ e.child \in Makes(req) /\ e.call = c /\ Makes(req) \subseteq Batches
    BY <1>2, <2>1, <2>3, EdgesJoin
  <2> QED
    BY <2>2, <2>4
<1> HIDE DEF R, K
<1> QED
  BY <1>1, <1>2, <1>4, <1>5 DEF LineageKnown

LEMMA QuantityInit ==
  ASSUME Init
  PROVE  QuantityInv
<1>1. lineage = {} /\ \A c \in Calls : ~Open(c)
  BY DEF Init, Open, Unborn
<1>2. LineageKnown
  BY <1>1 DEF LineageKnown
<1>3. ASSUME NEW b \in Registered(db)
      PROVE  db[<<"goods", b>>].quantity \in Nat
  <2>1. b \in Batches /\ db[<<"goods", b>>] # None /\ <<"goods", b>> \in Rows
    BY DEF Registered, Rows, Subjects
  <2>2. b \in DOMAIN Stock
    BY <2>1 DEF Init
  <2>3. db[<<"goods", b>>] = Goods(Stock[b].quantity, Stock[b].state, Stock[b].producer)
    BY <2>1, <2>2 DEF Init
  <2>4. db[<<"goods", b>>].quantity = Stock[b].quantity
    BY <2>3 DEF Goods
  <2> QED
    BY <2>2, <2>4, QuantitiesAssumption
<1>4. Amounts(db)
  BY <1>3 DEF Amounts
<1>5. Leaves(db, lineage) = Roots(db, lineage)
  BY <1>1 DEF Leaves, Roots
<1>6. Kept(db, lineage)
  <2>1. IsFiniteSet(Roots(db, lineage)) /\ Roots(db, lineage) \subseteq Registered(db)
    <3>1. Roots(db, lineage) \in SUBSET Batches
      BY DEF Roots, Registered
    <3> QED
      BY <3>1, FS_Subset, QuantitiesAssumption DEF Roots
  <2>2. Amount(db, Roots(db, lineage)) \in Nat
    BY <1>3, <2>1, AmountIsNat
  <2> QED
    BY <1>5, <2>2 DEF Kept
<1> QED
  BY <1>1, <1>2, <1>4, <1>6 DEF QuantityInv

\* What another call knows of quantities stays true after a commit.
LEMMA QuantityLater ==
  ASSUME NoRowIsNone, Inv, Stated, NEW c \in Calls, Commit(c),
         StateKnows(calls[c], db, Idle, events), QuantityKnows(calls[c], db),
         NEW call, call.req \in Requests, StateKnows(call, db, Idle, events), QuantityKnows(call, db)
  PROVE  QuantityKnows(call, db')
<1> DEFINE req == call.req
           K == Makes(calls[c].req) \cap Batches
<1>1. /\ Registered(db') = Registered(db) \cup K
      /\ \A b \in Registered(db) : db'[<<"goods", b>>].quantity = db[<<"goods", b>>].quantity
  BY CommitAmounts
<1> HIDE DEF K
<1>2. ASSUME NEW b \in Batches, db[<<"goods", b>>] # None
      PROVE  /\ db'[<<"goods", b>>] # None
             /\ db'[<<"goods", b>>].quantity = db[<<"goods", b>>].quantity
  BY <1>1, <1>2 DEF Registered
<1>3. Joins(req) => Parents(req) \subseteq Batches
  BY RequestsAssumption, QuantitiesAssumption DEF Parents, Joins
<1>4. ASSUME Joins(req), NEW t \in Parents(req), FoundParent(call, db, t)
      PROVE  FoundParent(call, db', t)
  BY <1>2, <1>3, <1>4 DEF FoundParent
<1>5. Joins(req) => ParentsKnown(call, db')
  BY <1>4 DEF QuantityKnows, ParentsKnown
<1>6. ASSUME NEW t \in Batches
      PROVE  AmountKnown(call, db', t)
  <2> DEFINE wrote == Listed(call, t)
  <2>1. t \in Subjects /\ AmountKnown(call, db, t)
    BY DEF Subjects, QuantityKnows
  <2>2. CASE wrote = Unwritten
    BY <2>2 DEF AmountKnown
  <2>3. CASE wrote # Unwritten /\ t \notin Makes(req)
    <3>1. Sound(req, db, Idle, events, wrote, t)
      BY <2>1, <2>3 DEF StateKnows, OneKnows
    <3>2. db[<<"owner", t>>] # None
      BY <2>3, <3>1 DEF Sound
    <3>3. db[<<"goods", t>>] # None
      BY <2>1, <3>2 DEF Stated, NoRowIsNone
    <3> QED
      BY <1>2, <2>1, <2>3, <3>3 DEF AmountKnown
  <2>4. CASE wrote # Unwritten /\ t \in Makes(req)
    <3>1. CASE db[<<"goods", t>>] # None
      BY <1>2, <2>4, <3>1 DEF AmountKnown
    <3>2. CASE db[<<"goods", t>>] = None
      <4>1. wrote.quantity = Made(req, db, t)
        BY <2>1, <2>4, <3>2 DEF AmountKnown
      <4>2. CASE req.op # "merge"
        <5>1. Made(req, db', t) = Made(req, db, t)
          <6>1. req.op = "create" \/ req.op = "split"
            BY <2>4, <4>2 DEF Makes
          <6> QED
            BY <6>1 DEF Made
        <5> QED
          BY <2>4, <4>1, <5>1 DEF AmountKnown
      <4>3. CASE req.op = "merge"
        <5>1. ParentsKnown(call, db)
          BY <4>3 DEF QuantityKnows, Joins
        <5>2. NoFinds(call.todo)
          BY <2>1, <2>4, <5>1 DEF ParentsKnown
        <5>3. \A y : y[1] = "find" => ~Has(call.todo, y)
          BY <5>2 DEF NoFinds, Has
        <5>4. \A d \in Parents(req) : FoundParent(call, db, d)
          <6> SUFFICES ASSUME NEW d \in Parents(req)
                       PROVE  ~Has(call.todo, <<"find", d>>)
            BY <5>1 DEF ParentsKnown
          <6> DEFINE y == <<"find", d>>
          <6>1. y[1] = "find"
            OBVIOUS
          <6> HIDE DEF y
          <6>2. ~Has(call.todo, y)
            BY <5>3, <6>1
          <6> QED
            BY <6>2 DEF y
        <5>5. \A d \in Parents(req) : db'[<<"goods", d>>].quantity = db[<<"goods", d>>].quantity
          BY <1>2, <1>3, <4>3, <5>4 DEF Joins, FoundParent
        <5> DEFINE f == [i \in DOMAIN req.parents |-> db[<<"goods", req.parents[i]>>].quantity]
                   g == [i \in DOMAIN req.parents |-> db'[<<"goods", req.parents[i]>>].quantity]
        <5>6. f = g
          BY <4>3, <5>5 DEF Parents
        <5>7. Made(req, db, t) = SumFunction(f) /\ Made(req, db', t) = SumFunction(g)
          BY <4>3 DEF Made
        <5> HIDE DEF f, g
        <5>8. wrote.quantity = Made(req, db', t)
          BY <4>1, <5>6, <5>7
        <5> QED
          BY <2>4, <5>8 DEF AmountKnown
      <4> QED
        BY <4>2, <4>3
    <3> QED
      BY <3>1, <3>2
  <2> QED
    BY <2>2, <2>3, <2>4
<1> QED
  BY <1>5, <1>6 DEF QuantityKnows

LEMMA QuantityNext ==
  ASSUME NoRowIsUnwritten, NoRowIsNone, Inv, Times, StateInv, QuantityInv, [Next]_vars
  PROVE  QuantityInv'
<1>0. /\ Stated /\ LineageKnown /\ Amounts(db) /\ Kept(db, lineage)
      /\ \A c \in Calls : Open(c) => StateKnows(calls[c], db, Idle, events) /\ QuantityKnows(calls[c], db)
  BY DEF StateInv, QuantityInv
<1>1. ASSUME UNCHANGED tables
      PROVE  LineageKnown' /\ Amounts(db') /\ Kept(db', lineage') /\ db' = db
  <2>1. db' = db /\ lineage' = lineage
    BY <1>1 DEF tables
  <2> QED
    BY <1>0, <2>1 DEF LineageKnown
<1>2. CASE UNCHANGED vars
  <2>1. UNCHANGED tables /\ calls' = calls
    BY <1>2 DEF vars, tables
  <2> QED
    BY <1>0, <1>1, <2>1 DEF QuantityInv, Open
<1>3. ASSUME NEW c \in Calls, NEW req \in Requests, Begin(c, req)
      PROVE  QuantityInv'
  <2>1. /\ calls'[c] = Begun(req, begun + 1) /\ UNCHANGED tables
        /\ \A d \in Calls : d # c => calls'[d] = calls[d] /\ (Open(d)' <=> Open(d))
    BY <1>3, BeginIs
  <2>2. QuantityKnows(calls'[c], db')
    BY <2>1, BegunQuantity
  <2> QED
    BY <1>0, <1>1, <2>1, <2>2 DEF QuantityInv
<1>4. ASSUME NEW c \in Calls, Commit(c)
      PROVE  QuantityInv'
  <2>1. \A d \in Calls : Open(d)' => Open(d) /\ calls'[d] = calls[d]
    BY <1>4, RejectIs
  <2>2. Open(c)
    BY <1>4 DEF Commit
  <2>3. StateKnows(calls[c], db, Idle, events) /\ QuantityKnows(calls[c], db)
    BY <1>0, <2>2
  <2>4. Kept(db', lineage') /\ Amounts(db')
    BY <1>0, <1>4, <2>3, CommitKeeps
  <2>5. LineageKnown'
    BY <1>0, <1>4, <2>3, CommitLineage
  <2>6. \A d \in Calls : Open(d)' => QuantityKnows(calls'[d], db')
    <3> SUFFICES ASSUME NEW d \in Calls, Open(d)'
                 PROVE  QuantityKnows(calls'[d], db')
      OBVIOUS
    <3> DEFINE call == calls[d]
    <3>1. /\ calls'[d] = call /\ Open(d)
          /\ StateKnows(call, db, Idle, events) /\ QuantityKnows(call, db)
      BY <1>0, <2>1
    <3>2. call.req \in Requests
      BY <3>1 DEF Inv, Knows, Open
    <3> HIDE DEF call
    <3>3. QuantityKnows(call, db')
      BY <1>0, <1>4, <2>3, <3>1, <3>2, QuantityLater
    <3> QED
      BY <3>1, <3>3
  <2> QED
    BY <2>4, <2>5, <2>6 DEF QuantityInv
<1>5. ASSUME NEW c \in Calls, UNCHANGED <<tables, begun>>, Reject(c)
      PROVE  QuantityInv'
  <2>1. \A d \in Calls : Open(d)' => Open(d) /\ calls'[d] = calls[d]
    BY <1>5, RejectIs
  <2>2. UNCHANGED tables
    BY <1>5
  <2> QED
    BY <1>0, <1>1, <2>1, <2>2 DEF QuantityInv
<1>6. ASSUME NEW c \in Calls, UNCHANGED <<tables, begun>>, NEW name, NEW new, Does(c, name, new)
      PROVE  QuantityInv'
  <2>1. /\ Open(c) /\ calls'[c] = new /\ \A d \in Calls : d # c => calls'[d] = calls[d]
        /\ \A d \in Calls : Open(d)' <=> Open(d)
    BY <1>6, DoesIs
  <2>2. UNCHANGED tables
    BY <1>6
  <2>3. QuantityKnows(new, db)
    BY <1>0, <1>6, <2>1, DoesQuantity
  <2> QED
    BY <1>0, <1>1, <2>1, <2>2, <2>3 DEF QuantityInv
<1> QED
  BY <1>2, <1>3, <1>4, <1>5, <1>6, StepCases

\* However calls overlap, and whatever is relisted, split twice or merged twice:
\* the batches that are no parent hold at least what those that are no child
\* were created with.
THEOREM NothingIsEverLost ==
  ASSUME NoRowIsUnwritten, NoRowIsNone
  PROVE  Spec => []NothingIsLost
<1>1. Init => QuantityInv
  BY QuantityInit
<1>2. OverlapInv /\ QuantityInv /\ [Next]_vars => QuantityInv'
  BY QuantityNext DEF OverlapInv
<1>3. QuantityInv => NothingIsLost
  BY DEF QuantityInv, Kept, NothingIsLost
<1> QED
  BY <1>1, <1>2, <1>3, OverlapInvariance, PTL DEF Spec
-----------------------------------------------------------------------------
(* A view that is read while calls commit.                                 *)

\* What is left to read of an aggregate and of the view of a consumer.
ReadAll    == <<"goods", "lineage", "owner", "state">>
ReadNoEdge == <<"goods", "owner", "state">>
ReadEdges  == <<"lineage", "owner", "state">>
ReadOwn    == <<"owner", "state">>
ReadLast   == <<"state">>

Rest(kind) == IF kind = "consumer" THEN {ReadNoEdge, ReadOwn, ReadLast, <<>>}
              ELSE {ReadAll, ReadEdges, ReadOwn, ReadLast, <<>>}

Viewing(a, b, c, d, e, f, g) ==
  [todo |-> a, kind |-> b, of |-> c, goods |-> d, edges |-> e, owner |-> f, state |-> g]

Delisted(s) == Follows(s, "created", "delisted")

\* The registry is where the view was read, or further.
GoodsSeen(v) ==
  LET s == v.of IN
  /\ db[<<"owner", s>>] # None
  /\ v.goods.state \in Reached(events, s)
  /\ v.goods.active \/ Delisted(s) \/ \E e \in lineage : e.parent = s

EdgesSeen(v) ==
  /\ {e \in lineage : e.child = v.of} \subseteq v.edges
  /\ v.goods.active \/ Delisted(v.of) \/ \E e \in v.edges : e.parent = v.of

ViewKnows(v) ==
  /\ v = Viewing(v.todo, v.kind, v.of, v.goods, v.edges, v.owner, v.state)
  /\ v.of \in Viewed /\ v.kind \in {"aggregate", "consumer"} /\ v.todo \in Rest(v.kind)
  /\ v.todo \notin {ReadAll, ReadNoEdge} => GoodsSeen(v)
  /\ v.kind = "aggregate" /\ v.todo \notin {ReadAll, ReadEdges} => EdgesSeen(v)
  /\ v.todo \in {ReadLast, <<>>} => v.owner # None
  /\ v.todo = <<>> => v.state = v.goods.state \/ Follows(v.of, v.goods.state, v.state)

ViewInv == view = Closed \/ ViewKnows(view)

LEMMA RestIs ==
  /\ Head(ReadAll) = "goods" /\ Tail(ReadAll) = ReadEdges /\ ReadAll # <<>>
  /\ Head(ReadNoEdge) = "goods" /\ Tail(ReadNoEdge) = ReadOwn /\ ReadNoEdge # <<>>
  /\ Head(ReadEdges) = "lineage" /\ Tail(ReadEdges) = ReadOwn /\ ReadEdges # <<>>
  /\ Head(ReadOwn) = "owner" /\ Tail(ReadOwn) = ReadLast /\ ReadOwn # <<>>
  /\ Head(ReadLast) = "state" /\ Tail(ReadLast) = <<>> /\ ReadLast # <<>>
<1>1. Head(ReadAll) = "goods" /\ Tail(ReadAll) = ReadEdges /\ ReadAll # <<>>
  BY DEF ReadAll, ReadEdges
<1>2. Head(ReadNoEdge) = "goods" /\ Tail(ReadNoEdge) = ReadOwn /\ ReadNoEdge # <<>>
  BY DEF ReadNoEdge, ReadOwn
<1>3. Head(ReadEdges) = "lineage" /\ Tail(ReadEdges) = ReadOwn /\ ReadEdges # <<>>
  BY DEF ReadEdges, ReadOwn
<1>4. Head(ReadOwn) = "owner" /\ Tail(ReadOwn) = ReadLast /\ ReadOwn # <<>>
  BY DEF ReadOwn, ReadLast
<1>5. Head(ReadLast) = "state" /\ Tail(ReadLast) = <<>> /\ ReadLast # <<>>
  BY DEF ReadLast
<1> QED
  BY <1>1, <1>2, <1>3, <1>4, <1>5

\* What is left before and after a statement.
LEMMA RestOf ==
  ASSUME NEW kind \in {"aggregate", "consumer"}, NEW todo \in Rest(kind), todo # <<>>
  PROVE  /\ Tail(todo) \in Rest(kind) /\ Tail(todo) \notin {ReadAll, ReadNoEdge}
         /\ Head(todo) = "goods" =>
              /\ Tail(todo) \notin {ReadLast, <<>>}
              /\ kind = "aggregate" => Tail(todo) = ReadEdges
         /\ Head(todo) # "goods" => todo \notin {ReadAll, ReadNoEdge}
         /\ Head(todo) = "lineage" => kind = "aggregate" /\ Tail(todo) \notin {ReadLast, <<>>}
         /\ Head(todo) \in {"owner", "state"} => todo \notin {ReadAll, ReadEdges}
         /\ Head(todo) \in {"goods", "lineage", "owner"} => Tail(todo) # <<>>
         /\ Head(todo) = "state" => todo \in {ReadLast, <<>>} /\ Tail(todo) = <<>>
  BY RestIs DEF Rest

LEMMA ViewParts ==
  ASSUME NEW a, NEW b, NEW c, NEW d, NEW e, NEW f, NEW g,
         NEW v, v = Viewing(a, b, c, d, e, f, g)
  PROVE  /\ v.todo = a /\ v.kind = b /\ v.of = c /\ v.goods = d /\ v.edges = e
         /\ v.owner = f /\ v.state = g
  BY DEF Viewing

\* A view after a statement.
SawGoods(v, x, u) == [[v EXCEPT !.goods = x] EXCEPT !.todo = u]
SawEdges(v, x, u) == [[v EXCEPT !.edges = x] EXCEPT !.todo = u]
SawOwner(v, x, u) == [[v EXCEPT !.owner = x] EXCEPT !.todo = u]
SawState(v, x, u) == [[v EXCEPT !.state = x] EXCEPT !.todo = u]

LEMMA SeenIs ==
  ASSUME NEW v, v = Viewing(v.todo, v.kind, v.of, v.goods, v.edges, v.owner, v.state), NEW x, NEW u
  PROVE  /\ SawGoods(v, x, u)
              = Viewing(u, v.kind, v.of, x, v.edges, v.owner, v.state)
         /\ SawEdges(v, x, u)
              = Viewing(u, v.kind, v.of, v.goods, x, v.owner, v.state)
         /\ SawOwner(v, x, u)
              = Viewing(u, v.kind, v.of, v.goods, v.edges, x, v.state)
         /\ SawState(v, x, u)
              = Viewing(u, v.kind, v.of, v.goods, v.edges, v.owner, x)
<1> DEFINE a == v.todo
           b == v.kind
           c == v.of
           d == v.goods
           e == v.edges
           f == v.owner
           g == v.state
           w1 == [v EXCEPT !.goods = x]
           w2 == [v EXCEPT !.edges = x]
           w3 == [v EXCEPT !.owner = x]
           w4 == [v EXCEPT !.state = x]
<1>1. v = Viewing(a, b, c, d, e, f, g)
  OBVIOUS
<1> HIDE DEF a, b, c, d, e, f, g
<1>2. w1 = Viewing(a, b, c, x, e, f, g)
  BY <1>1 DEF Viewing
<1>3. w2 = Viewing(a, b, c, d, x, f, g)
  BY <1>1 DEF Viewing
<1>4. w3 = Viewing(a, b, c, d, e, x, g)
  BY <1>1 DEF Viewing
<1>5. w4 = Viewing(a, b, c, d, e, f, x)
  BY <1>1 DEF Viewing
<1> HIDE DEF w1, w2, w3, w4
<1>6. [w1 EXCEPT !.todo = u] = Viewing(u, b, c, x, e, f, g)
  BY <1>2 DEF Viewing
<1>7. [w2 EXCEPT !.todo = u] = Viewing(u, b, c, d, x, f, g)
  BY <1>3 DEF Viewing
<1>8. [w3 EXCEPT !.todo = u] = Viewing(u, b, c, d, e, x, g)
  BY <1>4 DEF Viewing
<1>9. [w4 EXCEPT !.todo = u] = Viewing(u, b, c, d, e, f, x)
  BY <1>5 DEF Viewing
<1> QED
  BY <1>6, <1>7, <1>8, <1>9 DEF SawGoods, SawEdges, SawOwner, SawState, w1, w2, w3, w4, a, b, c, d, e, f, g

\* What a step of the registry leaves of what a view has seen.
Further(s) ==
  /\ db'[<<"owner", s>>] # None
  /\ events \subseteq events' /\ lineage \subseteq lineage'
  /\ \A e \in lineage' : e.child = s => e \in lineage

LEMMA FurtherAfterCommit ==
  ASSUME Inv, NEW c \in Calls, Commit(c), NEW s \in Subjects, db[<<"owner", s>>] # None
  PROVE  Further(s)
<1> DEFINE call == calls[c]
<1>1. /\ call.todo = <<>> /\ Knows(call, db, transfers, serial) /\ call.status = "open"
      /\ db'[<<"owner", s>>] = Merged(call, db, s)
      /\ lineage' = lineage \cup Edges(c)
  BY CommitTables
<1>2. /\ call.req.op = "transfer" =>
           /\ call.req.subject \in Subjects
           /\ Written(call, call.req.subject) \in OwnerRows
           /\ \A d \in Subjects : d # call.req.subject => Written(call, d) = Unwritten
      /\ call.req.op # "transfer" =>
           /\ \A t \in Subjects : Written(call, t) # Unwritten =>
                db[<<"owner", t>>] = None /\ Written(call, t) \in OwnerRows
           /\ \A t \in Children(call.req) : t \in Subjects /\ Written(call, t) # Unwritten
  BY <1>1, Finished
<1>3. None \notin OwnerRows /\ Unwritten \notin OwnerRows
  BY RegistryAssumption
<1>4. db'[<<"owner", s>>] # None
  BY <1>1, <1>2, <1>3 DEF Merged
<1>5. \A e \in Edges(c) : e.child # s
  BY <1>2, EdgesAre
<1>6. events \subseteq events'
  BY DEF Commit
<1> QED
  BY <1>1, <1>4, <1>5, <1>6 DEF Further

LEMMA FurtherAlways ==
  ASSUME Inv, [Next]_vars, NEW s \in Subjects, db[<<"owner", s>>] # None
  PROVE  Further(s)
<1>1. ASSUME UNCHANGED tables
      PROVE  Further(s)
  BY <1>1 DEF Further, tables
<1>2. CASE UNCHANGED vars
  BY <1>1, <1>2 DEF vars, tables
<1>3. ASSUME NEW c \in Calls, NEW req \in Requests, Begin(c, req)
      PROVE  UNCHANGED tables
  BY <1>3, BeginIs
<1>4. ASSUME NEW c \in Calls, Commit(c)
      PROVE  Further(s)
  BY <1>4, FurtherAfterCommit
<1> QED
  BY <1>1, <1>2, <1>3, <1>4, StepCases

\* The log led from the first state to the second.
Led(log, s, from, to) ==
  \E e \in log : /\ e.subject = s /\ e.to = to
                 /\ \/ from = "created"
                    \/ \E d \in log : d.subject = s /\ d.to = from /\ d.now < e.now

LEMMA FollowsIs ==
  /\ \A s, from, to : Follows(s, from, to) <=> Led(events, s, from, to)
  /\ events \subseteq events' =>
       \A s, from, to : Led(events, s, from, to) => Led(events', s, from, to)
<1>1. \A s, from, to : Follows(s, from, to) <=> Led(events, s, from, to)
  BY DEF Follows, Led
<1>2. ASSUME events \subseteq events', NEW s, NEW from, NEW to, Led(events, s, from, to)
      PROVE  Led(events', s, from, to)
  BY <1>2 DEF Led
<1> QED
  BY <1>1, <1>2

\* The state that is read later is the one seen before, or came after it.
LEMMA StateFollows ==
  ASSUME Times, Stated, NEW s \in Subjects, NEW from \in Reached(events, s), Log(s) # {}
  PROVE  CurrentState(s) = from \/ Follows(s, from, CurrentState(s))
<1>1. PICK e \in Log(s) : CurrentState(s) = e.to /\ \A d \in Log(s) : d.now <= e.now
  BY CurrentIs
<1>2. e \in events /\ e.subject = s
  BY DEF Log
<1>3. CASE from = "created"
  BY <1>1, <1>2, <1>3 DEF Follows
<1>4. CASE from # "created"
  <2>1. PICK d \in events : d.subject = s /\ d.to = from
    BY <1>4 DEF Reached
  <2>2. d.now <= e.now /\ d.now \in Nat /\ e.now \in Nat
    BY <1>1, <1>2, <2>1 DEF Log, Times
  <2>3. CASE d.now = e.now
    <3>1. d = e
      BY <1>2, <2>1, <2>3 DEF Times
    <3> QED
      BY <1>1, <2>1, <3>1
  <2>4. CASE d.now < e.now
    BY <1>1, <1>2, <2>1, <2>4 DEF Follows
  <2> QED
    BY <2>2, <2>3, <2>4
<1> QED
  BY <1>3, <1>4

\* A step of the registry under a view.
LEMMA RegistryStepKeepsView ==
  ASSUME Inv, ViewKnows(view), [Next]_vars, view' = view
  PROVE  ViewKnows(view)'
<1> DEFINE s == view.of
           v == view
<1>1. s \in Subjects
  BY ViewedAssumption DEF ViewKnows, Subjects
<1>2. ASSUME GoodsSeen(v)
      PROVE  GoodsSeen(v)' /\ (EdgesSeen(v) => EdgesSeen(v)')
             /\ events \subseteq events'
  <2> DEFINE from == v.goods.state
  <2>1. db[<<"owner", s>>] # None
    BY <1>2 DEF GoodsSeen
  <2>2. Further(s)
    BY <1>1, <2>1, FurtherAlways
  <2>3. events \subseteq events' /\ lineage \subseteq lineage' /\ db'[<<"owner", s>>] # None
        /\ \A e \in lineage' : e.child = s => e \in lineage
    BY <2>2 DEF Further
  <2>4. /\ from \in Reached(events, s)
        /\ v.goods.active \/ Led(events, s, "created", "delisted") \/ \E e \in lineage : e.parent = s
    BY <1>2 DEF GoodsSeen, Follows, Led, Delisted
  <2>5. Led(events, s, "created", "delisted") => Led(events', s, "created", "delisted")
    BY <2>3, FollowsIs
  <2>6. from \in Reached(events', s)
    BY <2>3, <2>4, ReachedGrows
  <2>7. GoodsSeen(v)'
    <3>1. v.goods.active \/ Led(events', s, "created", "delisted") \/ \E e \in lineage' : e.parent = s
      BY <2>3, <2>4, <2>5
    <3>2. Reached(events, view.of)' = Reached(events', s)
      BY DEF Reached
    <3> QED
      BY <2>3, <2>6, <3>1, <3>2 DEF GoodsSeen, Delisted, Follows, Led
  <2>8. EdgesSeen(v) => EdgesSeen(v)'
    BY <2>3, <2>5 DEF EdgesSeen, Delisted, Follows, Led
  <2> QED
    BY <2>3, <2>7, <2>8
<1>3. /\ v.todo \notin {ReadAll, ReadNoEdge} => GoodsSeen(v)
      /\ v.kind = "aggregate" /\ v.todo \notin {ReadAll, ReadEdges} =>
           v.todo \notin {ReadAll, ReadNoEdge} /\ EdgesSeen(v)
      /\ v.todo = <<>> => /\ v.todo \notin {ReadAll, ReadNoEdge}
                          /\ v.state = v.goods.state \/ Led(events, s, v.goods.state, v.state)
  BY RestIs DEF ViewKnows, Rest, Follows, Led
<1>4. v.todo \notin {ReadAll, ReadNoEdge} => GoodsSeen(v)'
  BY <1>2, <1>3
<1>5. v.kind = "aggregate" /\ v.todo \notin {ReadAll, ReadEdges} => EdgesSeen(v)'
  BY <1>2, <1>3
<1>6. v.todo = <<>> => v.state = v.goods.state \/ Led(events', s, v.goods.state, v.state)
  <2> SUFFICES ASSUME v.todo = <<>>, Led(events, s, v.goods.state, v.state)
               PROVE  Led(events', s, v.goods.state, v.state)
    BY <1>3
  <2>0. v.todo \notin {ReadAll, ReadNoEdge}
    BY RestIs
  <2>1. GoodsSeen(v)
    BY <1>3, <2>0
  <2>2. events \subseteq events'
    BY <1>2, <2>1
  <2> QED
    BY <2>2, FollowsIs
<1>7. v.todo = <<>> => v.state = v.goods.state \/ Follows(s, v.goods.state, v.state)'
  BY <1>6 DEF Follows, Led
<1> QED
  BY <1>4, <1>5, <1>7 DEF ViewKnows

\* The reads of a view change nothing else.
LEMMA StillKnows ==
  ASSUME UNCHANGED vars, NEW w, view' = w, ViewKnows(w)
  PROVE  ViewInv'
<1>1. db' = db /\ events' = events /\ lineage' = lineage
  BY DEF vars
<1>2. /\ GoodsSeen(w) => GoodsSeen(w)'
      /\ EdgesSeen(w) => EdgesSeen(w)'
      /\ \A s, from, to : Follows(s, from, to) => Follows(s, from, to)'
  BY <1>1 DEF GoodsSeen, EdgesSeen, Delisted, Follows, Reached
<1>3. ViewKnows(w)'
  BY <1>2 DEF ViewKnows
<1> QED
  BY <1>3 DEF ViewInv

LEMMA OpenViewInv ==
  ASSUME NEW kind \in {"aggregate", "consumer"}, NEW b \in Viewed, OpenView(kind, b)
  PROVE  ViewInv' /\ UNCHANGED vars
<1> DEFINE r == IF kind = "consumer" THEN ReadNoEdge ELSE ReadAll
<1>1. view' = [Closed EXCEPT !.todo = r, !.kind = kind, !.of = b] /\ UNCHANGED vars
  BY DEF OpenView, Reads, ReadAll, ReadNoEdge
<1>2. /\ r \in {ReadAll, ReadNoEdge} /\ r \in Rest(kind)
      /\ kind = "aggregate" => r \in {ReadAll, ReadEdges}
      /\ r \notin {ReadLast, <<>>}
  BY RestIs DEF Rest
<1> HIDE DEF r
<1>3. view' = Viewing(r, kind, b, None, {}, None, None)
  BY <1>1 DEF Closed, Viewing
<1>4. PICK w : w = view'
  OBVIOUS
<1>5. w = Viewing(r, kind, b, None, {}, None, None)
  BY <1>3, <1>4
<1>6. /\ w.todo = r /\ w.kind = kind /\ w.of = b /\ w.goods = None /\ w.edges = {}
      /\ w.owner = None /\ w.state = None
  BY <1>5, ViewParts
<1>7. ViewKnows(w)
  BY <1>2, <1>5, <1>6 DEF ViewKnows
<1> QED
  BY <1>1, <1>4, <1>7, StillKnows

\* What a view is before and after one of its reads.
LEMMA ReadingIs ==
  ASSUME ViewInv, NEW statement, Reading(statement)
  PROVE  /\ ViewKnows(view) /\ view.todo \in Rest(view.kind) /\ view.todo # <<>>
         /\ Head(view.todo) = statement
         /\ view.kind \in {"aggregate", "consumer"} /\ view.of \in Subjects
         /\ view = Viewing(view.todo, view.kind, view.of, view.goods, view.edges, view.owner,
                           view.state)
<1>1. view.todo # <<>> /\ Head(view.todo) = statement
  BY DEF Reading
<1>2. Closed.todo = <<>>
  BY DEF Closed
<1>3. ViewKnows(view)
  BY <1>1, <1>2 DEF ViewInv
<1> QED
  BY <1>1, <1>3, ViewedAssumption DEF ViewKnows, Subjects

LEMMA ViewGoodsInv ==
  ASSUME Stated, ViewInv, ViewGoods
  PROVE  ViewInv' /\ UNCHANGED vars
<1> DEFINE s == view.of
           row == db[<<"goods", s>>]
           u == Tail(view.todo)
<1>1. Reading("goods") /\ UNCHANGED vars
      /\ IF row = None THEN view' = Closed
         ELSE view' = SawGoods(view, row, u)
  BY DEF ViewGoods, Take, SawGoods
<1>2. CASE row = None
  BY <1>1, <1>2 DEF ViewInv
<1>3. CASE row # None
  <2>1. /\ s \in Subjects /\ ViewKnows(view)
        /\ view = Viewing(view.todo, view.kind, s, view.goods, view.edges, view.owner, view.state)
        /\ view.kind \in {"aggregate", "consumer"} /\ view.todo \in Rest(view.kind)
        /\ view.todo # <<>> /\ Head(view.todo) = "goods"
    BY <1>1, ReadingIs
  <2>2. /\ u \in Rest(view.kind) /\ u \notin {ReadAll, ReadNoEdge} /\ u \notin {ReadLast, <<>>}
        /\ view.kind = "aggregate" => u = ReadEdges
    BY <2>1, RestOf
  <2> HIDE DEF u, row
  <2>3. PICK w : w = view'
    OBVIOUS
  <2>4. w = Viewing(u, view.kind, s, row, view.edges, view.owner, view.state)
    BY <1>1, <1>3, <2>1, <2>3, SeenIs
  <2>5. /\ w.todo = u /\ w.kind = view.kind /\ w.of = s /\ w.goods = row
        /\ w.edges = view.edges /\ w.owner = view.owner /\ w.state = view.state
    BY <2>4, ViewParts
  <2>6. GoodsSeen(w)
    <3>2. db[<<"owner", s>>] # None
      BY <1>3, <2>1 DEF Stated, row
    <3>3. row.state \in Reached(events, s) /\ (row.active \/ s \in Idle)
      BY <2>1, <3>2 DEF Stated, row
    <3>4. s \in Idle => Delisted(s) \/ \E e \in lineage : e.parent = s
      BY DEF Idle, Delisted, Follows
    <3> HIDE DEF s
    <3> QED
      BY <2>5, <3>2, <3>3, <3>4 DEF GoodsSeen
  <2>7. w.of \in Viewed
    BY <2>1, <2>5 DEF ViewKnows
  <2>8. ViewKnows(w)
    BY <2>1, <2>2, <2>4, <2>5, <2>6, <2>7 DEF ViewKnows
  <2> QED
    BY <1>1, <2>3, <2>8, StillKnows
<1> QED
  BY <1>2, <1>3

LEMMA ViewLineageInv ==
  ASSUME ViewInv, ViewLineage
  PROVE  ViewInv' /\ UNCHANGED vars
<1> DEFINE s == view.of
           seen == {e \in lineage : s \in {e.parent, e.child}}
           u == Tail(view.todo)
<1>1. /\ Reading("lineage") /\ UNCHANGED vars
      /\ view' = SawEdges(view, seen, u)
  BY DEF ViewLineage, Take, SawEdges
<1>2. /\ s \in Subjects /\ ViewKnows(view)
      /\ view = Viewing(view.todo, view.kind, s, view.goods, view.edges, view.owner, view.state)
      /\ view.kind \in {"aggregate", "consumer"} /\ view.todo \in Rest(view.kind)
      /\ view.todo # <<>> /\ Head(view.todo) = "lineage"
  BY <1>1, ReadingIs
<1>3. /\ u \in Rest(view.kind) /\ u \notin {ReadAll, ReadNoEdge} /\ u \notin {ReadLast, <<>>}
      /\ view.todo \notin {ReadAll, ReadNoEdge} /\ view.kind = "aggregate"
  BY <1>2, RestOf
<1>4. GoodsSeen(view)
  BY <1>2, <1>3 DEF ViewKnows
<1>5. /\ {e \in lineage : e.child = s} \subseteq seen
      /\ (\E e \in lineage : e.parent = s) => \E e \in seen : e.parent = s
  OBVIOUS
<1> HIDE DEF u, seen
<1>6. PICK w : w = view'
  OBVIOUS
<1>7. w = Viewing(u, view.kind, s, view.goods, seen, view.owner, view.state)
  BY <1>1, <1>2, <1>6, SeenIs
<1>8. /\ w.todo = u /\ w.kind = view.kind /\ w.of = s /\ w.goods = view.goods
      /\ w.edges = seen /\ w.owner = view.owner /\ w.state = view.state
  BY <1>7, ViewParts
<1>9. GoodsSeen(w) /\ EdgesSeen(w)
  BY <1>4, <1>5, <1>8 DEF GoodsSeen, EdgesSeen
<1>10. w.of \in Viewed
  BY <1>2, <1>8 DEF ViewKnows
<1>11. ViewKnows(w)
  BY <1>2, <1>3, <1>7, <1>8, <1>9, <1>10 DEF ViewKnows
<1> QED
  BY <1>1, <1>6, <1>11, StillKnows

LEMMA ViewOwnerInv ==
  ASSUME ViewInv, ViewOwner
  PROVE  ViewInv' /\ UNCHANGED vars
<1> DEFINE s == view.of
           row == db[<<"owner", s>>]
           u == Tail(view.todo)
<1>1. /\ Reading("owner") /\ UNCHANGED vars
      /\ view' = SawOwner(view, row, u)
  BY DEF ViewOwner, Take, SawOwner
<1>2. /\ s \in Subjects /\ ViewKnows(view)
      /\ view = Viewing(view.todo, view.kind, s, view.goods, view.edges, view.owner, view.state)
      /\ view.kind \in {"aggregate", "consumer"} /\ view.todo \in Rest(view.kind)
      /\ view.todo # <<>> /\ Head(view.todo) = "owner"
  BY <1>1, ReadingIs
<1>3. /\ u \in Rest(view.kind) /\ u \notin {ReadAll, ReadNoEdge} /\ u # <<>>
      /\ view.todo \notin {ReadAll, ReadNoEdge} /\ view.todo \notin {ReadAll, ReadEdges}
  BY <1>2, RestOf
<1>4. GoodsSeen(view) /\ (view.kind = "aggregate" => EdgesSeen(view))
  BY <1>2, <1>3 DEF ViewKnows
<1>5. row # None
  BY <1>4 DEF GoodsSeen
<1> HIDE DEF u, row
<1>6. PICK w : w = view'
  OBVIOUS
<1>7. w = Viewing(u, view.kind, s, view.goods, view.edges, row, view.state)
  BY <1>1, <1>2, <1>6, SeenIs
<1>8. /\ w.todo = u /\ w.kind = view.kind /\ w.of = s /\ w.goods = view.goods
      /\ w.edges = view.edges /\ w.owner = row /\ w.state = view.state
  BY <1>7, ViewParts
<1>9. GoodsSeen(w) /\ (w.kind = "aggregate" => EdgesSeen(w))
  BY <1>4, <1>8 DEF GoodsSeen, EdgesSeen
<1>10. w.of \in Viewed
  BY <1>2, <1>8 DEF ViewKnows
<1>11. ViewKnows(w)
  BY <1>2, <1>3, <1>5, <1>7, <1>8, <1>9, <1>10 DEF ViewKnows
<1> QED
  BY <1>1, <1>6, <1>11, StillKnows

LEMMA ViewStateInv ==
  ASSUME Times, Stated, ViewInv, ViewState
  PROVE  ViewInv' /\ UNCHANGED vars
<1> DEFINE s == view.of
           state == IF \E e \in events : e.subject = s THEN CurrentState(s) ELSE view.goods.state
           u == Tail(view.todo)
<1>1. /\ Reading("state") /\ UNCHANGED vars
      /\ view' = SawState(view, state, u)
  BY DEF ViewState, Take, SawState
<1>2. /\ s \in Subjects /\ ViewKnows(view)
      /\ view = Viewing(view.todo, view.kind, s, view.goods, view.edges, view.owner, view.state)
      /\ view.kind \in {"aggregate", "consumer"} /\ view.todo \in Rest(view.kind)
      /\ view.todo # <<>> /\ Head(view.todo) = "state"
  BY <1>1, ReadingIs
<1>3. /\ u \in Rest(view.kind) /\ u \notin {ReadAll, ReadNoEdge} /\ u = <<>>
      /\ view.todo \notin {ReadAll, ReadNoEdge} /\ view.todo \notin {ReadAll, ReadEdges}
      /\ view.todo \in {ReadLast, <<>>}
  BY <1>2, RestOf
<1>4. /\ GoodsSeen(view) /\ (view.kind = "aggregate" => EdgesSeen(view)) /\ view.owner # None
  BY <1>2, <1>3 DEF ViewKnows
<1>5. state = view.goods.state \/ Follows(s, view.goods.state, state)
  <2>1. view.goods.state \in Reached(events, s)
    BY <1>4 DEF GoodsSeen
  <2>2. CASE Log(s) = {}
    BY <2>2 DEF Log
  <2>3. CASE Log(s) # {}
    <3>1. state = CurrentState(s)
      BY <2>3 DEF Log
    <3> QED
      BY <1>2, <2>1, <2>3, <3>1, StateFollows
  <2> QED
    BY <2>2, <2>3
<1> HIDE DEF u, state
<1>6. PICK w : w = view'
  OBVIOUS
<1>7. w = Viewing(u, view.kind, s, view.goods, view.edges, view.owner, state)
  BY <1>1, <1>2, <1>6, SeenIs
<1>8. /\ w.todo = u /\ w.kind = view.kind /\ w.of = s /\ w.goods = view.goods
      /\ w.edges = view.edges /\ w.owner = view.owner /\ w.state = state
  BY <1>7, ViewParts
<1>9. GoodsSeen(w) /\ (w.kind = "aggregate" => EdgesSeen(w))
  BY <1>4, <1>8 DEF GoodsSeen, EdgesSeen
<1>10. w.of \in Viewed
  BY <1>2, <1>8 DEF ViewKnows
<1>11. ViewKnows(w)
  BY <1>2, <1>3, <1>4, <1>5, <1>7, <1>8, <1>9, <1>10 DEF ViewKnows
<1> QED
  BY <1>1, <1>6, <1>11, StillKnows

LEMMA ViewNext ==
  ASSUME NoRowIsUnwritten, OverlapInv, ViewInv,
         [(Next /\ UNCHANGED view) \/ View]_viewVars
  PROVE  OverlapInv' /\ ViewInv'
<1>0. Inv /\ Times /\ Stated
  BY DEF OverlapInv, StateInv
<1>1. ASSUME [Next]_vars
      PROVE  OverlapInv'
  BY <1>1, NextInv, TimesNext, StateNext DEF OverlapInv
<1>2. ASSUME [Next]_vars, view' = view
      PROVE  ViewInv'
  <2>1. CASE view = Closed
    BY <1>2, <2>1 DEF ViewInv, Closed
  <2>2. CASE ViewKnows(view)
    BY <1>0, <1>2, <2>2, RegistryStepKeepsView DEF ViewInv
  <2> QED
    BY <2>1, <2>2 DEF ViewInv
<1>3. ASSUME View
      PROVE  ViewInv' /\ UNCHANGED vars
  <2>1. CASE Answer
    BY <2>1 DEF Answer, ViewInv, Closed
  <2> QED
    BY <1>0, <1>3, <2>1, OpenViewInv, ViewGoodsInv, ViewLineageInv, ViewOwnerInv, ViewStateInv DEF View
<1>4. \/ [Next]_vars /\ view' = view
      \/ View
  BY DEF viewVars
<1> QED
  BY <1>1, <1>2, <1>3, <1>4

LEMMA ViewKnowsWhole ==
  ASSUME ViewInv
  PROVE  ViewsAreWhole
<1> SUFFICES ASSUME view # Closed, view.todo = <<>>
             PROVE  /\ view.owner # None
                    /\ view.state = view.goods.state \/ Follows(view.of, view.goods.state, view.state)
                    /\ view.kind = "aggregate" => EdgesSeen(view)
  BY DEF ViewsAreWhole, Whole, EdgesSeen, Delisted
<1>1. ViewKnows(view)
  BY DEF ViewInv
<1>2. <<>> \notin {ReadAll, ReadNoEdge} /\ <<>> \notin {ReadAll, ReadEdges}
  BY RestIs
<1> QED
  BY <1>1, <1>2 DEF ViewKnows

\* A view assembled while any calls commit shows an owner, no state older than
\* the batch it shows, what the batch was made of, and what became of it.
THEOREM ViewsAlwaysWhole ==
  ASSUME NoRowIsUnwritten
  PROVE  ViewSpec => []ViewsAreWhole
<1> DEFINE I == OverlapInv /\ ViewInv
<1>1. Init /\ view = Closed => I
  BY InitInv, TimesInit, StateInit DEF OverlapInv, ViewInv
<1>2. I /\ [(Next /\ UNCHANGED view) \/ View]_viewVars => I'
  BY ViewNext
<1>3. I => ViewsAreWhole
  BY ViewKnowsWhole
<1> QED
  BY <1>1, <1>2, <1>3, PTL DEF ViewSpec
=============================================================================
