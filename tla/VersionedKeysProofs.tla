-------------------------- MODULE VersionedKeysProofs --------------------------
(***************************************************************************)
(* Proofs about VersionedKeys, for every set of prefix-free keys, every    *)
(* set of values, every base and every width: the sorted map of byte       *)
(* strings always holds exactly the versions, and get_at, prefix_scan_at   *)
(* and gc_before, which are loops over an iterator of that map, answer and *)
(* collect what the set of versions says.                                  *)
(*                                                                         *)
(* The argument has four parts.  (1) Numbers: the big-endian digits of a   *)
(* timestamp give it back and sort as it does.  (2) Bytes: a stored key    *)
(* can be read back, and the byte order puts the versions of a key         *)
(* together, the newest first.  (3) Scans: the iterator lists the entries  *)
(* in that order, and a prefix scan that stops at the first key without    *)
(* the prefix has met every key with it.  (4) Loops: an invariant of each  *)
(* loop, by induction on its turns, and the invariant Exact of the steps.  *)
(*                                                                         *)
(* Induction is done by the least counterexample (NatMin); that a          *)
(* recursive function exists at all is the lemma Iterate.                  *)
(***************************************************************************)
EXTENDS VersionedKeys, TLAPS, SequenceTheorems, FiniteSetTheorems, WellFoundedInduction, NaturalsInduction

(* A set of naturals that is not empty has a least element.                *)
LEMMA NatMin ==
    ASSUME NEW S \in SUBSET Nat, S # {}
    PROVE  \E x \in S : \A y \in S : x <= y
<1>1. PICK x \in S : \A y \in S : ~(<<y, x>> \in OpToRel(<, Nat))
  BY NatLessThanWellFounded, WFMin
<1>2. \A y \in Nat : y < x => <<y, x>> \in OpToRel(<, Nat)
  BY Zenon DEF OpToRel
<1>3. \A y \in S : ~(y < x)
  BY <1>1, <1>2, Zenon
<1> QED
  BY <1>3, SMT

(* f[0], f[1], ... start at b and follow from each other by F[1], F[2], ... *)
Iterates(f, n, b, F) == f[0] = b /\ \A i \in 1 .. n : f[i] = F[i][f[i - 1]]

(* A loop of n turns has a result: what induction over data rests on.      *)
LEMMA Iterate ==
    ASSUME NEW n \in Nat, NEW S, NEW b \in S, NEW F \in [1 .. n -> [S -> S]]
    PROVE  \E f \in [0 .. n -> S] : Iterates(f, n, b, F)
<1> DEFINE Has(m) == \E f \in [0 .. m -> S] :
                        f[0] = b /\ \A i \in 1 .. m : f[i] = F[i][f[i - 1]]
           Bad == {m \in 0 .. n : ~Has(m)}
<1>1. Has(0)
  <2>1. [i \in 0 .. 0 |-> b] \in [0 .. 0 -> S]
    OBVIOUS
  <2>2. [i \in 0 .. 0 |-> b][0] = b
    OBVIOUS
  <2>3. 1 .. 0 = {}
    OBVIOUS
  <2> QED
    BY <2>1, <2>2, <2>3
<1>2. ASSUME NEW m \in 1 .. n, Has(m - 1)
      PROVE  Has(m)
  <2>1. PICK f \in [0 .. (m - 1) -> S] :
           f[0] = b /\ \A i \in 1 .. (m - 1) : f[i] = F[i][f[i - 1]]
    BY <1>2
  <2> DEFINE g == [i \in 0 .. m |-> IF i = m THEN F[m][f[m - 1]] ELSE f[i]]
  <2>2. f[m - 1] \in S
    BY <2>1
  <2>3. F[m][f[m - 1]] \in S
    BY <2>2
  <2>4. g \in [0 .. m -> S]
    BY <2>1, <2>3
  <2>5. g[0] = b
    BY <2>1
  <2>6. \A i \in 1 .. m : g[i] = F[i][g[i - 1]]
    <3> SUFFICES ASSUME NEW i \in 1 .. m
                 PROVE  g[i] = F[i][g[i - 1]]
      OBVIOUS
    <3>1. g[i - 1] = f[i - 1]
      OBVIOUS
    <3>2. CASE i = m
      <4>1. g[m] = F[m][f[m - 1]]
        OBVIOUS
      <4> HIDE DEF g
      <4> QED
        BY <3>1, <3>2, <4>1
    <3>3. CASE i # m
      BY <3>1, <3>3, <2>1
    <3> QED
      BY <3>2, <3>3
  <2> HIDE DEF g
  <2> QED
    BY <2>4, <2>5, <2>6
<1>3. Bad = {}
  <2> HIDE DEF Has
  <2> SUFFICES ASSUME Bad # {} PROVE FALSE
    OBVIOUS
  <2>1. PICK m \in Bad : \A k \in Bad : m <= k
    <3>1. Bad \in SUBSET Nat
      OBVIOUS
    <3> QED
      BY <3>1, NatMin
  <2>2. m \in 1 .. n /\ ~Has(m)
    BY <1>1, <2>1
  <2>3. Has(m - 1)
    BY <2>1, <2>2
  <2> QED
    BY <1>2, <2>2, <2>3
<1> QED
  BY <1>3 DEF Iterates

(* Division with remainder.                                                *)
LEMMA DivMod ==
    ASSUME NEW n \in Nat, NEW d \in Nat \ {0}
    PROVE  /\ n \div d \in Nat /\ n % d \in 0 .. (d - 1)
           /\ n = d * (n \div d) + (n % d)
  OBVIOUS

(* Dividing twice is dividing by the product.                              *)
LEMMA DivDiv ==
    ASSUME NEW n \in Nat, NEW p \in Nat \ {0}, NEW b \in Nat \ {0}
    PROVE  n \div (b * p) = (n \div p) \div b
  OBVIOUS

(* The powers of the base.                                                 *)
LEMMA Powers ==
    /\ Pow[0] = 1
    /\ \A i \in 1 .. Width : Pow[i] = Base * Pow[i - 1]
    /\ \A i \in 0 .. Width : Pow[i] \in Nat \ {0}
<1> DEFINE P == Nat \ {0}
           F == [i \in 1 .. Width |-> [x \in P |-> Base * x]]
<1>0. \A s \in P : Base * s \in P
  BY EncodingAssumption
<1>1. F \in [1 .. Width -> [P -> P]]
  BY <1>0
<1>2. PICK f \in [0 .. Width -> P] : Iterates(f, Width, 1, F)
  <2>1. 1 \in P /\ Width \in Nat
    BY EncodingAssumption
  <2> HIDE DEF P, F
  <2> QED
    BY <1>1, <2>1, Iterate, Zenon
<1>3. \A i \in 1 .. Width : f[i] = Base * f[i - 1]
  <2> TAKE i \in 1 .. Width
  <2>1. f[i - 1] \in P
    BY EncodingAssumption
  <2> QED
    BY <1>2, <2>1 DEF Iterates
<1>4. f = [n \in 0 .. Width |-> IF n = 0 THEN 1 ELSE Base * f[n - 1]]
  <2>1. \A n \in 0 .. Width : f[n] = IF n = 0 THEN 1 ELSE Base * f[n - 1]
    BY <1>2, <1>3, EncodingAssumption DEF Iterates
  <2> HIDE DEF P
  <2> QED
    BY <2>1
<1>5. Pow = [n \in 0 .. Width |-> IF n = 0 THEN 1 ELSE Base * Pow[n - 1]]
  <2> DEFINE IsPow(g) == g = [n \in 0 .. Width |-> IF n = 0 THEN 1 ELSE Base * g[n - 1]]
  <2>1. \E g : IsPow(g)
    BY <1>4
  <2>2. Pow = CHOOSE g : IsPow(g)
    BY DEF Pow
  <2> HIDE DEF IsPow
  <2>3. IsPow(Pow)
    BY <2>1, <2>2
  <2> QED
    BY <2>3 DEF IsPow
<1>6. /\ Pow[0] = 1
      /\ \A i \in 1 .. Width : Pow[i] = Base * Pow[i - 1]
  BY <1>5, EncodingAssumption
<1>7. \A i \in 0 .. Width : Pow[i] \in P
  <2> DEFINE Bad == {i \in 0 .. Width : Pow[i] \notin P}
  <2> SUFFICES ASSUME Bad # {} PROVE FALSE
    OBVIOUS
  <2>1. PICK m \in Bad : \A k \in Bad : m <= k
    <3>1. Bad \in SUBSET Nat
      OBVIOUS
    <3> QED
      BY <3>1, NatMin
  <2>2. m # 0 /\ m \in 1 .. Width
    BY <1>6, EncodingAssumption
  <2>3. Pow[m - 1] \in P
    BY <2>1, <2>2, EncodingAssumption
  <2>4. Base * Pow[m - 1] \in P
    BY <1>0, <2>3
  <2> QED
    BY <1>6, <2>1, <2>2, <2>4
<1> QED
  BY <1>6, <1>7

--------------------------------------------------------------------------------
(* What is left of n before its i-th digit is split off.                   *)
Quot(n, i) == n \div Pow[Width - i]

(* The digits of a timestamp are remainders of its quotients.              *)
LEMMA Quotients ==
    ASSUME NEW n \in Timestamps
    PROVE  /\ n \in Nat
           /\ \A i \in 0 .. Width : Quot(n, i) \in Nat
           /\ Quot(n, 0) = 0 /\ Quot(n, Width) = n
           /\ \A i \in 1 .. Width : Quot(n, i - 1) = Quot(n, i) \div Base
           /\ \A i \in 1 .. Width : BigEndian(n)[i] = Quot(n, i) % Base
           /\ BigEndian(n) \in [1 .. Width -> Byte]
<1>0. Width \in Nat \ {0} /\ Base \in Nat \ {0}
  BY EncodingAssumption
<1>1. n \in Nat /\ n < Pow[Width]
  BY <1>0, Powers DEF Timestamps, MAX
<1>2. \A i \in 0 .. Width : Width - i \in 0 .. Width /\ Pow[Width - i] \in Nat \ {0}
  BY <1>0, Powers
<1>3. \A i \in 0 .. Width : Quot(n, i) \in Nat
  BY <1>1, <1>2, DivMod DEF Quot
<1>4. Quot(n, 0) = 0
  <2>1. Width - 0 = Width /\ Pow[Width] \in Nat \ {0}
    BY <1>0, Powers
  <2> QED
    BY <1>1, <2>1 DEF Quot
<1>5. Quot(n, Width) = n
  <2>1. Width - Width = 0
    BY <1>0
  <2> QED
    BY <1>1, <2>1, Powers DEF Quot
<1>6. \A i \in 1 .. Width : Quot(n, i - 1) = Quot(n, i) \div Base
  <2> TAKE i \in 1 .. Width
  <2> DEFINE p == Pow[Width - i]
  <2>1. p \in Nat \ {0}
    BY <1>2
  <2>2. Pow[Width - (i - 1)] = Base * p
    <3>1. Width - (i - 1) \in 1 .. Width /\ (Width - (i - 1)) - 1 = Width - i
      BY <1>0
    <3> QED
      BY <3>1, Powers
  <2>3. n \div (Base * p) = (n \div p) \div Base
    BY <1>0, <1>1, <2>1, DivDiv
  <2> QED
    BY <2>2, <2>3 DEF Quot
<1>7. \A i \in 1 .. Width : BigEndian(n)[i] = Quot(n, i) % Base
  BY DEF BigEndian, Quot
<1>8. \A i \in 1 .. Width : Quot(n, i) % Base \in Byte
  <2>1. \A x \in Nat : x % Base \in Byte
    BY <1>0, DivMod DEF Byte
  <2>2. \A i \in 1 .. Width : i \in 0 .. Width
    BY <1>0
  <2> QED
    BY <1>3, <2>1, <2>2
<1>9. BigEndian(n) \in [1 .. Width -> Byte]
  BY <1>8 DEF BigEndian, Quot
<1> QED
  BY <1>1, <1>3, <1>4, <1>5, <1>6, <1>7, <1>9

(* A loop over the digits gets the number back.                            *)
LEMMA DigitsBack ==
    ASSUME NEW n \in Timestamps, NEW d \in [1 .. Width -> Byte], d = BigEndian(n),
           NEW v, v = [i \in 0 .. Width |-> IF i = 0 THEN 0 ELSE v[i - 1] * Base + d[i]]
    PROVE  v[Width] = n
<1>0. Width \in Nat \ {0} /\ Base \in Nat \ {0}
  BY EncodingAssumption
<1> DEFINE Bad == {i \in 0 .. Width : v[i] # Quot(n, i)}
<1>1. Bad = {}
  <2> SUFFICES ASSUME Bad # {} PROVE FALSE
    OBVIOUS
  <2>1. PICK m \in Bad : \A k \in Bad : m <= k
    <3>1. Bad \in SUBSET Nat
      OBVIOUS
    <3> QED
      BY <3>1, NatMin
  <2>2. m \in 1 .. Width /\ m - 1 \in 0 .. Width
    BY <1>0, <2>1, Quotients
  <2>3. v[m - 1] = Quot(n, m - 1)
    BY <2>1, <2>2
  <2>4. v[m] = v[m - 1] * Base + d[m]
    BY <1>0, <2>2
  <2>5. v[m] = (Quot(n, m) \div Base) * Base + (Quot(n, m) % Base)
    BY <2>2, <2>3, <2>4, Quotients
  <2>6. Quot(n, m) \in Nat
    BY <2>2, Quotients
  <2>7. v[m] = Quot(n, m)
    <3>0. \A x \in Nat : x \div Base \in Nat /\ x = Base * (x \div Base) + (x % Base)
      BY <1>0, DivMod
    <3>1. \A x \in Nat : (x \div Base) * Base + (x % Base) = x
      <4> TAKE x \in Nat
      <4>1. (x \div Base) * Base = Base * (x \div Base)
        BY <1>0, <3>0
      <4> QED
        BY <3>0, <4>1
    <3> QED
      BY <2>5, <2>6, <3>1
  <2> QED
    BY <2>1, <2>7
<1>2. v[Width] = Quot(n, Width)
  <2>1. Width \in 0 .. Width
    BY <1>0
  <2> QED
    BY <1>1, <2>1
<1> QED
  BY <1>2, Quotients

(* Big-endian digits sort as the numbers do.                               *)
LEMMA DigitsSort ==
    ASSUME NEW n \in Timestamps, NEW m \in Timestamps, n < m
    PROVE  \E i \in 1 .. Width : /\ BigEndian(n)[i] < BigEndian(m)[i]
                                 /\ \A j \in 1 .. (i - 1) : BigEndian(n)[j] = BigEndian(m)[j]
<1>0. Width \in Nat \ {0} /\ Base \in Nat \ {0}
  BY EncodingAssumption
<1> DEFINE Diff == {i \in 0 .. Width : Quot(n, i) # Quot(m, i)}
<1>1. Width \in Diff
  BY <1>0, Quotients
<1>2. PICK i \in Diff : \A k \in Diff : i <= k
  <2>1. Diff \in SUBSET Nat
    OBVIOUS
  <2> QED
    BY <1>1, <2>1, NatMin
<1>3. i \in 1 .. Width
  BY <1>0, <1>2, Quotients
<1>4. \A j \in 0 .. (i - 1) : Quot(n, j) = Quot(m, j)
  <2> TAKE j \in 0 .. (i - 1)
  <2>1. j \in 0 .. Width /\ ~(i <= j)
    BY <1>0, <1>3
  <2> QED
    BY <1>2, <2>1
<1>5. \A j \in 1 .. (i - 1) : BigEndian(n)[j] = BigEndian(m)[j]
  <2> TAKE j \in 1 .. (i - 1)
  <2>1. j \in 1 .. Width /\ j \in 0 .. (i - 1)
    BY <1>0, <1>3
  <2> QED
    BY <1>4, <2>1, Quotients
<1>6. Quot(n, i) < Quot(m, i)
  <2>1. Pow[Width - i] \in Nat \ {0}
    BY <1>0, <1>3, Powers
  <2>2. n \in Nat /\ m \in Nat
    BY Quotients
  <2>3. \A p \in Nat \ {0} : n \div p <= m \div p
    BY <2>2
  <2>4. Quot(n, i) <= Quot(m, i)
    BY <2>1, <2>3 DEF Quot
  <2>5. Quot(n, i) \in Nat /\ Quot(m, i) \in Nat
    BY <1>3, Quotients
  <2> QED
    BY <1>2, <2>4, <2>5
<1>7. Quot(n, i) \div Base = Quot(m, i) \div Base
  <2>1. i - 1 \in 0 .. (i - 1)
    BY <1>3
  <2>2. Quot(n, i - 1) = Quot(m, i - 1)
    BY <1>4, <2>1
  <2> QED
    BY <1>3, <2>2, Quotients
<1>8. Quot(n, i) % Base < Quot(m, i) % Base
  <2>1. Quot(n, i) \in Nat /\ Quot(m, i) \in Nat
    BY <1>3, Quotients
  <2>2. /\ Quot(n, i) = Base * (Quot(n, i) \div Base) + (Quot(n, i) % Base)
        /\ Quot(m, i) = Base * (Quot(m, i) \div Base) + (Quot(m, i) % Base)
        /\ Quot(n, i) % Base \in Nat /\ Quot(m, i) % Base \in Nat
    <3>1. \A x \in Nat : x = Base * (x \div Base) + (x % Base) /\ x % Base \in Nat
      BY <1>0, DivMod
    <3> QED
      BY <2>1, <3>1
  <2>3. \A x \in Nat, y, z, r, s \in Nat : x = y + r /\ z = y + s /\ x < z => r < s
    OBVIOUS
  <2>4. Base * (Quot(n, i) \div Base) \in Nat
    BY <1>0, <2>1, DivMod
  <2> QED
    BY <1>6, <1>7, <2>1, <2>2, <2>3, <2>4
<1>9. BigEndian(n)[i] < BigEndian(m)[i]
  BY <1>3, <1>8, Quotients
<1> QED
  BY <1>3, <1>5, <1>9

--------------------------------------------------------------------------------
(* Lexicographic order of two strings, neither of which begins the other.  *)
SplitsAt(a, b, i) ==
    /\ i \in 1 .. Len(a) /\ i <= Len(b) /\ a[i] < b[i]
    /\ \A j \in 1 .. (i - 1) : a[j] = b[j]
Splits(a, b) == \E i \in 1 .. Len(a) : SplitsAt(a, b, i)

(* Bytes are numbers.                                                      *)
LEMMA ByteInt ==
    ASSUME NEW a \in Seq(Byte), NEW i \in 1 .. Len(a)
    PROVE  a[i] \in Int
<1>1. a[i] \in Byte
  OBVIOUS
<1> QED
  BY <1>1, EncodingAssumption DEF Byte

(* What it is to begin a string, byte by byte.                             *)
LEMMA PrefixIs ==
    ASSUME NEW a \in Seq(Byte), NEW b \in Seq(Byte)
    PROVE  IsPrefix(a, b) <=> Len(a) <= Len(b) /\ \A i \in 1 .. Len(a) : a[i] = b[i]
<1>1. Len(a) \in Nat /\ Len(b) \in Nat
  OBVIOUS
<1>2. ASSUME Len(a) <= Len(b)
      PROVE  SubSeq(a, 1, Len(a)) = SubSeq(b, 1, Len(a)) <=> \A i \in 1 .. Len(a) : a[i] = b[i]
  <2>1. /\ SubSeq(a, 1, Len(a)) \in Seq(Byte) /\ Len(SubSeq(a, 1, Len(a))) = Len(a)
        /\ \A i \in 1 .. Len(a) : SubSeq(a, 1, Len(a))[i] = a[i]
    BY <1>1
  <2>2. /\ SubSeq(b, 1, Len(a)) \in Seq(Byte) /\ Len(SubSeq(b, 1, Len(a))) = Len(a)
        /\ \A i \in 1 .. Len(a) : SubSeq(b, 1, Len(a))[i] = b[i]
    BY <1>1, <1>2
  <2> QED
    BY <2>1, <2>2, SeqEqual
<1> QED
  BY <1>2 DEF IsPrefix

(* The first i - 1 bytes of two strings, byte by byte.                     *)
LEMMA SameStart ==
    ASSUME NEW a \in Seq(Byte), NEW b \in Seq(Byte), NEW i \in 1 .. Len(a), i <= Len(b)
    PROVE  SubSeq(a, 1, i - 1) = SubSeq(b, 1, i - 1) <=> \A j \in 1 .. (i - 1) : a[j] = b[j]
<1>1. /\ SubSeq(a, 1, i - 1) \in Seq(Byte) /\ Len(SubSeq(a, 1, i - 1)) = i - 1
      /\ \A j \in 1 .. (i - 1) : SubSeq(a, 1, i - 1)[j] = a[j]
  OBVIOUS
<1>2. /\ SubSeq(b, 1, i - 1) \in Seq(Byte) /\ Len(SubSeq(b, 1, i - 1)) = i - 1
      /\ \A j \in 1 .. (i - 1) : SubSeq(b, 1, i - 1)[j] = b[j]
  OBVIOUS
<1> QED
  BY <1>1, <1>2, SeqEqual

(* RocksDB's order is that one, or a proper prefix.                        *)
LEMMA LessIs ==
    ASSUME NEW a \in Seq(Byte), NEW b \in Seq(Byte)
    PROVE  BytesLess(a, b) <=> IsStrictPrefix(a, b) \/ Splits(a, b)
  BY SameStart DEF BytesLess, Splits, SplitsAt

(* Strings that differ at some byte of both are ordered one way.           *)
LEMMA SplitAsym ==
    ASSUME NEW a \in Seq(Byte), NEW b \in Seq(Byte), Splits(a, b)
    PROVE  ~Splits(b, a) /\ ~IsPrefix(a, b) /\ ~IsPrefix(b, a)
<1>1. PICK i \in 1 .. Len(a) : SplitsAt(a, b, i)
  BY DEF Splits
<1>2. i \in 1 .. Len(b) /\ a[i] \in Int /\ b[i] \in Int /\ a[i] < b[i]
  <2>1. i \in 1 .. Len(b) /\ a[i] < b[i]
    BY <1>1 DEF SplitsAt
  <2> QED
    BY <2>1, ByteInt
<1>3. ~IsPrefix(a, b) /\ ~IsPrefix(b, a)
  BY <1>2, PrefixIs
<1>4. ASSUME NEW j \in 1 .. Len(b), SplitsAt(b, a, j) PROVE FALSE
  <2>1. j \in 1 .. Len(a) /\ b[j] < a[j] /\ b[j] \in Int /\ a[j] \in Int
    <3>1. j \in 1 .. Len(a) /\ b[j] < a[j]
      BY <1>4 DEF SplitsAt
    <3> QED
      BY <3>1, ByteInt
  <2>2. CASE j < i
    BY <1>1, <2>1, <2>2 DEF SplitsAt
  <2>3. CASE i < j
    BY <1>2, <1>4, <2>3 DEF SplitsAt
  <2>4. CASE i = j
    BY <1>2, <2>1, <2>4
  <2> QED
    BY <2>2, <2>3, <2>4
<1> QED
  BY <1>3, <1>4 DEF Splits

(* That order is transitive.                                              *)
LEMMA SplitTrans ==
    ASSUME NEW a \in Seq(Byte), NEW b \in Seq(Byte), NEW c \in Seq(Byte),
           Splits(a, b), Splits(b, c)
    PROVE  Splits(a, c)
<1>1. PICK i \in 1 .. Len(a) : SplitsAt(a, b, i)
  BY DEF Splits
<1>2. PICK j \in 1 .. Len(b) : SplitsAt(b, c, j)
  BY DEF Splits
<1>3. CASE i < j
  <2>1. i \in 1 .. Len(a) /\ i <= Len(c) /\ b[i] = c[i]
    BY <1>1, <1>2, <1>3 DEF SplitsAt
  <2>2. \A k \in 1 .. (i - 1) : a[k] = c[k]
    BY <1>1, <1>2, <1>3 DEF SplitsAt
  <2> QED
    BY <1>1, <2>1, <2>2 DEF Splits, SplitsAt
<1>4. CASE j <= i
  <2>1. j \in 1 .. Len(a) /\ j <= Len(c)
    BY <1>1, <1>2, <1>4 DEF SplitsAt
  <2>2. a[j] \in Int /\ b[j] \in Int /\ c[j] \in Int
    <3>1. j \in 1 .. Len(c)
      BY <2>1
    <3> QED
      BY <2>1, <3>1, ByteInt
  <2>3. a[j] < c[j]
    BY <1>1, <1>2, <1>4, <2>2 DEF SplitsAt
  <2>4. \A k \in 1 .. (j - 1) : a[k] = c[k]
    BY <1>1, <1>2, <1>4 DEF SplitsAt
  <2> QED
    BY <2>1, <2>3, <2>4 DEF Splits, SplitsAt
<1> QED
  BY <1>3, <1>4

(* Of two strings neither of which begins the other, one comes first.     *)
LEMMA SplitTotal ==
    ASSUME NEW a \in Seq(Byte), NEW b \in Seq(Byte), ~IsPrefix(a, b), ~IsPrefix(b, a)
    PROVE  Splits(a, b) \/ Splits(b, a)
<1> DEFINE Diff == {i \in 1 .. Len(a) : i <= Len(b) /\ a[i] # b[i]}
<1>1. Diff # {}
  BY PrefixIs
<1>2. PICK i \in Diff : \A k \in Diff : i <= k
  <2>1. Diff \in SUBSET Nat
    OBVIOUS
  <2> QED
    BY <1>1, <2>1, NatMin
<1>3. i \in 1 .. Len(a) /\ i \in 1 .. Len(b) /\ a[i] \in Int /\ b[i] \in Int /\ a[i] # b[i]
  <2>1. i \in 1 .. Len(a) /\ i \in 1 .. Len(b) /\ a[i] # b[i]
    OBVIOUS
  <2> QED
    BY <2>1, ByteInt
<1>4. \A j \in 1 .. (i - 1) : a[j] = b[j]
  BY <1>2, <1>3
<1> QED
  BY <1>3, <1>4 DEF Splits, SplitsAt

--------------------------------------------------------------------------------
(* The bytes of a stored key: those of the key, then the digits.           *)
LEMMA Encoded ==
    ASSUME NEW k \in Seq(Byte), NEW ts \in Timestamps
    PROVE  LET x == encode_versioned_key(k, ts) IN
           /\ x \in Seq(Byte) /\ Len(x) = Len(k) + Width
           /\ \A i \in 1 .. Len(k) : x[i] = k[i]
           /\ \A i \in 1 .. Width : x[Len(k) + i] = BigEndian(MAX - ts)[i]
           /\ MAX - ts \in Timestamps
<1> DEFINE d == BigEndian(MAX - ts)
           x == encode_versioned_key(k, ts)
<1>0. Width \in Nat \ {0} /\ Len(k) \in Nat
  BY EncodingAssumption
<1>1. MAX - ts \in Timestamps
  <2>1. MAX \in Int
    BY <1>0, Powers DEF MAX
  <2> QED
    BY <2>1 DEF Timestamps
<1>2. d \in [1 .. Width -> Byte]
  BY <1>1, Quotients
<1>3. d \in Seq(Byte) /\ Len(d) = Width
  <2>1. d \in Seq(Byte)
    BY <1>0, <1>2, SeqDef
  <2>2. DOMAIN d = 1 .. Width
    BY <1>2
  <2> HIDE DEF d
  <2> QED
    BY <1>0, <2>1, <2>2, LenProperties
<1>4. x = k \o d
  BY DEF encode_versioned_key
<1> HIDE DEF d, x
<1>5. x \in Seq(Byte) /\ Len(x) = Len(k) + Width
  BY <1>3, <1>4, ConcatProperties
<1>6. \A i \in 1 .. (Len(k) + Width) : x[i] = IF i <= Len(k) THEN k[i] ELSE d[i - Len(k)]
  BY <1>3, <1>4, ConcatProperties
<1>7. \A i \in 1 .. Len(k) : x[i] = k[i]
  BY <1>0, <1>6
<1>8. \A i \in 1 .. Width : x[Len(k) + i] = d[i]
  <2> TAKE i \in 1 .. Width
  <2>1. Len(k) + i \in 1 .. (Len(k) + Width) /\ ~(Len(k) + i <= Len(k)) /\ (Len(k) + i) - Len(k) = i
    BY <1>0
  <2> QED
    BY <1>6, <2>1
<1> QED
  BY <1>1, <1>5, <1>7, <1>8 DEF d, x

(* A stored key can be read back: extract_key_prefix and                   *)
(* decode_versioned_timestamp invert encode_versioned_key for every key    *)
(* and every timestamp.                                                    *)
THEOREM Decoded ==
    ASSUME NEW k \in Seq(Byte), NEW ts \in Timestamps
    PROVE  /\ extract_key_prefix(encode_versioned_key(k, ts)) = k
           /\ decode_versioned_timestamp(encode_versioned_key(k, ts)) = ts
<1> DEFINE d == BigEndian(MAX - ts)
           x == encode_versioned_key(k, ts)
<1>0. Width \in Nat \ {0} /\ Len(k) \in Nat /\ Base \in Nat
  BY EncodingAssumption
<1>1. /\ x \in Seq(Byte) /\ Len(x) = Len(k) + Width
      /\ \A i \in 1 .. Len(k) : x[i] = k[i]
      /\ \A i \in 1 .. Width : x[Len(k) + i] = d[i]
      /\ MAX - ts \in Timestamps
  BY Encoded
<1>2. d \in [1 .. Width -> Byte]
  BY <1>1, Quotients
<1> HIDE DEF d, x
<1>3. extract_key_prefix(x) = k
  <2>1. Len(x) - Width = Len(k)
    BY <1>0, <1>1
  <2>2. SubSeq(x, 1, Len(k)) \in Seq(Byte) /\ Len(SubSeq(x, 1, Len(k))) = Len(k)
        /\ \A i \in 1 .. Len(k) : SubSeq(x, 1, Len(k))[i] = x[i]
    BY <1>0, <1>1
  <2> QED
    BY <1>1, <2>1, <2>2, SeqEqual DEF extract_key_prefix
<1>4. decode_versioned_timestamp(x) = ts
  <2> DEFINE Byt(i) == x[Len(x) - Width + i]
             IsValue(g) == g = [i \in 0 .. Width |-> IF i = 0 THEN 0 ELSE g[i - 1] * Base + Byt(i)]
             F == [i \in 1 .. Width |-> [y \in Nat |-> y * Base + d[i]]]
  <2>1. \A i \in 1 .. Width : Byt(i) = d[i] /\ d[i] \in Nat
    <3> TAKE i \in 1 .. Width
    <3>1. Len(x) - Width + i = Len(k) + i
      BY <1>0, <1>1
    <3>2. d[i] \in Nat
      BY <1>2, EncodingAssumption DEF Byte
    <3> QED
      BY <1>1, <3>1, <3>2
  <2>2. F \in [1 .. Width -> [Nat -> Nat]]
    <3>1. \A y \in Nat : y * Base \in Nat
      BY <1>0
    <3>2. \A i \in 1 .. Width, y \in Nat : y * Base + d[i] \in Nat
      <4> TAKE i \in 1 .. Width, y \in Nat
      <4>1. d[i] \in Nat /\ y * Base \in Nat
        BY <2>1, <3>1
      <4> QED
        BY <4>1
    <3> QED
      BY <3>2
  <2>3. PICK f \in [0 .. Width -> Nat] : Iterates(f, Width, 0, F)
    <3> HIDE DEF F
    <3> QED
      BY <1>0, <2>2, Iterate, Zenon
  <2>4. \A i \in 1 .. Width : f[i] = f[i - 1] * Base + d[i]
    <3> TAKE i \in 1 .. Width
    <3>1. f[i - 1] \in Nat
      BY <1>0
    <3> QED
      BY <2>3, <3>1 DEF Iterates
  <2>5. IsValue(f)
    <3>1. \A i \in 0 .. Width : f[i] = IF i = 0 THEN 0 ELSE f[i - 1] * Base + Byt(i)
      <4> TAKE i \in 0 .. Width
      <4>1. CASE i = 0
        BY <2>3, <4>1 DEF Iterates
      <4>2. CASE i # 0
        <5>1. i \in 1 .. Width
          BY <1>0, <4>2
        <5> QED
          BY <2>1, <2>4, <4>2, <5>1
      <4> QED
        BY <4>1, <4>2
    <3> HIDE DEF Byt
    <3> QED
      BY <3>1
  <2> DEFINE v == CHOOSE g : IsValue(g)
  <2>6. IsValue(v)
    <3> HIDE DEF IsValue
    <3> QED
      BY <2>5
  <2>7. decode_versioned_timestamp(x) = MAX - v[Width]
    BY DEF decode_versioned_timestamp
  <2>8. v = [i \in 0 .. Width |-> IF i = 0 THEN 0 ELSE v[i - 1] * Base + d[i]]
    <3>1. \A i \in 0 .. Width : i # 0 => Byt(i) = d[i]
      BY <1>0, <2>1
    <3> HIDE DEF v, Byt
    <3> QED
      BY <2>6, <3>1
  <2>9. v[Width] = MAX - ts
    <3> HIDE DEF v
    <3> QED
      BY <1>1, <1>2, <2>8, DigitsBack DEF d
  <2>10. MAX \in Int /\ ts \in Int
    BY <1>0, Powers DEF MAX, Timestamps
  <2> QED
    BY <2>7, <2>9, <2>10
<1> QED
  BY <1>3, <1>4 DEF x

(* The entry of an earlier key, or of a later timestamp, comes first.      *)
Before(k, s, l, t) == Splits(k, l) \/ (k = l /\ s > t)

(* Their bytes differ accordingly.                                         *)
LEMMA BeforeSplits ==
    ASSUME NEW k \in Seq(Byte), NEW l \in Seq(Byte), NEW s \in Timestamps, NEW t \in Timestamps,
           Before(k, s, l, t)
    PROVE  Splits(encode_versioned_key(k, s), encode_versioned_key(l, t))
<1> DEFINE x == encode_versioned_key(k, s)
           y == encode_versioned_key(l, t)
<1>0. Width \in Nat \ {0} /\ Len(k) \in Nat /\ Len(l) \in Nat
  BY EncodingAssumption
<1>1. /\ x \in Seq(Byte) /\ Len(x) = Len(k) + Width
      /\ \A i \in 1 .. Len(k) : x[i] = k[i]
      /\ \A i \in 1 .. Width : x[Len(k) + i] = BigEndian(MAX - s)[i]
      /\ MAX - s \in Timestamps
  BY Encoded
<1>2. /\ y \in Seq(Byte) /\ Len(y) = Len(l) + Width
      /\ \A i \in 1 .. Len(l) : y[i] = l[i]
      /\ \A i \in 1 .. Width : y[Len(l) + i] = BigEndian(MAX - t)[i]
      /\ MAX - t \in Timestamps
  BY Encoded
<1> HIDE DEF x, y
<1>3. CASE Splits(k, l)
  <2>1. PICK i \in 1 .. Len(k) : SplitsAt(k, l, i)
    BY <1>3 DEF Splits
  <2>2. i \in 1 .. Len(l) /\ i \in 1 .. Len(x) /\ i <= Len(y)
    BY <1>0, <1>1, <1>2, <2>1 DEF SplitsAt
  <2>3. x[i] < y[i]
    BY <1>1, <1>2, <2>1, <2>2 DEF SplitsAt
  <2>4. \A j \in 1 .. (i - 1) : x[j] = y[j]
    <3> TAKE j \in 1 .. (i - 1)
    <3>1. j \in 1 .. Len(k) /\ j \in 1 .. Len(l)
      BY <1>0, <2>2
    <3> QED
      BY <1>1, <1>2, <2>1, <3>1 DEF SplitsAt
  <2>5. SplitsAt(x, y, i)
    BY <2>2, <2>3, <2>4 DEF SplitsAt
  <2> QED
    BY <2>2, <2>5 DEF Splits, x, y
<1>4. CASE k = l /\ s > t
  <2>1. MAX - s < MAX - t
    <3>1. MAX \in Int /\ s \in Int /\ t \in Int
      BY <1>0, Powers DEF MAX, Timestamps
    <3> QED
      BY <1>4, <3>1
  <2>2. PICK i \in 1 .. Width : /\ BigEndian(MAX - s)[i] < BigEndian(MAX - t)[i]
                                /\ \A j \in 1 .. (i - 1) : BigEndian(MAX - s)[j] = BigEndian(MAX - t)[j]
    BY <1>1, <1>2, <2>1, DigitsSort
  <2>3. x[Len(k) + i] < y[Len(k) + i]
    BY <1>1, <1>2, <1>4, <2>2
  <2>4. \A j \in 1 .. (Len(k) + i - 1) : x[j] = y[j]
    <3> TAKE j \in 1 .. (Len(k) + i - 1)
    <3>1. CASE j \in 1 .. Len(k)
      BY <1>1, <1>2, <1>4, <3>1
    <3>2. CASE j > Len(k)
      <4>1. j - Len(k) \in 1 .. (i - 1) /\ j - Len(k) \in 1 .. Width /\ j = Len(k) + (j - Len(k))
        BY <1>0, <3>2
      <4>2. x[Len(k) + (j - Len(k))] = y[Len(k) + (j - Len(k))]
        BY <1>1, <1>2, <1>4, <2>2, <4>1
      <4> QED
        BY <4>1, <4>2
    <3> QED
      BY <1>0, <3>1, <3>2
  <2>5. Len(k) + i \in 1 .. Len(x) /\ Len(k) + i <= Len(y)
    BY <1>0, <1>1, <1>2, <1>4
  <2>6. SplitsAt(x, y, Len(k) + i)
    BY <2>3, <2>4, <2>5 DEF SplitsAt
  <2> QED
    BY <2>5, <2>6 DEF Splits, x, y
<1> QED
  BY <1>3, <1>4 DEF Before

(* Of two entries one comes first.                                         *)
LEMMA BeforeTotal ==
    ASSUME PrefixFree, NEW k \in Keys, NEW l \in Keys, NEW s \in Timestamps, NEW t \in Timestamps,
           k # l \/ s # t
    PROVE  Before(k, s, l, t) \/ Before(l, t, k, s)
<1>0. k \in Seq(Byte) /\ l \in Seq(Byte)
  BY EncodingAssumption
<1>1. CASE k = l
  BY <1>1, Powers, EncodingAssumption DEF Before, Timestamps, MAX
<1>2. CASE k # l
  BY <1>0, <1>2, SplitTotal DEF PrefixFree, Before
<1> QED
  BY <1>1, <1>2

(* Under prefix-free keys RocksDB's order of the stored keys is that       *)
(* order: key by key, and the versions of one key newest first, which the  *)
(* inverted timestamp of encode_versioned_key is for.                      *)
THEOREM Order ==
    ASSUME PrefixFree, NEW k \in Keys, NEW l \in Keys, NEW s \in Timestamps, NEW t \in Timestamps
    PROVE  BytesLess(encode_versioned_key(k, s), encode_versioned_key(l, t)) <=> Before(k, s, l, t)
<1> DEFINE x == encode_versioned_key(k, s)
           y == encode_versioned_key(l, t)
<1>0. k \in Seq(Byte) /\ l \in Seq(Byte)
  BY EncodingAssumption
<1>1. x \in Seq(Byte) /\ y \in Seq(Byte)
  BY <1>0, Encoded
<1>2. Before(k, s, l, t) => Splits(x, y)
  BY <1>0, BeforeSplits
<1>3. Before(l, t, k, s) => Splits(y, x)
  BY <1>0, BeforeSplits
<1>4. k = l /\ s = t => x = y
  OBVIOUS
<1> HIDE DEF x, y
<1>5. Before(k, s, l, t) => BytesLess(x, y)
  BY <1>1, <1>2, LessIs
<1>6. Before(l, t, k, s) => ~BytesLess(x, y)
  BY <1>1, <1>3, LessIs, SplitAsym DEF IsStrictPrefix
<1>7. k = l /\ s = t => ~BytesLess(x, y)
  BY <1>1, <1>4, LessIs, SplitAsym DEF IsStrictPrefix
<1>8. Before(k, s, l, t) \/ Before(l, t, k, s) \/ (k = l /\ s = t)
  BY BeforeTotal
<1>9. k = l /\ s = t => ~Before(k, s, l, t)
  <2>1. ~Splits(k, k)
    BY <1>0, SplitAsym
  <2>2. s \in Int
    BY DEF Timestamps
  <2> QED
    BY <2>1, <2>2 DEF Before
<1>10. Before(l, t, k, s) => ~Before(k, s, l, t)
  BY <1>2, <1>3, <1>1, SplitAsym
<1> QED
  BY <1>5, <1>6, <1>7, <1>8, <1>9, <1>10 DEF x, y

(* The order of the entries is transitive.                                 *)
LEMMA BeforeTrans ==
    ASSUME NEW k \in Keys, NEW l \in Keys, NEW m \in Keys,
           NEW s \in Timestamps, NEW t \in Timestamps, NEW u \in Timestamps,
           Before(k, s, l, t), Before(l, t, m, u)
    PROVE  Before(k, s, m, u)
<1>0. k \in Seq(Byte) /\ l \in Seq(Byte) /\ m \in Seq(Byte)
  BY EncodingAssumption
<1>1. CASE Splits(k, l) /\ Splits(l, m)
  BY <1>0, <1>1, SplitTrans DEF Before
<1>2. CASE k = l /\ s > t /\ l = m /\ t > u
  <2>1. s \in Int /\ t \in Int /\ u \in Int
    BY DEF Timestamps
  <2> QED
    BY <1>2, <2>1 DEF Before
<1> QED
  BY <1>1, <1>2 DEF Before

(* Entries of one key lie together, the newest first.                      *)
LEMMA BeforeGroups ==
    ASSUME NEW k \in Keys, NEW l \in Keys, NEW s \in Timestamps, NEW t \in Timestamps,
           NEW u \in Timestamps
    PROVE  /\ Before(k, s, k, t) => s > t
           /\ Before(k, s, l, t) /\ Before(l, t, k, u) => l = k
<1>0. k \in Seq(Byte) /\ l \in Seq(Byte)
  BY EncodingAssumption
<1>1. ~Splits(k, k)
  BY <1>0, SplitAsym
<1>2. Splits(k, l) => ~Splits(l, k)
  BY <1>0, SplitAsym
<1> QED
  BY <1>1, <1>2 DEF Before

--------------------------------------------------------------------------------
(* R puts the elements of f in ascending order.                            *)
InOrder(f, n, R) == \A i, j \in 1 .. n : i < j => <<f[i], f[j]>> \in R

(* A finite set with a strict total order can be listed in that order.     *)
LEMMA SortedExists ==
    ASSUME NEW S, IsFiniteSet(S), NEW R,
           \A x, y \in S : x # y => <<x, y>> \in R \/ <<y, x>> \in R,
           \A x, y, z \in S : <<x, y>> \in R /\ <<y, z>> \in R => <<x, z>> \in R
    PROVE  \E f \in [1 .. Cardinality(S) -> S] : InOrder(f, Cardinality(S), R)
<1> DEFINE Has(n) == \A T \in SUBSET S : Cardinality(T) = n =>
                        \E f \in [1 .. n -> T] : InOrder(f, n, R)
           Bad == {n \in Nat : ~Has(n)}
<1>1. Has(0)
  <2> TAKE T \in SUBSET S
  <2> HAVE Cardinality(T) = 0
  <2>1. T = {}
    BY FS_Subset, FS_EmptySet
  <2>2. [i \in {} |-> 0] \in [1 .. 0 -> T]
    OBVIOUS
  <2>3. InOrder([i \in {} |-> 0], 0, R)
    BY DEF InOrder
  <2> QED
    BY <2>2, <2>3
<1>2. ASSUME NEW n \in Nat \ {0}, Has(n - 1)
      PROVE  Has(n)
  <2> TAKE T \in SUBSET S
  <2> HAVE Cardinality(T) = n
  <2>0. IsFiniteSet(T)
    BY FS_Subset
  <2>1. PICK x : x \in T
    BY <2>0, FS_EmptySet
  <2> DEFINE U == T \ {x}
  <2>2. Cardinality(U) = n - 1 /\ U \in SUBSET S
    BY <2>0, <2>1, FS_RemoveElement
  <2>3. PICK f \in [1 .. (n - 1) -> U] : InOrder(f, n - 1, R)
    BY <1>2, <2>2
  <2> DEFINE Over == {i \in 1 .. n : i = n \/ <<f[i], x>> \notin R}
  <2>4. PICK p \in Over : \A q \in Over : p <= q
    <3>1. Over \in SUBSET Nat /\ n \in Over
      OBVIOUS
    <3> QED
      BY <3>1, NatMin
  <2> DEFINE g == [i \in 1 .. n |-> IF i < p THEN f[i] ELSE IF i = p THEN x ELSE f[i - 1]]
  <2>5. \A i \in 1 .. (n - 1) : f[i] \in U /\ f[i] \in S /\ f[i] \in T /\ f[i] # x
    BY <2>3
  <2>6. p \in 1 .. n
    OBVIOUS
  <2>7. \A i \in 1 .. n : g[i] \in T
    <3> TAKE i \in 1 .. n
    <3>1. CASE i < p
      BY <2>5, <2>6, <3>1
    <3>2. CASE i = p
      BY <2>1, <3>2
    <3>3. CASE i > p
      <4>1. i - 1 \in 1 .. (n - 1)
        BY <2>6, <3>3
      <4> QED
        BY <2>5, <2>6, <3>3, <4>1
    <3> QED
      BY <2>6, <3>1, <3>2, <3>3
  <2>8. \A i \in 1 .. (p - 1) : <<f[i], x>> \in R
    <3> TAKE i \in 1 .. (p - 1)
    <3>1. i \in 1 .. n /\ ~(p <= i) /\ i # n
      BY <2>6
    <3> QED
      BY <2>4, <3>1
  <2>9. \A i \in p .. (n - 1) : <<x, f[i]>> \in R
    <3> TAKE i \in p .. (n - 1)
    <3>1. p \in 1 .. (n - 1) /\ i \in 1 .. (n - 1)
      BY <2>6
    <3>2. <<f[p], x>> \notin R
      BY <2>4, <3>1
    <3>3. <<x, f[p]>> \in R
      BY <2>1, <2>5, <3>1, <3>2
    <3>4. CASE i = p
      BY <3>3, <3>4
    <3>5. CASE i # p
      <4>1. <<f[p], f[i]>> \in R
        BY <2>3, <3>1, <3>5 DEF InOrder
      <4> QED
        BY <2>1, <2>5, <3>1, <3>3, <4>1
    <3> QED
      BY <3>4, <3>5
  <2>10. InOrder(g, n, R)
    <3> SUFFICES ASSUME NEW i \in 1 .. n, NEW j \in 1 .. n, i < j
                 PROVE  <<g[i], g[j]>> \in R
      BY DEF InOrder
    <3>1. CASE j < p
      <4>1. i \in 1 .. (n - 1) /\ j \in 1 .. (n - 1) /\ i < p
        BY <2>6, <3>1
      <4>2. g[i] = f[i] /\ g[j] = f[j]
        BY <3>1, <4>1
      <4> QED
        BY <2>3, <4>1, <4>2 DEF InOrder
    <3>2. CASE j = p
      <4>1. i \in 1 .. (p - 1) /\ i < p
        BY <2>6, <3>2
      <4>2. g[i] = f[i] /\ g[j] = x
        BY <2>6, <3>2, <4>1
      <4> QED
        BY <2>8, <4>1, <4>2
    <3>3. CASE j > p /\ i = p
      <4>1. j - 1 \in p .. (n - 1)
        BY <2>6, <3>3
      <4>2. g[i] = x /\ g[j] = f[j - 1]
        BY <2>6, <3>3
      <4> QED
        BY <2>9, <4>1, <4>2
    <3>4. CASE j > p /\ i # p
      <4> DEFINE h == IF i < p THEN i ELSE i - 1
      <4>1. h \in 1 .. (n - 1) /\ j - 1 \in 1 .. (n - 1) /\ h < j - 1
        BY <2>6, <3>4
      <4>2. g[i] = f[h] /\ g[j] = f[j - 1]
        BY <2>6, <3>4
      <4> QED
        BY <2>3, <4>1, <4>2 DEF InOrder
    <3> QED
      BY <2>6, <3>1, <3>2, <3>3, <3>4
  <2>11. g \in [1 .. n -> T]
    BY <2>7
  <2> HIDE DEF g
  <2> QED
    BY <2>10, <2>11
<1>3. Bad = {}
  <2> HIDE DEF Has
  <2> SUFFICES ASSUME Bad # {} PROVE FALSE
    OBVIOUS
  <2>1. PICK m \in Bad : \A k \in Bad : m <= k
    <3>1. Bad \in SUBSET Nat
      OBVIOUS
    <3> QED
      BY <3>1, NatMin
  <2>2. m \in Nat \ {0} /\ ~Has(m)
    BY <1>1, <2>1
  <2>3. Has(m - 1)
    BY <2>1, <2>2
  <2> QED
    BY <1>2, <2>2, <2>3
<1>4. Cardinality(S) \in Nat
  BY FS_CardinalityType
<1> QED
  BY <1>3, <1>4

--------------------------------------------------------------------------------
(* The inductive invariant: one version per key and timestamp, and the     *)
(* sorted map holds exactly those.                                         *)
Stored == [key : Keys, ts : Timestamps, val : Values \cup {Tombstone}]
Exact ==
    /\ store \subseteq Stored
    /\ \A r, q \in store : r.key = q.key /\ r.ts = q.ts => r = q
    /\ IsFiniteSet(db)
    /\ DbHoldsVersions

Entry(r) == [k |-> encode_versioned_key(r.key, r.ts), v |-> r.val]

(* A version can be read back from its entry.                              *)
LEMMA EntryBack ==
    ASSUME NEW r \in Stored
    PROVE  /\ r.key \in Keys /\ r.key \in Seq(Byte) /\ r.ts \in Timestamps
           /\ extract_key_prefix(Entry(r).k) = r.key
           /\ decode_versioned_timestamp(Entry(r).k) = r.ts
           /\ Entry(r).v = r.val
           /\ r = [key |-> r.key, ts |-> r.ts, val |-> r.val]
           /\ Entry(r).k \in Seq(Byte)
<1>1. r.key \in Keys /\ r.ts \in Timestamps /\ r = [key |-> r.key, ts |-> r.ts, val |-> r.val]
  BY DEF Stored
<1>2. r.key \in Seq(Byte)
  BY <1>1, EncodingAssumption
<1>3. Entry(r).k = encode_versioned_key(r.key, r.ts) /\ Entry(r).v = r.val
  BY DEF Entry
<1> QED
  BY <1>1, <1>2, <1>3, Decoded, Encoded

(* The entries of the map, by version.                                     *)
LEMMA DbEntries ==
    ASSUME Exact
    PROVE  /\ \A r \in store : r \in Stored /\ Entry(r) \in db
           /\ \A e \in db : \E r \in store : e = Entry(r)
<1>1. db = {Entry(r) : r \in store}
  BY DEF Exact, DbHoldsVersions, Entry
<1>2. \A r \in store : r \in Stored
  BY DEF Exact
<1> QED
  BY <1>1, <1>2

(* RocksDB's order is a strict total order of the entries.                 *)
LEMMA DbOrder ==
    ASSUME PrefixFree, Exact
    PROVE  /\ \A a, b \in db : a # b => BytesLess(a.k, b.k) \/ BytesLess(b.k, a.k)
           /\ \A a, b, c \in db : BytesLess(a.k, b.k) /\ BytesLess(b.k, c.k) => BytesLess(a.k, c.k)
           /\ \A a \in db : ~BytesLess(a.k, a.k)
<1>1. \A r, q \in store : BytesLess(Entry(r).k, Entry(q).k) <=> Before(r.key, r.ts, q.key, q.ts)
  <2> TAKE r \in store, q \in store
  <2>1. r.key \in Keys /\ q.key \in Keys /\ r.ts \in Timestamps /\ q.ts \in Timestamps
    BY DbEntries, EntryBack
  <2> QED
    BY <2>1, Order DEF Entry
<1>2. ASSUME NEW a \in db, NEW b \in db, a # b
      PROVE  BytesLess(a.k, b.k) \/ BytesLess(b.k, a.k)
  <2>1. PICK r \in store, q \in store : a = Entry(r) /\ b = Entry(q)
    BY DbEntries
  <2>2. r.key # q.key \/ r.ts # q.ts
    BY <1>2, <2>1 DEF Exact
  <2>3. r.key \in Keys /\ q.key \in Keys /\ r.ts \in Timestamps /\ q.ts \in Timestamps
    BY DbEntries, EntryBack
  <2> QED
    BY <1>1, <2>1, <2>2, <2>3, BeforeTotal
<1>3. ASSUME NEW a \in db, NEW b \in db, NEW c \in db, BytesLess(a.k, b.k), BytesLess(b.k, c.k)
      PROVE  BytesLess(a.k, c.k)
  <2>1. PICK r \in store, q \in store, o \in store : a = Entry(r) /\ b = Entry(q) /\ c = Entry(o)
    BY DbEntries
  <2>2. /\ r.key \in Keys /\ q.key \in Keys /\ o.key \in Keys
        /\ r.ts \in Timestamps /\ q.ts \in Timestamps /\ o.ts \in Timestamps
    BY DbEntries, EntryBack
  <2> QED
    BY <1>1, <1>3, <2>1, <2>2, BeforeTrans
<1>4. ASSUME NEW a \in db PROVE ~BytesLess(a.k, a.k)
  <2>1. PICK r \in store : a = Entry(r)
    BY DbEntries
  <2>2. r.key \in Keys /\ r.ts \in Timestamps
    BY DbEntries, EntryBack
  <2>3. r.ts \in Int
    BY <2>2 DEF Timestamps
  <2> QED
    BY <1>1, <2>1, <2>2, <2>3, BeforeGroups
<1> QED
  BY <1>2, <1>3, <1>4

(* The iterator meets every entry at or above its start, in order.         *)
LEMMA Scanned ==
    ASSUME PrefixFree, Exact, NEW start
    PROVE  \E n \in Nat :
              /\ ScanFrom(start) \in [1 .. n -> db]
              /\ \A i, j \in 1 .. n : i < j => BytesLess(ScanFrom(start)[i].k, ScanFrom(start)[j].k)
              /\ \A i \in 1 .. n : ~BytesLess(ScanFrom(start)[i].k, start)
              /\ \A e \in db : ~BytesLess(e.k, start) => \E i \in 1 .. n : ScanFrom(start)[i] = e
<1> DEFINE ahead == {e \in db : ~BytesLess(e.k, start)}
           n == Cardinality(ahead)
           Asc(s) == \A i, j \in DOMAIN s : i < j => BytesLess(s[i].k, s[j].k)
           R == {ab \in ahead \X ahead : BytesLess(ab[1].k, ab[2].k)}
<1>1. IsFiniteSet(ahead) /\ n \in Nat
  <2>1. IsFiniteSet(db) /\ ahead \in SUBSET db
    BY DEF Exact
  <2>2. IsFiniteSet(ahead)
    BY <2>1, FS_Subset
  <2> QED
    BY <2>2, FS_CardinalityType
<1>2. \A a, b \in ahead : <<a, b>> \in R <=> BytesLess(a.k, b.k)
  OBVIOUS
<1>3. \E f \in [1 .. n -> ahead] : InOrder(f, n, R)
  <2>1. \A x, y \in ahead : x # y => <<x, y>> \in R \/ <<y, x>> \in R
    <3> HIDE DEF R
    <3> QED
      BY <1>2, DbOrder
  <2>2. \A x, y, z \in ahead : <<x, y>> \in R /\ <<y, z>> \in R => <<x, z>> \in R
    <3> HIDE DEF R
    <3> QED
      BY <1>2, DbOrder
  <2> HIDE DEF R, ahead
  <2> QED
    BY <1>1, <2>1, <2>2, SortedExists
<1>4. \E f \in [1 .. n -> ahead] : Asc(f)
  <2>1. PICK f \in [1 .. n -> ahead] : InOrder(f, n, R)
    BY <1>3
  <2>2. DOMAIN f = 1 .. n /\ \A i \in 1 .. n : f[i] \in ahead
    OBVIOUS
  <2> HIDE DEF R, ahead, n
  <2>3. Asc(f)
    BY <1>2, <2>1, <2>2 DEF InOrder
  <2> QED
    BY <2>3
<1> DEFINE s == ScanFrom(start)
<1>5. s \in [1 .. n -> ahead] /\ Asc(s)
  <2>1. s = CHOOSE f \in [1 .. n -> ahead] : Asc(f)
    BY DEF ScanFrom
  <2> HIDE DEF s, n, ahead, Asc
  <2> QED
    BY <1>4, <2>1
<1> HIDE DEF s
<1>6. DOMAIN s = 1 .. n /\ \A i \in 1 .. n : s[i] \in ahead
  BY <1>5
<1>7. s \in Injection(1 .. n, ahead)
  <2>1. \A i, j \in 1 .. n : i < j => s[i] # s[j]
    BY <1>5, <1>6, DbOrder
  <2>2. \A i, j \in 1 .. n : s[i] = s[j] => i = j
    <3> TAKE i \in 1 .. n, j \in 1 .. n
    <3>1. i < j \/ j < i \/ i = j
      BY <1>1
    <3> QED
      BY <2>1, <3>1
  <2> HIDE DEF n, ahead
  <2>3. IsInjective(s)
    BY <1>6, <2>2 DEF IsInjective
  <2> QED
    BY <1>5, <2>3 DEF Injection
<1>8. s \in Surjection(1 .. n, ahead)
  <2>1. Cardinality(1 .. n) = n
    <3> HIDE DEF n
    <3> QED
      BY <1>1, FS_Interval
  <2> HIDE DEF ahead
  <2>2. Cardinality(1 .. n) = Cardinality(ahead) => s \in Surjection(1 .. n, ahead)
    BY <1>1, <1>7, FS_Injection
  <2> QED
    BY <2>1, <2>2
<1>9. \A e \in ahead : \E i \in 1 .. n : s[i] = e
  <2> HIDE DEF n, ahead
  <2> QED
    BY <1>8, <1>6 DEF Surjection
<1>10. s \in [1 .. n -> db]
  BY <1>5
<1>11. \A i, j \in 1 .. n : i < j => BytesLess(s[i].k, s[j].k)
  BY <1>5, <1>6
<1>12. \A i \in 1 .. n : ~BytesLess(s[i].k, start)
  BY <1>6
<1>13. \A e \in db : ~BytesLess(e.k, start) => \E i \in 1 .. n : s[i] = e
  BY <1>9
<1> HIDE DEF n, ahead
<1> QED
  BY <1>1, <1>10, <1>11, <1>12, <1>13 DEF s

(* The first of some positions.                                            *)
LEMMA FirstIs ==
    ASSUME NEW S \in SUBSET Nat, S # {}
    PROVE  First(S) \in S /\ \A y \in S : First(S) <= y
  BY NatMin DEF First

(* A loop that breaks sees the items before the first one that stops it.   *)
LEMMA Untils ==
    ASSUME NEW S, NEW s \in Seq(S), NEW ends
    PROVE  \E m \in 0 .. Len(s) :
              /\ Until(s, ends) \in Seq(S) /\ Len(Until(s, ends)) = m
              /\ \A i \in 1 .. m : Until(s, ends)[i] = s[i] /\ s[i] \notin ends
              /\ m < Len(s) => s[m + 1] \in ends
<1> DEFINE stops == {i \in 1 .. Len(s) : s[i] \in ends}
<1>0. Len(s) \in Nat
  OBVIOUS
<1>1. CASE stops = {}
  <2>1. Until(s, ends) = s
    BY <1>1 DEF Until
  <2>2. \A i \in 1 .. Len(s) : s[i] \notin ends
    BY <1>1
  <2> QED
    BY <1>0, <2>1, <2>2
<1>2. CASE stops # {}
  <2> DEFINE f == First(stops)
  <2>1. f \in stops /\ \A y \in stops : f <= y
    <3>1. stops \in SUBSET Nat
      OBVIOUS
    <3> QED
      BY <1>2, <3>1, FirstIs
  <2>2. Until(s, ends) = SubSeq(s, 1, f - 1)
    BY <1>2 DEF Until
  <2> HIDE DEF f
  <2>3. f \in 1 .. Len(s) /\ s[f] \in ends /\ f - 1 \in 0 .. Len(s) /\ (f - 1) + 1 = f
    BY <1>0, <2>1
  <2>4. \A i \in 1 .. (f - 1) : s[i] \notin ends
    <3> TAKE i \in 1 .. (f - 1)
    <3>1. i \in 1 .. Len(s) /\ ~(f <= i)
      BY <1>0, <2>3
    <3> QED
      BY <2>1, <3>1
  <2>5. /\ SubSeq(s, 1, f - 1) \in Seq(S) /\ Len(SubSeq(s, 1, f - 1)) = f - 1
        /\ \A i \in 1 .. (f - 1) : SubSeq(s, 1, f - 1)[i] = s[i]
    BY <1>0, <2>3
  <2> QED
    BY <2>2, <2>3, <2>4, <2>5
<1> QED
  BY <1>1, <1>2

(* The iterator starts at or below every entry whose key has the prefix.   *)
LEMMA StartsBelow ==
    ASSUME NEW p \in Seq(Byte), NEW k \in Seq(Byte), NEW ts \in Timestamps, IsPrefix(p, k)
    PROVE  ~BytesLess(encode_versioned_key(k, ts), encode_versioned_key(p, MAX))
<1> DEFINE x == encode_versioned_key(k, ts)
           y == encode_versioned_key(p, MAX)
<1>0. Width \in Nat \ {0} /\ Base \in Nat \ {0} /\ MAX \in Timestamps /\ 0 \in Timestamps /\ MAX - MAX = 0
  BY EncodingAssumption, Powers DEF MAX, Timestamps
<1>1. /\ x \in Seq(Byte) /\ Len(x) = Len(k) + Width
      /\ \A i \in 1 .. Len(k) : x[i] = k[i]
  BY Encoded
<1>2. /\ y \in Seq(Byte) /\ Len(y) = Len(p) + Width
      /\ \A i \in 1 .. Len(p) : y[i] = p[i]
      /\ \A i \in 1 .. Width : y[Len(p) + i] = BigEndian(MAX - MAX)[i]
  BY <1>0, Encoded
<1>3. \A i \in 1 .. Width : BigEndian(0)[i] = 0
  <2> TAKE i \in 1 .. Width
  <2>1. Pow[Width - i] \in Nat \ {0}
    BY <1>0, Powers
  <2>2. 0 \div Pow[Width - i] = 0
    BY <2>1
  <2>3. 0 % Base = 0
    BY <1>0
  <2> QED
    BY <2>2, <2>3 DEF BigEndian
<1> HIDE DEF x, y
<1>4. Len(p) \in Nat /\ Len(k) \in Nat /\ Len(p) <= Len(k) /\ \A i \in 1 .. Len(p) : p[i] = k[i]
  BY PrefixIs
<1>5. ~IsStrictPrefix(x, y)
  <2> SUFFICES ASSUME IsPrefix(x, y) PROVE x = y
    BY DEF IsStrictPrefix
  <2>1. Len(x) <= Len(y) /\ \A i \in 1 .. Len(x) : x[i] = y[i]
    BY <1>1, <1>2, PrefixIs
  <2>2. Len(x) = Len(y)
    BY <1>0, <1>1, <1>2, <1>4, <2>1
  <2> QED
    BY <1>1, <1>2, <2>1, <2>2, SeqEqual
<1>6. ASSUME NEW i \in 1 .. Len(x), SplitsAt(x, y, i) PROVE FALSE
  <2>1. i <= Len(y) /\ x[i] < y[i] /\ x[i] \in Byte
    BY <1>1, <1>6 DEF SplitsAt
  <2>2. x[i] \in Int /\ x[i] >= 0
    BY <2>1, EncodingAssumption DEF Byte
  <2>3. CASE i \in 1 .. Len(p)
    <3>1. i \in 1 .. Len(k)
      BY <1>4, <2>3
    <3>2. x[i] = y[i]
      BY <1>1, <1>2, <1>4, <2>3, <3>1
    <3> QED
      BY <2>1, <2>2, <3>2
  <2>4. CASE i > Len(p)
    <3>1. i - Len(p) \in 1 .. Width /\ Len(p) + (i - Len(p)) = i
      BY <1>0, <1>1, <1>2, <1>4, <2>1, <2>4
    <3>2. y[i] = 0
      BY <1>0, <1>2, <1>3, <3>1
    <3> QED
      BY <2>1, <2>2, <3>2
  <2> QED
    BY <1>4, <2>3, <2>4
<1> QED
  BY <1>1, <1>2, <1>5, <1>6, LessIs DEF Splits, x, y

(* An entry without the prefix that comes before one with it lies below    *)
(* the start of the iterator.                                              *)
LEMMA OthersLater ==
    ASSUME NEW p \in Seq(Byte), NEW k \in Seq(Byte), NEW l \in Seq(Byte),
           NEW s \in Timestamps, NEW t \in Timestamps,
           IsPrefix(p, l), ~IsPrefix(p, k), Before(k, s, l, t)
    PROVE  BytesLess(encode_versioned_key(k, s), encode_versioned_key(p, MAX))
<1>0. MAX \in Timestamps
  BY EncodingAssumption, Powers DEF MAX, Timestamps
<1>1. Splits(k, l)
  BY DEF Before
<1>2. PICK i \in 1 .. Len(k) : SplitsAt(k, l, i)
  BY <1>1 DEF Splits
<1>3. Len(p) \in Nat /\ Len(l) \in Nat /\ Len(p) <= Len(l) /\ \A j \in 1 .. Len(p) : p[j] = l[j]
  BY PrefixIs
<1>4. i <= Len(p)
  <2> SUFFICES ASSUME i > Len(p) PROVE FALSE
    BY <1>3
  <2>1. Len(p) <= Len(k) /\ \A j \in 1 .. Len(p) : p[j] = k[j]
    <3>1. \A j \in 1 .. Len(p) : j \in 1 .. (i - 1)
      BY <1>3
    <3> QED
      BY <1>2, <1>3, <3>1 DEF SplitsAt
  <2> QED
    BY <2>1, PrefixIs
<1>5. SplitsAt(k, p, i)
  <2>1. i \in 1 .. Len(p) /\ \A j \in 1 .. (i - 1) : j \in 1 .. Len(p)
    BY <1>3, <1>4
  <2>2. k[i] < p[i]
    BY <1>2, <1>3, <2>1 DEF SplitsAt
  <2>3. \A j \in 1 .. (i - 1) : k[j] = p[j]
    BY <1>2, <1>3, <2>1 DEF SplitsAt
  <2> QED
    BY <2>1, <2>2, <2>3 DEF SplitsAt
<1>6. Before(k, s, p, MAX)
  BY <1>5 DEF Before, Splits
<1>7. Splits(encode_versioned_key(k, s), encode_versioned_key(p, MAX))
  BY <1>0, <1>6, BeforeSplits
<1> QED
  BY <1>0, <1>7, LessIs, Encoded

--------------------------------------------------------------------------------
KeyAt(items, i) == extract_key_prefix(items[i].k)
TsAt(items, i) == decode_versioned_timestamp(items[i].k)
VersionAt(items, i) == [key |-> KeyAt(items, i), ts |-> TsAt(items, i), val |-> items[i].v]

(* The items of a scan are the versions of the keys with the prefix, the   *)
(* versions of one key one after the other, the newest first.              *)
Lists(items, p) ==
    /\ items \in Seq(db)
    /\ \A i \in 1 .. Len(items) : /\ VersionAt(items, i) \in store
                                  /\ items[i] = Entry(VersionAt(items, i))
                                  /\ IsPrefix(p, KeyAt(items, i))
    /\ \A r \in store : IsPrefix(p, r.key) => \E i \in 1 .. Len(items) : VersionAt(items, i) = r
    /\ \A i, j \in 1 .. Len(items) :
          i < j /\ KeyAt(items, i) = KeyAt(items, j) => TsAt(items, i) > TsAt(items, j)
    /\ \A h, i, j \in 1 .. Len(items) :
          h < i /\ i < j /\ KeyAt(items, h) = KeyAt(items, j) => KeyAt(items, i) = KeyAt(items, h)

(* What prefix_scan_at and gc_before iterate over is such a list.          *)
LEMMA Listed ==
    ASSUME PrefixFree, Exact, NEW p \in Seq(Byte)
    PROVE  Lists(PrefixItems(p), p)
<1> DEFINE start == encode_versioned_key(p, MAX)
           s == ScanFrom(start)
           ends == {e \in db : ~IsPrefix(p, extract_key_prefix(e.k))}
           items == PrefixItems(p)
<1>1. PICK n \in Nat :
         /\ s \in [1 .. n -> db]
         /\ \A i, j \in 1 .. n : i < j => BytesLess(s[i].k, s[j].k)
         /\ \A i \in 1 .. n : ~BytesLess(s[i].k, start)
         /\ \A e \in db : ~BytesLess(e.k, start) => \E i \in 1 .. n : s[i] = e
  BY Scanned
<1>2. items = Until(s, ends)
  BY DEF PrefixItems
<1> HIDE DEF s, items
<1>3. s \in Seq(db) /\ Len(s) = n
  <2>1. s \in Seq(db)
    BY <1>1, SeqDef
  <2>2. DOMAIN s = 1 .. n
    BY <1>1
  <2> QED
    BY <2>1, <2>2, LenProperties
<1>4. PICK m \in 0 .. n :
         /\ items \in Seq(db) /\ Len(items) = m
         /\ \A i \in 1 .. m : items[i] = s[i] /\ s[i] \notin ends
         /\ m < n => s[m + 1] \in ends
  <2> HIDE DEF ends
  <2> QED
    BY <1>2, <1>3, Untils
<1>5. \A i \in 1 .. n : \E r \in store : s[i] = Entry(r)
  BY <1>1, DbEntries
<1>6. \A i \in 1 .. n : /\ VersionAt(s, i) \in store /\ s[i] = Entry(VersionAt(s, i))
                        /\ KeyAt(s, i) = VersionAt(s, i).key /\ TsAt(s, i) = VersionAt(s, i).ts
                        /\ KeyAt(s, i) \in Keys /\ KeyAt(s, i) \in Seq(Byte) /\ TsAt(s, i) \in Timestamps
                        /\ s[i].k = encode_versioned_key(KeyAt(s, i), TsAt(s, i))
  <2> TAKE i \in 1 .. n
  <2>1. PICK r \in store : s[i] = Entry(r)
    BY <1>5
  <2>2. r \in Stored
    BY DbEntries
  <2>3. KeyAt(s, i) = r.key /\ TsAt(s, i) = r.ts /\ s[i].v = r.val
    BY <2>1, <2>2, EntryBack DEF KeyAt, TsAt
  <2>4. VersionAt(s, i) = r
    BY <2>2, <2>3, EntryBack DEF VersionAt
  <2>5. s[i].k = encode_versioned_key(r.key, r.ts)
    BY <2>1 DEF Entry
  <2> QED
    BY <2>1, <2>2, <2>3, <2>4, <2>5, EntryBack
<1>7. \A i, j \in 1 .. n : i < j => Before(KeyAt(s, i), TsAt(s, i), KeyAt(s, j), TsAt(s, j))
  <2> TAKE i \in 1 .. n, j \in 1 .. n
  <2> HAVE i < j
  <2>1. BytesLess(s[i].k, s[j].k)
    BY <1>1
  <2>2. BytesLess(encode_versioned_key(KeyAt(s, i), TsAt(s, i)),
                  encode_versioned_key(KeyAt(s, j), TsAt(s, j)))
    BY <1>6, <2>1
  <2> QED
    BY <1>6, <2>2, Order
<1>8. \A i \in 1 .. m : /\ i \in 1 .. n /\ KeyAt(items, i) = KeyAt(s, i) /\ TsAt(items, i) = TsAt(s, i)
                        /\ VersionAt(items, i) = VersionAt(s, i) /\ items[i] = s[i]
  <2> TAKE i \in 1 .. m
  <2>1. i \in 1 .. n
    BY <1>4
  <2> QED
    BY <1>4, <2>1 DEF KeyAt, TsAt, VersionAt
<1>9. \A i \in 1 .. m : IsPrefix(p, KeyAt(items, i))
  <2> TAKE i \in 1 .. m
  <2>1. s[i] \in db /\ s[i] \notin ends
    BY <1>1, <1>4, <1>8
  <2> QED
    BY <1>8, <2>1 DEF KeyAt
<1>10. ASSUME NEW r \in store, IsPrefix(p, r.key)
       PROVE  \E i \in 1 .. m : VersionAt(items, i) = r
  <2>1. r \in Stored /\ Entry(r) \in db
    BY DbEntries
  <2>2. /\ r.key \in Seq(Byte) /\ r.ts \in Timestamps /\ Entry(r).k = encode_versioned_key(r.key, r.ts)
        /\ extract_key_prefix(Entry(r).k) = r.key /\ decode_versioned_timestamp(Entry(r).k) = r.ts
        /\ Entry(r).v = r.val /\ r = [key |-> r.key, ts |-> r.ts, val |-> r.val]
    BY <2>1, EntryBack DEF Entry
  <2>3. ~BytesLess(Entry(r).k, start)
    BY <1>10, <2>2, StartsBelow
  <2>4. PICK j \in 1 .. n : s[j] = Entry(r)
    BY <1>1, <2>1, <2>3
  <2>5. KeyAt(s, j) = r.key /\ TsAt(s, j) = r.ts /\ VersionAt(s, j) = r
    BY <2>2, <2>4 DEF KeyAt, TsAt, VersionAt
  <2>6. j <= m
    <3> SUFFICES ASSUME m < j PROVE FALSE
      BY <1>4
    <3>1. m + 1 \in 1 .. n /\ m + 1 <= j
      BY <1>4
    <3>2. s[m + 1] \in ends
      BY <1>4, <3>1
    <3>3. ~IsPrefix(p, KeyAt(s, m + 1))
      BY <3>2 DEF KeyAt
    <3>4. m + 1 < j
      BY <1>10, <2>5, <3>1, <3>3
    <3>5. Before(KeyAt(s, m + 1), TsAt(s, m + 1), r.key, r.ts)
      BY <1>7, <2>5, <3>1, <3>4
    <3>6. BytesLess(s[m + 1].k, start)
      BY <1>6, <1>10, <2>2, <3>1, <3>3, <3>5, OthersLater
    <3> QED
      BY <1>1, <3>1, <3>6
  <2>7. j \in 1 .. m
    BY <1>4, <2>6
  <2> QED
    BY <1>8, <2>5, <2>7
<1>11. ASSUME NEW i \in 1 .. m, NEW j \in 1 .. m, i < j, KeyAt(items, i) = KeyAt(items, j)
       PROVE  TsAt(items, i) > TsAt(items, j)
  <2>1. Before(KeyAt(s, i), TsAt(s, i), KeyAt(s, i), TsAt(s, j))
    BY <1>7, <1>8, <1>11
  <2> QED
    BY <1>6, <1>8, <2>1, BeforeGroups
<1>12. ASSUME NEW h \in 1 .. m, NEW i \in 1 .. m, NEW j \in 1 .. m,
              h < i, i < j, KeyAt(items, h) = KeyAt(items, j)
       PROVE  KeyAt(items, i) = KeyAt(items, h)
  <2>1. /\ Before(KeyAt(s, h), TsAt(s, h), KeyAt(s, i), TsAt(s, i))
        /\ Before(KeyAt(s, i), TsAt(s, i), KeyAt(s, h), TsAt(s, j))
    BY <1>7, <1>8, <1>12
  <2> QED
    BY <1>6, <1>8, <2>1, BeforeGroups
<1>13. \A i \in 1 .. m : VersionAt(items, i) \in store /\ items[i] = Entry(VersionAt(items, i))
  BY <1>6, <1>8
<1>14. Lists(items, p)
  BY <1>4, <1>9, <1>10, <1>11, <1>12, <1>13 DEF Lists
<1> QED
  BY <1>14 DEF items

--------------------------------------------------------------------------------
(* get_at's scan over a key is the scan over the key as a prefix.          *)
LEMMA GetItems ==
    ASSUME PrefixFree, Exact, NEW key \in Keys
    PROVE  Until(ScanFrom(encode_versioned_key(key, MAX)),
                 {e \in db : extract_key_prefix(e.k) # key}) = PrefixItems(key)
<1>1. \A e \in db : extract_key_prefix(e.k) \in Keys
  <2> TAKE e \in db
  <2>1. PICK r \in store : e = Entry(r) /\ r \in Stored
    BY DbEntries
  <2> QED
    BY <2>1, EntryBack
<1>2. \A k \in Keys : IsPrefix(key, k) <=> k = key
  <2>1. IsPrefix(key, key)
    BY PrefixIs, EncodingAssumption
  <2> QED
    BY <2>1 DEF PrefixFree
<1>3. {e \in db : extract_key_prefix(e.k) # key} = {e \in db : ~IsPrefix(key, extract_key_prefix(e.k))}
  BY <1>1, <1>2
<1> QED
  BY <1>3 DEF PrefixItems

(* What the store answers: the newest version at or below the snapshot.    *)
LEMMA NewestAnswers ==
    ASSUME Exact, NEW r \in store, NEW ts \in Timestamps, r.ts <= ts,
           \A q \in store : q.key = r.key /\ q.ts <= ts => q.ts <= r.ts
    PROVE  Abstract!get_at(store, r.key, ts) = OptionOf(r.val)
<1> DEFINE vs == Abstract!VersionsAt(store, r.key, ts)
           newest == CHOOSE q \in vs : Abstract!NewestIn(vs, q)
<1>1. vs = {q \in store : q.key = r.key /\ q.ts <= ts}
  BY DEF Abstract!VersionsAt
<1>2. r \in vs /\ Abstract!NewestIn(vs, r)
  BY <1>1 DEF Abstract!NewestIn
<1>3. \A q \in vs : Abstract!NewestIn(vs, q) => q = r
  <2> TAKE q \in vs
  <2> HAVE Abstract!NewestIn(vs, q)
  <2>1. q \in store /\ q.key = r.key /\ q.ts <= r.ts /\ r.ts <= q.ts
    BY <1>1, <1>2 DEF Abstract!NewestIn
  <2>2. q.ts \in Int /\ r.ts \in Int
    BY <2>1, DbEntries, EntryBack DEF Timestamps
  <2>3. q.ts = r.ts
    BY <2>1, <2>2
  <2> QED
    BY <2>1, <2>3 DEF Exact
<1>4. newest = r
  <2> HIDE DEF vs
  <2> QED
    BY <1>2, <1>3
<1>5. Abstract!get_at(store, r.key, ts) =
        IF vs = {} THEN Nothing ELSE IF newest.val = Tombstone THEN Nothing ELSE newest.val
  BY DEF Abstract!get_at
<1> HIDE DEF vs, newest
<1> QED
  BY <1>2, <1>4, <1>5 DEF OptionOf

(* Without such a version the answer is None.                              *)
LEMMA NothingAnswers ==
    ASSUME NEW k, NEW ts, \A q \in store : ~(q.key = k /\ q.ts <= ts)
    PROVE  Abstract!get_at(store, k, ts) = Nothing
<1>1. Abstract!VersionsAt(store, k, ts) = {}
  BY DEF Abstract!VersionsAt
<1> QED
  BY <1>1 DEF Abstract!get_at

(* The first version of its key that a scan meets at or below the snapshot.*)
FirstSeen(items, ts, j) ==
    /\ TsAt(items, j) <= ts
    /\ \A h \in 1 .. (j - 1) : KeyAt(items, h) = KeyAt(items, j) => ~(TsAt(items, h) <= ts)

(* The version behind an item.                                             *)
LEMMA ItemFacts ==
    ASSUME Exact, NEW p, NEW items, Lists(items, p), NEW i \in 1 .. Len(items)
    PROVE  /\ KeyAt(items, i) \in Keys /\ TsAt(items, i) \in Timestamps /\ TsAt(items, i) \in Int
           /\ items[i].v \in Values \cup {Tombstone} /\ items[i] \in db
           /\ VersionAt(items, i) \in store
           /\ VersionAt(items, i).key = KeyAt(items, i) /\ VersionAt(items, i).ts = TsAt(items, i)
           /\ VersionAt(items, i).val = items[i].v
<1>1. VersionAt(items, i) \in store /\ VersionAt(items, i) \in Stored /\ items[i] \in db
  BY DbEntries DEF Lists
<1>2. /\ VersionAt(items, i).key = KeyAt(items, i) /\ VersionAt(items, i).ts = TsAt(items, i)
      /\ VersionAt(items, i).val = items[i].v
  BY DEF VersionAt
<1>3. KeyAt(items, i) \in Keys /\ TsAt(items, i) \in Timestamps /\ items[i].v \in Values \cup {Tombstone}
  BY <1>1, <1>2 DEF Stored
<1> QED
  BY <1>1, <1>2, <1>3 DEF Timestamps

(* Its value is the store's answer.                                        *)
LEMMA FirstSeenAnswers ==
    ASSUME Exact, NEW p \in Seq(Byte), NEW items, Lists(items, p), NEW ts \in Timestamps,
           NEW j \in 1 .. Len(items), FirstSeen(items, ts, j)
    PROVE  Abstract!get_at(store, KeyAt(items, j), ts) = OptionOf(items[j].v)
<1> DEFINE r == VersionAt(items, j)
<1>1. r \in store /\ r.key = KeyAt(items, j) /\ r.ts = TsAt(items, j) /\ r.val = items[j].v
  BY ItemFacts
<1>2. ASSUME NEW q \in store, q.key = r.key, q.ts <= ts
      PROVE  q.ts <= r.ts
  <2>1. IsPrefix(p, q.key)
    BY <1>1, <1>2 DEF Lists
  <2>2. PICK i \in 1 .. Len(items) : VersionAt(items, i) = q
    BY <2>1 DEF Lists
  <2>3. /\ KeyAt(items, i) = q.key /\ TsAt(items, i) = q.ts /\ KeyAt(items, i) = KeyAt(items, j)
        /\ TsAt(items, i) \in Int /\ TsAt(items, j) \in Int /\ Len(items) \in Nat
    <3>1. KeyAt(items, i) = q.key /\ TsAt(items, i) = q.ts /\ TsAt(items, i) \in Int
      BY <2>2, ItemFacts
    <3>2. TsAt(items, j) \in Int
      BY ItemFacts
    <3>3. Len(items) \in Nat
      BY DEF Lists
    <3> QED
      BY <1>1, <1>2, <3>1, <3>2, <3>3
  <2>4. ~(i < j)
    <3>1. i < j => i \in 1 .. (j - 1)
      BY <2>3
    <3> QED
      BY <1>2, <2>3, <3>1 DEF FirstSeen
  <2>5. CASE i = j
    BY <1>1, <2>3, <2>5
  <2>6. CASE j < i
    <3>1. TsAt(items, j) > TsAt(items, i)
      BY <2>3, <2>6 DEF Lists
    <3> QED
      BY <1>1, <2>3, <3>1
  <2> QED
    BY <2>3, <2>4, <2>5, <2>6
<1>3. r.ts <= ts
  BY <1>1 DEF FirstSeen
<1> HIDE DEF r
<1>4. Abstract!get_at(store, r.key, ts) = OptionOf(r.val)
  BY <1>1, <1>2, <1>3, NewestAnswers
<1> QED
  BY <1>1, <1>4

(* get_at answers what the newest version at or below the snapshot says.   *)
LEMMA GetRight ==
    ASSUME PrefixFree, Exact
    PROVE  GetAgrees
<1> SUFFICES ASSUME NEW key \in Keys, NEW ts \in Timestamps
             PROVE  get_at(key, ts) = Abstract!get_at(store, key, ts)
  BY DEF GetAgrees
<1> DEFINE items == PrefixItems(key)
           hits == {i \in 1 .. Len(items) : decode_versioned_timestamp(items[i].k) <= ts}
<1>0. key \in Seq(Byte)
  BY EncodingAssumption
<1>1. Lists(items, key)
  BY <1>0, Listed
<1>2. get_at(key, ts) = IF hits = {} THEN Nothing ELSE OptionOf(items[First(hits)].v)
  BY GetItems DEF get_at
<1> HIDE DEF items
<1>3. \A i \in 1 .. Len(items) : KeyAt(items, i) = key
  <2>1. \A i \in 1 .. Len(items) : IsPrefix(key, KeyAt(items, i)) /\ KeyAt(items, i) \in Keys
    BY <1>1, ItemFacts DEF Lists
  <2> QED
    BY <2>1 DEF PrefixFree
<1>4. IsPrefix(key, key)
  BY <1>0, PrefixIs
<1>5. CASE hits = {}
  <2>1. ASSUME NEW q \in store, q.key = key, q.ts <= ts PROVE FALSE
    <3>1. PICK i \in 1 .. Len(items) : VersionAt(items, i) = q
      BY <1>1, <1>4, <2>1 DEF Lists
    <3>2. TsAt(items, i) = q.ts
      BY <1>1, <3>1, ItemFacts
    <3>3. i \in hits
      BY <2>1, <3>2 DEF TsAt
    <3> QED
      BY <1>5, <3>3
  <2> QED
    BY <1>2, <1>5, <2>1, NothingAnswers
<1>6. CASE hits # {}
  <2> DEFINE f == First(hits)
  <2>1. f \in hits /\ \A y \in hits : f <= y
    <3>1. hits \in SUBSET Nat
      OBVIOUS
    <3> QED
      BY <1>6, <3>1, FirstIs
  <2> HIDE DEF f
  <2>2. f \in 1 .. Len(items) /\ TsAt(items, f) <= ts /\ Len(items) \in Nat
    BY <1>1, <2>1 DEF TsAt, Lists
  <2>3. FirstSeen(items, ts, f)
    <3>1. ASSUME NEW h \in 1 .. (f - 1), TsAt(items, h) <= ts PROVE FALSE
      <4>1. h \in 1 .. Len(items) /\ ~(f <= h)
        BY <2>2
      <4>2. h \in hits
        BY <3>1, <4>1 DEF TsAt
      <4> QED
        BY <2>1, <4>1, <4>2
    <3> QED
      BY <2>2, <3>1 DEF FirstSeen
  <2>4. Abstract!get_at(store, KeyAt(items, f), ts) = OptionOf(items[f].v)
    BY <1>0, <1>1, <2>2, <2>3, FirstSeenAnswers
  <2>5. get_at(key, ts) = OptionOf(items[f].v)
    BY <1>2, <1>6 DEF f
  <2> QED
    BY <1>3, <2>2, <2>4, <2>5
<1> QED
  BY <1>5, <1>6

--------------------------------------------------------------------------------
(* prefix_scan_at after i items: last is the key of the last visible item, *)
(* the results are the first visible version of each key met so far,       *)
(* unless that is a tombstone.                                             *)
Result == [key : Keys, val : Values]
ScanAcc == [last : Keys \cup {Nothing}, results : Seq(Result)]

ResultOf(items, j) == [key |-> KeyAt(items, j), val |-> items[j].v]

Shown(items, ts, j) == FirstSeen(items, ts, j) /\ items[j].v # Tombstone

LastSeen(items, ts, last, i) ==
    \/ last = Nothing /\ \A g \in 1 .. i : ~(TsAt(items, g) <= ts)
    \/ \E h \in 1 .. i : /\ TsAt(items, h) <= ts /\ last = KeyAt(items, h)
                         /\ \A g \in (h + 1) .. i : ~(TsAt(items, g) <= ts)

ScanInv(items, ts, acc, i) ==
    /\ acc \in ScanAcc
    /\ LastSeen(items, ts, acc.last, i)
    /\ \A a, b \in 1 .. Len(acc.results) : acc.results[a].key = acc.results[b].key => a = b
    /\ \A a \in 1 .. Len(acc.results) :
          \E j \in 1 .. i : Shown(items, ts, j) /\ acc.results[a] = ResultOf(items, j)
    /\ \A j \in 1 .. i : Shown(items, ts, j) =>
          \E a \in 1 .. Len(acc.results) : acc.results[a] = ResultOf(items, j)

(* The key of item i is last exactly when a visible version of it was met. *)
LEMMA LastTells ==
    ASSUME Exact, NEW p \in Seq(Byte), NEW items, Lists(items, p), NEW ts \in Timestamps,
           NEW i \in 1 .. Len(items), NEW last, LastSeen(items, ts, last, i - 1)
    PROVE  KeyAt(items, i) = last <=>
              \E h \in 1 .. (i - 1) : KeyAt(items, h) = KeyAt(items, i) /\ TsAt(items, h) <= ts
<1>0. Len(items) \in Nat /\ KeyAt(items, i) \in Keys /\ KeyAt(items, i) # Nothing
  <2>1. Len(items) \in Nat
    BY DEF Lists
  <2>2. KeyAt(items, i) \in Keys
    BY ItemFacts
  <2> QED
    BY <2>1, <2>2, EncodingAssumption
<1>1. CASE last = Nothing /\ \A g \in 1 .. (i - 1) : ~(TsAt(items, g) <= ts)
  BY <1>0, <1>1
<1>2. CASE \E h \in 1 .. (i - 1) : /\ TsAt(items, h) <= ts /\ last = KeyAt(items, h)
                                   /\ \A g \in (h + 1) .. (i - 1) : ~(TsAt(items, g) <= ts)
  <2>1. PICK h \in 1 .. (i - 1) : /\ TsAt(items, h) <= ts /\ last = KeyAt(items, h)
                                  /\ \A g \in (h + 1) .. (i - 1) : ~(TsAt(items, g) <= ts)
    BY <1>2
  <2>2. ASSUME NEW g \in 1 .. (i - 1), KeyAt(items, g) = KeyAt(items, i), TsAt(items, g) <= ts
        PROVE  KeyAt(items, i) = last
    <3>1. g <= h
      <4>1. ~(g \in (h + 1) .. (i - 1))
        BY <2>1, <2>2
      <4> QED
        BY <1>0, <4>1
    <3>2. CASE g = h
      BY <2>1, <2>2, <3>2
    <3>3. CASE g < h
      <4>1. g \in 1 .. Len(items) /\ h \in 1 .. Len(items) /\ h < i
        BY <1>0
      <4>2. KeyAt(items, h) = KeyAt(items, g)
        BY <2>2, <3>3, <4>1 DEF Lists
      <4> QED
        BY <2>1, <2>2, <4>2
    <3> QED
      BY <3>1, <3>2, <3>3
  <2> QED
    BY <2>1, <2>2
<1> QED
  BY <1>1, <1>2 DEF LastSeen

(* A turn of prefix_scan_at keeps the loop invariant.                      *)
LEMMA ScanStepKeeps ==
    ASSUME Exact, NEW p \in Seq(Byte), NEW items, Lists(items, p), NEW ts \in Timestamps,
           NEW i \in 1 .. Len(items), NEW acc, ScanInv(items, ts, acc, i - 1)
    PROVE  ScanInv(items, ts, ScanStep(acc, items[i], ts), i)
<1> DEFINE k == KeyAt(items, i)
           res == acc.results
<1>0. Len(items) \in Nat /\ i \in 1 .. i /\ \A j \in 1 .. (i - 1) : j \in 1 .. i /\ j \in 1 .. Len(items)
  BY DEF Lists
<1>1. k \in Keys /\ TsAt(items, i) \in Int /\ ts \in Int /\ items[i].v \in Values \cup {Tombstone}
  BY ItemFacts DEF Timestamps
<1>2. /\ acc \in ScanAcc /\ acc.last \in Keys \cup {Nothing} /\ res \in Seq(Result) /\ Len(res) \in Nat
      /\ LastSeen(items, ts, acc.last, i - 1)
  BY DEF ScanInv, ScanAcc
<1>3. k = acc.last <=> \E h \in 1 .. (i - 1) : KeyAt(items, h) = k /\ TsAt(items, h) <= ts
  BY <1>2, LastTells
<1>4. FirstSeen(items, ts, i) <=> TsAt(items, i) <= ts /\ k # acc.last
  BY <1>3 DEF FirstSeen
<1>5. \A j \in 1 .. i : j = i \/ j \in 1 .. (i - 1)
  BY <1>0
<1>6. CASE k = acc.last \/ TsAt(items, i) > ts
  <2>1. ScanStep(acc, items[i], ts) = acc
    BY <1>6 DEF ScanStep, KeyAt, TsAt
  <2>2. ~Shown(items, ts, i)
    BY <1>1, <1>4, <1>6 DEF Shown
  <2>3. LastSeen(items, ts, acc.last, i)
    <3>1. CASE TsAt(items, i) > ts
      <4>1. ~(TsAt(items, i) <= ts)
        BY <1>1, <3>1
      <4>2. \A h \in 1 .. (i - 1) : \A g \in (h + 1) .. i : g = i \/ g \in (h + 1) .. (i - 1)
        BY <1>0
      <4> QED
        BY <1>0, <1>2, <1>5, <4>1, <4>2 DEF LastSeen
    <3>2. CASE k = acc.last /\ TsAt(items, i) <= ts
      <4>1. (i + 1) .. i = {}
        BY <1>0
      <4> QED
        BY <1>0, <3>2, <4>1 DEF LastSeen
    <3> QED
      BY <1>1, <1>6, <3>1, <3>2
  <2> QED
    BY <1>0, <1>5, <2>1, <2>2, <2>3 DEF ScanInv
<1>7. CASE k # acc.last /\ ~(TsAt(items, i) > ts)
  <2>0. TsAt(items, i) <= ts
    BY <1>1, <1>7
  <2> DEFINE next == ScanStep(acc, items[i], ts)
  <2>1. next = [last |-> k, results |-> IF items[i].v = Tombstone THEN res
                                        ELSE Append(res, [key |-> k, val |-> items[i].v])]
    BY <1>7 DEF ScanStep, KeyAt, TsAt
  <2> HIDE DEF next
  <2>2. next.last = k /\ LastSeen(items, ts, next.last, i)
    <3>1. (i + 1) .. i = {}
      BY <1>0
    <3> QED
      BY <1>0, <2>0, <2>1, <3>1 DEF LastSeen
  <2>3. \A j \in 1 .. (i - 1) : Shown(items, ts, j) => KeyAt(items, j) # k
    BY <1>3, <1>7 DEF Shown, FirstSeen
  <2>4. CASE items[i].v = Tombstone
    <3>1. next.results = res /\ next = [last |-> k, results |-> res]
      BY <2>1, <2>4
    <3>2. ~Shown(items, ts, i)
      BY <2>4 DEF Shown
    <3>3. next \in ScanAcc
      BY <1>1, <1>2, <3>1 DEF ScanAcc
    <3> QED
      BY <1>0, <1>5, <2>2, <3>1, <3>2, <3>3 DEF ScanInv, next
  <2>5. CASE items[i].v # Tombstone
    <3> DEFINE n == Len(res)
               new == Append(res, ResultOf(items, i))
    <3>1. next.results = new /\ next = [last |-> k, results |-> new]
      BY <2>1, <2>5 DEF ResultOf
    <3>2. Shown(items, ts, i)
      BY <1>4, <1>7, <2>0, <2>5 DEF Shown
    <3>3. ResultOf(items, i) \in Result /\ ResultOf(items, i).key = k
      BY <1>1, <2>5 DEF ResultOf, Result
    <3>4. /\ new \in Seq(Result) /\ Len(new) = n + 1 /\ new[n + 1] = ResultOf(items, i)
          /\ \A a \in 1 .. n : new[a] = res[a]
      BY <1>2, <3>3, AppendProperties
    <3>5. \A a \in 1 .. (n + 1) : a = n + 1 \/ a \in 1 .. n
      BY <1>2
    <3>6. \A a \in 1 .. n : res[a].key # k
      <4> TAKE a \in 1 .. n
      <4>1. PICK j \in 1 .. (i - 1) : Shown(items, ts, j) /\ res[a] = ResultOf(items, j)
        BY DEF ScanInv
      <4> QED
        BY <2>3, <4>1 DEF ResultOf
    <3> HIDE DEF new
    <3>7. next \in ScanAcc
      BY <1>1, <3>1, <3>4 DEF ScanAcc
    <3>8. \A a, b \in 1 .. (n + 1) : new[a].key = new[b].key => a = b
      <4>1. \A a, b \in 1 .. n : res[a].key = res[b].key => a = b
        BY DEF ScanInv
      <4> QED
        BY <3>3, <3>4, <3>5, <3>6, <4>1
    <3>9. \A a \in 1 .. (n + 1) : \E j \in 1 .. i : Shown(items, ts, j) /\ new[a] = ResultOf(items, j)
      <4>1. \A a \in 1 .. n : \E j \in 1 .. (i - 1) : Shown(items, ts, j) /\ res[a] = ResultOf(items, j)
        BY DEF ScanInv
      <4> QED
        BY <1>0, <3>2, <3>4, <3>5, <4>1
    <3>10. \A j \in 1 .. i : Shown(items, ts, j) => \E a \in 1 .. (n + 1) : new[a] = ResultOf(items, j)
      <4>1. \A j \in 1 .. (i - 1) : Shown(items, ts, j) => \E a \in 1 .. n : res[a] = ResultOf(items, j)
        BY DEF ScanInv
      <4>2. n + 1 \in 1 .. (n + 1) /\ \A a \in 1 .. n : a \in 1 .. (n + 1)
        BY <1>2
      <4> QED
        BY <1>5, <3>4, <4>1, <4>2
    <3> QED
      BY <2>2, <3>1, <3>4, <3>7, <3>8, <3>9, <3>10 DEF ScanInv, next
  <2> QED
    BY <2>4, <2>5
<1> QED
  BY <1>6, <1>7

(* The loop of prefix_scan_at keeps that invariant to its end.             *)
LEMMA ScanLoop ==
    ASSUME PrefixFree, Exact, NEW p \in Seq(Byte), NEW ts \in Timestamps
    PROVE  \E acc : /\ ScanInv(PrefixItems(p), ts, acc, Len(PrefixItems(p)))
                    /\ prefix_scan_at(p, ts) = acc.results
<1> DEFINE items == PrefixItems(p)
           n == Len(items)
           b == [last |-> Nothing, results |-> <<>>]
           IsLoop(g) == g = [i \in 0 .. n |-> IF i = 0 THEN b ELSE ScanStep(g[i - 1], items[i], ts)]
           loop == CHOOSE g : IsLoop(g)
<1>1. prefix_scan_at(p, ts) = loop[n].results
  BY DEF prefix_scan_at
<1>2. Lists(items, p)
  BY Listed
<1> HIDE DEF items
<1>3. n \in Nat
  BY <1>2 DEF Lists
<1>4. ASSUME NEW acc \in ScanAcc, NEW i \in 1 .. n PROVE ScanStep(acc, items[i], ts) \in ScanAcc
  <2>1. KeyAt(items, i) \in Keys /\ items[i].v \in Values \cup {Tombstone}
    BY <1>2, ItemFacts
  <2>2. acc.results \in Seq(Result)
    BY DEF ScanAcc
  <2>3. items[i].v # Tombstone => [key |-> KeyAt(items, i), val |-> items[i].v] \in Result
    BY <2>1 DEF Result
  <2>4. items[i].v # Tombstone =>
          Append(acc.results, [key |-> KeyAt(items, i), val |-> items[i].v]) \in Seq(Result)
    BY <2>2, <2>3
  <2> QED
    BY <2>1, <2>2, <2>4 DEF ScanStep, ScanAcc, KeyAt
<1>5. b \in ScanAcc
  BY DEF ScanAcc
<1>6. \E g : IsLoop(g)
  <2> DEFINE F == [i \in 1 .. n |-> [acc \in ScanAcc |-> ScanStep(acc, items[i], ts)]]
  <2>1. F \in [1 .. n -> [ScanAcc -> ScanAcc]]
    BY <1>4
  <2>2. PICK f \in [0 .. n -> ScanAcc] : Iterates(f, n, b, F)
    <3> HIDE DEF F, b, n
    <3> QED
      BY <1>3, <1>5, <2>1, Iterate, Zenon
  <2>3. \A i \in 1 .. n : f[i] = ScanStep(f[i - 1], items[i], ts)
    <3> TAKE i \in 1 .. n
    <3>1. f[i - 1] \in ScanAcc
      BY <1>3
    <3> QED
      BY <2>2, <3>1 DEF Iterates
  <2>4. \A i \in 0 .. n : f[i] = IF i = 0 THEN b ELSE ScanStep(f[i - 1], items[i], ts)
    <3> TAKE i \in 0 .. n
    <3>1. i = 0 \/ i \in 1 .. n
      BY <1>3
    <3> QED
      BY <2>2, <2>3, <3>1 DEF Iterates
  <2> HIDE DEF n, b
  <2>5. IsLoop(f)
    BY <2>4
  <2> QED
    BY <2>5
<1>7. IsLoop(loop)
  <2> HIDE DEF IsLoop
  <2> QED
    BY <1>6
<1> HIDE DEF loop
<1>8. loop[0] = b /\ \A i \in 1 .. n : loop[i] = ScanStep(loop[i - 1], items[i], ts)
  BY <1>3, <1>7
<1>9. ScanInv(items, ts, loop[0], 0)
  BY <1>5, <1>8 DEF ScanInv, LastSeen
<1> DEFINE Bad == {i \in 0 .. n : ~ScanInv(items, ts, loop[i], i)}
<1>10. Bad = {}
  <2> SUFFICES ASSUME Bad # {} PROVE FALSE
    OBVIOUS
  <2>1. PICK m \in Bad : \A k \in Bad : m <= k
    <3>1. Bad \in SUBSET Nat
      OBVIOUS
    <3> QED
      BY <3>1, NatMin
  <2>2. m \in 1 .. n /\ ~ScanInv(items, ts, loop[m], m)
    BY <1>3, <1>9, <2>1
  <2>3. m - 1 \in 0 .. n /\ ~(m <= m - 1)
    BY <1>3, <2>2
  <2>4. ScanInv(items, ts, loop[m - 1], m - 1)
    BY <2>1, <2>3
  <2>5. ScanInv(items, ts, ScanStep(loop[m - 1], items[m], ts), m)
    BY <1>2, <2>2, <2>4, ScanStepKeeps
  <2> QED
    BY <1>8, <2>2, <2>5
<1>11. ScanInv(items, ts, loop[n], n)
  BY <1>3, <1>10
<1> QED
  BY <1>1, <1>11 DEF items

(* prefix_scan_at returns each visible key once, with the store's answer.  *)
LEMMA ScanRight ==
    ASSUME PrefixFree, Exact
    PROVE  ScanAgrees
<1> SUFFICES ASSUME NEW p \in ScanPrefixes, NEW ts \in Timestamps
             PROVE  LET found == prefix_scan_at(p, ts) IN
                    /\ IsInjective([i \in 1 .. Len(found) |-> found[i].key])
                    /\ {found[i] : i \in 1 .. Len(found)} =
                         {[key |-> k, val |-> Abstract!get_at(store, k, ts)] :
                             k \in {k \in Keys : /\ IsPrefix(p, k)
                                                 /\ Abstract!get_at(store, k, ts) # Nothing}}
  BY DEF ScanAgrees
<1> DEFINE items == PrefixItems(p)
           n == Len(items)
           found == prefix_scan_at(p, ts)
           Answer(k) == Abstract!get_at(store, k, ts)
<1>0. p \in Seq(Byte)
  BY EncodingAssumption
<1>1. Lists(items, p)
  BY <1>0, Listed
<1>2. PICK acc : ScanInv(items, ts, acc, n) /\ found = acc.results
  BY <1>0, ScanLoop
<1> HIDE DEF items, found
<1>3. \A a, b \in 1 .. Len(found) : found[a].key = found[b].key => a = b
  BY <1>2 DEF ScanInv
<1>4. IsInjective([i \in 1 .. Len(found) |-> found[i].key])
  BY <1>3 DEF IsInjective
<1>5. \A j \in 1 .. n : FirstSeen(items, ts, j) => Answer(KeyAt(items, j)) = OptionOf(items[j].v)
  <2> HIDE DEF Answer
  <2> QED
    BY <1>0, <1>1, FirstSeenAnswers DEF Answer
<1>6. ASSUME NEW a \in 1 .. Len(found)
      PROVE  \E k \in Keys : /\ IsPrefix(p, k) /\ Answer(k) # Nothing
                             /\ found[a] = [key |-> k, val |-> Answer(k)]
  <2>1. PICK j \in 1 .. n : Shown(items, ts, j) /\ found[a] = ResultOf(items, j)
    BY <1>2 DEF ScanInv
  <2>2. KeyAt(items, j) \in Keys /\ items[j].v \in Values \cup {Tombstone}
    BY <1>1, ItemFacts
  <2>3. IsPrefix(p, KeyAt(items, j))
    BY <1>1 DEF Lists
  <2>4. Answer(KeyAt(items, j)) = items[j].v /\ items[j].v # Nothing
    <3>1. Answer(KeyAt(items, j)) = OptionOf(items[j].v)
      BY <1>5, <2>1 DEF Shown
    <3> HIDE DEF Answer
    <3> QED
      BY <2>1, <2>2, <3>1, EncodingAssumption DEF Shown, OptionOf
  <2> HIDE DEF Answer
  <2> QED
    BY <2>1, <2>2, <2>3, <2>4 DEF ResultOf
<1>7. ASSUME NEW k \in Keys, IsPrefix(p, k), Answer(k) # Nothing
      PROVE  \E a \in 1 .. Len(found) : found[a] = [key |-> k, val |-> Answer(k)]
  <2> DEFINE seen == {j \in 1 .. n : KeyAt(items, j) = k /\ TsAt(items, j) <= ts}
  <2>1. PICK q \in store : q.key = k /\ q.ts <= ts
    BY <1>7, NothingAnswers
  <2>2. PICK i \in 1 .. n : VersionAt(items, i) = q
    BY <1>1, <1>7, <2>1 DEF Lists
  <2>3. i \in seen
    BY <1>1, <2>1, <2>2, ItemFacts
  <2>4. PICK j \in seen : \A h \in seen : j <= h
    <3>1. seen \in SUBSET Nat
      OBVIOUS
    <3> QED
      BY <2>3, <3>1, NatMin
  <2>5. j \in 1 .. n /\ KeyAt(items, j) = k /\ TsAt(items, j) <= ts /\ n \in Nat
    BY <1>1, <2>4 DEF Lists
  <2>6. FirstSeen(items, ts, j)
    <3>1. ASSUME NEW h \in 1 .. (j - 1), KeyAt(items, h) = KeyAt(items, j), TsAt(items, h) <= ts
          PROVE  FALSE
      <4>1. h \in 1 .. n /\ ~(j <= h)
        BY <2>5
      <4>2. h \in seen
        BY <2>5, <3>1, <4>1
      <4> QED
        BY <2>4, <4>1, <4>2
    <3> QED
      BY <2>5, <3>1 DEF FirstSeen
  <2>7. Answer(k) = OptionOf(items[j].v)
    BY <1>5, <2>5, <2>6
  <2> HIDE DEF Answer
  <2>8. items[j].v # Tombstone /\ Answer(k) = items[j].v
    BY <1>7, <2>7 DEF OptionOf
  <2>9. PICK a \in 1 .. Len(found) : found[a] = ResultOf(items, j)
    BY <1>2, <2>5, <2>6, <2>8 DEF ScanInv, Shown
  <2> QED
    BY <2>5, <2>8, <2>9 DEF ResultOf
<1>8. {found[i] : i \in 1 .. Len(found)} =
         {[key |-> k, val |-> Answer(k)] : k \in {k \in Keys : IsPrefix(p, k) /\ Answer(k) # Nothing}}
  <2> HIDE DEF Answer
  <2> QED
    BY <1>6, <1>7
<1> QED
  BY <1>4, <1>8 DEF found

--------------------------------------------------------------------------------
(* gc_before after i items: last and found speak of the group of item i,   *)
(* dead holds the superseded items.                                        *)
GcAcc == [last : Keys \cup {Nothing}, found : BOOLEAN, dead : SUBSET db]

Met(items, w, k, i) == \E h \in 1 .. i : KeyAt(items, h) = k /\ TsAt(items, h) <= w
Superseded(items, w, j) == TsAt(items, j) <= w /\ Met(items, w, KeyAt(items, j), j - 1)

GcInv(items, w, acc, i) ==
    /\ acc \in GcAcc
    /\ i = 0 => acc.last = Nothing
    /\ i # 0 => acc.last = KeyAt(items, i) /\ (acc.found <=> Met(items, w, KeyAt(items, i), i))
    /\ acc.dead = {items[j] : j \in {j \in 1 .. i : Superseded(items, w, j)}}

(* A turn of gc_before keeps the loop invariant.                           *)
LEMMA GcStepKeeps ==
    ASSUME Exact, NEW p \in Seq(Byte), NEW items, Lists(items, p), NEW w \in Timestamps,
           NEW i \in 1 .. Len(items), NEW acc, GcInv(items, w, acc, i - 1)
    PROVE  GcInv(items, w, GcStep(acc, items[i], w), i)
<1> DEFINE k == KeyAt(items, i)
           found == acc.last = k /\ acc.found
           next == GcStep(acc, items[i], w)
<1>0. Len(items) \in Nat /\ i \in 1 .. i /\ i # 0 /\ \A j \in 1 .. (i - 1) : j \in 1 .. i /\ j \in 1 .. Len(items)
  BY DEF Lists
<1>1. k \in Keys /\ TsAt(items, i) \in Int /\ w \in Int /\ items[i] \in db
  BY ItemFacts DEF Timestamps
<1>2. k # Nothing
  BY <1>1, EncodingAssumption
<1>3. /\ acc \in GcAcc /\ acc.last \in Keys \cup {Nothing} /\ acc.found \in BOOLEAN
      /\ acc.dead \in SUBSET db
      /\ acc = [last |-> acc.last, found |-> acc.found, dead |-> acc.dead]
  BY DEF GcInv, GcAcc
<1>4. found <=> Met(items, w, k, i - 1)
  <2>1. CASE i = 1
    <3>1. i - 1 = 0 /\ 1 .. 0 = {}
      BY <2>1
    <3>2. acc.last = Nothing
      BY <3>1 DEF GcInv
    <3> QED
      BY <1>2, <3>1, <3>2 DEF Met
  <2>2. CASE i # 1
    <3>1. i - 1 # 0 /\ i - 1 \in 1 .. Len(items) /\ i - 1 < i
      BY <1>0, <2>2
    <3>2. acc.last = KeyAt(items, i - 1) /\ (acc.found <=> Met(items, w, KeyAt(items, i - 1), i - 1))
      BY <3>1 DEF GcInv
    <3>3. Met(items, w, k, i - 1) => KeyAt(items, i - 1) = k
      <4>1. SUFFICES ASSUME NEW h \in 1 .. (i - 1), KeyAt(items, h) = k
                     PROVE  KeyAt(items, i - 1) = k
        BY DEF Met
      <4>2. CASE h = i - 1
        BY <4>1, <4>2
      <4>3. CASE h # i - 1
        <5>1. h < i - 1 /\ h \in 1 .. Len(items)
          BY <1>0, <3>1, <4>3
        <5> QED
          BY <3>1, <4>1, <5>1 DEF Lists
      <4> QED
        BY <4>2, <4>3
    <3> QED
      BY <3>2, <3>3
  <2> QED
    BY <2>1, <2>2
<1>5. Met(items, w, k, i) <=> Met(items, w, k, i - 1) \/ TsAt(items, i) <= w
  <2>1. \A j \in 1 .. i : j = i \/ j \in 1 .. (i - 1)
    BY <1>0
  <2> QED
    BY <1>0, <2>1 DEF Met
<1>6. Superseded(items, w, i) <=> TsAt(items, i) <= w /\ found
  BY <1>4 DEF Superseded
<1> DEFINE old == {j \in 1 .. (i - 1) : Superseded(items, w, j)}
           now == {j \in 1 .. i : Superseded(items, w, j)}
<1>7. acc.dead = {items[j] : j \in old}
  BY DEF GcInv
<1>8. now = IF Superseded(items, w, i) THEN old \cup {i} ELSE old
  <2>1. \A j \in 1 .. i : j = i \/ j \in 1 .. (i - 1)
    BY <1>0
  <2> QED
    BY <1>0, <2>1
<1> HIDE DEF old, now
<1>9. CASE TsAt(items, i) > w
  <2>1. next = [acc EXCEPT !.last = k, !.found = found]
    BY <1>9 DEF GcStep, KeyAt, TsAt
  <2>2. next = [last |-> k, found |-> found, dead |-> acc.dead]
    BY <1>3, <2>1
  <2>3. ~(TsAt(items, i) <= w)
    BY <1>1, <1>9
  <2>4. next.dead = {items[j] : j \in now}
    BY <1>6, <1>7, <1>8, <2>2, <2>3
  <2>5. next \in GcAcc
    BY <1>1, <1>3, <2>2 DEF GcAcc
  <2>6. next.last = k /\ (next.found <=> Met(items, w, k, i))
    <3>1. next.last = k /\ next.found = found
      BY <2>2
    <3> QED
      BY <1>4, <1>5, <2>3, <3>1
  <2> QED
    BY <1>0, <2>4, <2>5, <2>6 DEF GcInv, now
<1>10. CASE ~(TsAt(items, i) > w)
  <2>1. next = [last |-> k, found |-> TRUE, dead |-> IF found THEN acc.dead \cup {items[i]} ELSE acc.dead]
    BY <1>10 DEF GcStep, KeyAt, TsAt
  <2>2. TsAt(items, i) <= w
    BY <1>1, <1>10
  <2>3. next.dead = {items[j] : j \in now}
    <3>1. CASE found
      <4>1. next.dead = acc.dead \cup {items[i]} /\ now = old \cup {i}
        BY <1>6, <1>8, <2>1, <2>2, <3>1
      <4> QED
        BY <1>7, <4>1
    <3>2. CASE ~found
      <4>1. next.dead = acc.dead /\ now = old
        BY <1>6, <1>8, <2>1, <2>2, <3>2
      <4> QED
        BY <1>7, <4>1
    <3> QED
      BY <3>1, <3>2
  <2>4. next \in GcAcc
    <3>1. (IF found THEN acc.dead \cup {items[i]} ELSE acc.dead) \in SUBSET db
      BY <1>1, <1>3
    <3> HIDE DEF next
    <3> QED
      BY <1>1, <2>1, <3>1 DEF GcAcc
  <2>5. next.last = k /\ next.found = TRUE
    BY <2>1
  <2> QED
    BY <1>0, <1>5, <2>2, <2>3, <2>4, <2>5 DEF GcInv, now
<1> QED
  BY <1>9, <1>10

(* The loop of gc_before keeps that invariant to its end.                  *)
LEMMA GcLoop ==
    ASSUME PrefixFree, Exact, NEW p \in Seq(Byte), NEW w \in Timestamps
    PROVE  \E acc : /\ GcInv(PrefixItems(p), w, acc, Len(PrefixItems(p)))
                    /\ gc_collect(p, w) = acc.dead
<1> DEFINE items == PrefixItems(p)
           n == Len(items)
           b == [last |-> Nothing, found |-> FALSE, dead |-> {}]
           IsLoop(g) == g = [i \in 0 .. n |-> IF i = 0 THEN b ELSE GcStep(g[i - 1], items[i], w)]
           loop == CHOOSE g : IsLoop(g)
<1>1. gc_collect(p, w) = loop[n].dead
  BY DEF gc_collect
<1>2. Lists(items, p)
  BY Listed
<1> HIDE DEF items
<1>3. n \in Nat
  BY <1>2 DEF Lists
<1>4. ASSUME NEW acc \in GcAcc, NEW i \in 1 .. n PROVE GcStep(acc, items[i], w) \in GcAcc
  <2>1. KeyAt(items, i) \in Keys /\ items[i] \in db
    BY <1>2, ItemFacts
  <2>2. /\ acc.found \in BOOLEAN /\ acc.dead \in SUBSET db
        /\ acc = [last |-> acc.last, found |-> acc.found, dead |-> acc.dead]
    BY DEF GcAcc
  <2> DEFINE k == KeyAt(items, i)
             found == acc.last = k /\ acc.found
  <2>3. CASE TsAt(items, i) > w
    <3>1. GcStep(acc, items[i], w) = [acc EXCEPT !.last = k, !.found = found]
      BY <2>3 DEF GcStep, KeyAt, TsAt
    <3>2. GcStep(acc, items[i], w) = [last |-> k, found |-> found, dead |-> acc.dead]
      BY <2>2, <3>1
    <3> QED
      BY <2>1, <2>2, <3>2 DEF GcAcc
  <2>4. CASE ~(TsAt(items, i) > w)
    <3> DEFINE d == IF found THEN acc.dead \cup {items[i]} ELSE acc.dead
    <3>1. GcStep(acc, items[i], w) = [last |-> k, found |-> TRUE, dead |-> d]
      BY <2>4 DEF GcStep, KeyAt, TsAt
    <3>2. d \in SUBSET db
      BY <2>1, <2>2
    <3> HIDE DEF d
    <3> QED
      BY <2>1, <3>1, <3>2 DEF GcAcc
  <2> QED
    BY <2>3, <2>4
<1>5. b \in GcAcc
  BY DEF GcAcc
<1>6. \E g : IsLoop(g)
  <2> DEFINE F == [i \in 1 .. n |-> [acc \in GcAcc |-> GcStep(acc, items[i], w)]]
  <2>1. F \in [1 .. n -> [GcAcc -> GcAcc]]
    BY <1>4
  <2>2. PICK f \in [0 .. n -> GcAcc] : Iterates(f, n, b, F)
    <3> HIDE DEF F, b, n
    <3> QED
      BY <1>3, <1>5, <2>1, Iterate, Zenon
  <2>3. \A i \in 1 .. n : f[i] = GcStep(f[i - 1], items[i], w)
    <3> TAKE i \in 1 .. n
    <3>1. f[i - 1] \in GcAcc
      BY <1>3
    <3> QED
      BY <2>2, <3>1 DEF Iterates
  <2>4. \A i \in 0 .. n : f[i] = IF i = 0 THEN b ELSE GcStep(f[i - 1], items[i], w)
    <3> TAKE i \in 0 .. n
    <3>1. i = 0 \/ i \in 1 .. n
      BY <1>3
    <3> QED
      BY <2>2, <2>3, <3>1 DEF Iterates
  <2> HIDE DEF n, b
  <2>5. IsLoop(f)
    BY <2>4
  <2> QED
    BY <2>5
<1>7. IsLoop(loop)
  <2> HIDE DEF IsLoop
  <2> QED
    BY <1>6
<1> HIDE DEF loop
<1>8. loop[0] = b /\ \A i \in 1 .. n : loop[i] = GcStep(loop[i - 1], items[i], w)
  <2> HIDE DEF b, n
  <2> QED
    BY <1>3, <1>7
<1>9. GcInv(items, w, loop[0], 0)
  BY <1>5, <1>8 DEF GcInv
<1> DEFINE Bad == {i \in 0 .. n : ~GcInv(items, w, loop[i], i)}
<1>10. Bad = {}
  <2> SUFFICES ASSUME Bad # {} PROVE FALSE
    OBVIOUS
  <2>1. PICK m \in Bad : \A k \in Bad : m <= k
    <3>1. Bad \in SUBSET Nat
      OBVIOUS
    <3> QED
      BY <3>1, NatMin
  <2>2. m \in 1 .. n /\ ~GcInv(items, w, loop[m], m)
    BY <1>3, <1>9, <2>1
  <2>3. m - 1 \in 0 .. n /\ ~(m <= m - 1)
    BY <1>3, <2>2
  <2>4. GcInv(items, w, loop[m - 1], m - 1)
    BY <2>1, <2>3
  <2>5. GcInv(items, w, GcStep(loop[m - 1], items[m], w), m)
    BY <1>2, <2>2, <2>4, GcStepKeeps
  <2> QED
    BY <1>8, <2>2, <2>5
<1>11. GcInv(items, w, loop[n], n)
  BY <1>3, <1>10
<1> QED
  BY <1>1, <1>11 DEF items

Candidates(p, w) == Abstract!gc_candidates(store, {k \in Keys : IsPrefix(p, k)}, w)

(* gc_before collects the entries of the superseded versions.              *)
LEMMA GcRight ==
    ASSUME PrefixFree, Exact, NEW p \in Seq(Byte), NEW w \in Timestamps
    PROVE  gc_collect(p, w) = {Entry(r) : r \in Candidates(p, w)}
<1> DEFINE items == PrefixItems(p)
           n == Len(items)
           cand == Candidates(p, w)
<1>1. Lists(items, p)
  BY Listed
<1>2. gc_collect(p, w) = {items[j] : j \in {j \in 1 .. n : Superseded(items, w, j)}}
  BY GcLoop DEF GcInv
<1> HIDE DEF items
<1>3. \A r : r \in cand <=> /\ r \in store /\ r.key \in Keys /\ IsPrefix(p, r.key) /\ r.ts <= w
                            /\ \E q \in store : q.key = r.key /\ q.ts <= w /\ q.ts > r.ts
  BY DEF Candidates, Abstract!gc_candidates
<1> HIDE DEF cand
<1>4. n \in Nat
  BY <1>1 DEF Lists
<1>5. ASSUME NEW j \in 1 .. n, Superseded(items, w, j)
      PROVE  \E r \in cand : items[j] = Entry(r)
  <2>1. PICK h \in 1 .. (j - 1) : KeyAt(items, h) = KeyAt(items, j) /\ TsAt(items, h) <= w
    BY <1>5 DEF Superseded, Met
  <2>2. h \in 1 .. n /\ h < j /\ TsAt(items, j) <= w
    BY <1>4, <1>5 DEF Superseded
  <2>3. TsAt(items, h) > TsAt(items, j)
    BY <1>1, <2>1, <2>2 DEF Lists
  <2> DEFINE r == VersionAt(items, j)
             q == VersionAt(items, h)
  <2>4. r \in store /\ r.key = KeyAt(items, j) /\ r.ts = TsAt(items, j) /\ r.key \in Keys
    BY <1>1, ItemFacts
  <2>5. q \in store /\ q.key = KeyAt(items, h) /\ q.ts = TsAt(items, h)
    BY <1>1, <2>2, ItemFacts
  <2>6. items[j] = Entry(r) /\ IsPrefix(p, r.key)
    BY <1>1, <2>4 DEF Lists
  <2> HIDE DEF r, q
  <2>7. r \in cand
    BY <1>3, <2>1, <2>2, <2>3, <2>4, <2>5, <2>6
  <2> QED
    BY <2>6, <2>7
<1>6. ASSUME NEW r \in cand
      PROVE  \E j \in 1 .. n : Superseded(items, w, j) /\ items[j] = Entry(r)
  <2>1. PICK q \in store : q.key = r.key /\ q.ts <= w /\ q.ts > r.ts
    BY <1>3
  <2>2. r \in store /\ IsPrefix(p, r.key) /\ r.ts <= w
    BY <1>3
  <2>3. PICK j \in 1 .. n : VersionAt(items, j) = r
    BY <1>1, <2>2 DEF Lists
  <2>4. PICK h \in 1 .. n : VersionAt(items, h) = q
    BY <1>1, <2>1, <2>2 DEF Lists
  <2>5. KeyAt(items, j) = r.key /\ TsAt(items, j) = r.ts /\ TsAt(items, j) \in Int
    BY <1>1, <2>3, ItemFacts
  <2>6. KeyAt(items, h) = q.key /\ TsAt(items, h) = q.ts /\ TsAt(items, h) \in Int
    BY <1>1, <2>4, ItemFacts
  <2>7. h \in 1 .. (j - 1)
    <3>1. h # j
      BY <2>1, <2>5, <2>6
    <3>2. ~(j < h)
      <4>1. j < h => TsAt(items, j) > TsAt(items, h)
        BY <1>1, <2>1, <2>5, <2>6 DEF Lists
      <4> QED
        BY <2>1, <2>5, <2>6, <4>1
    <3> QED
      BY <1>4, <3>1, <3>2
  <2>8. Superseded(items, w, j)
    BY <2>1, <2>2, <2>5, <2>6, <2>7 DEF Superseded, Met
  <2>9. items[j] = Entry(r)
    BY <1>1, <2>3 DEF Lists
  <2> QED
    BY <2>8, <2>9
<1> QED
  BY <1>2, <1>5, <1>6 DEF cand

--------------------------------------------------------------------------------
(* put_at and delete_at keep the map exact: the entry of the same key and  *)
(* timestamp is the only one that is replaced.                             *)
LEMMA PutKeeps ==
    ASSUME Exact, NEW key \in Keys, NEW val \in Values \cup {Tombstone}, NEW ts \in Timestamps,
           put_at(key, val, ts)
    PROVE  Exact'
<1> DEFINE x == encode_versioned_key(key, ts)
           new == [key |-> key, ts |-> ts, val |-> val]
           kept == {r \in store : ~(r.key = key /\ r.ts = ts)}
<1>0. new \in Stored /\ new.key = key /\ new.ts = ts /\ Entry(new) = [k |-> x, v |-> val]
  BY DEF Stored, Entry
<1>1. store' = kept \cup {new}
  <2>1. store' = Abstract!batch_write_at(store, [k \in {key} |-> val], ts)
    BY DEF put_at
  <2>2. DOMAIN [k \in {key} |-> val] = {key} /\ [k \in {key} |-> val][key] = val
    OBVIOUS
  <2> QED
    BY <2>1, <2>2 DEF Abstract!batch_write_at
<1>2. db' = {e \in db : e.k # x} \cup {[k |-> x, v |-> val]}
  BY DEF put_at
<1>3. store' \subseteq Stored
  BY <1>0, <1>1, DbEntries
<1>4. \A r, q \in store' : r.key = q.key /\ r.ts = q.ts => r = q
  <2> HIDE DEF new
  <2> QED
    BY <1>0, <1>1 DEF Exact
<1>5. IsFiniteSet(db')
  <2>1. IsFiniteSet({e \in db : e.k # x})
    BY FS_Subset DEF Exact
  <2> QED
    BY <1>2, <2>1, FS_AddElement
<1>6. \A r \in store : Entry(r).k = x <=> r.key = key /\ r.ts = ts
  <2> TAKE r \in store
  <2>1. r \in Stored
    BY DbEntries
  <2>2. extract_key_prefix(Entry(r).k) = r.key /\ decode_versioned_timestamp(Entry(r).k) = r.ts
    BY <2>1, EntryBack
  <2>3. extract_key_prefix(x) = key /\ decode_versioned_timestamp(x) = ts
    BY Decoded, EncodingAssumption
  <2>4. Entry(r).k = encode_versioned_key(r.key, r.ts)
    BY DEF Entry
  <2> QED
    BY <2>2, <2>3, <2>4
<1>7. {e \in db : e.k # x} = {Entry(r) : r \in kept}
  BY <1>6, DbEntries
<1>8. db' = {Entry(r) : r \in store'}
  <2> HIDE DEF new, kept, x
  <2> QED
    BY <1>0, <1>1, <1>2, <1>7
<1> QED
  BY <1>3, <1>4, <1>5, <1>8 DEF Exact, DbHoldsVersions, Entry

(* gc_before keeps the map exact.                                          *)
LEMMA GcKeeps ==
    ASSUME PrefixFree, Exact, NEW p \in ScanPrefixes, NEW w \in Timestamps, gc_before(p, w)
    PROVE  Exact'
<1> DEFINE cand == Candidates(p, w)
<1>0. p \in Seq(Byte)
  BY EncodingAssumption
<1>1. store' = store \ cand /\ cand \subseteq store
  BY DEF gc_before, Candidates, Abstract!gc_candidates
<1>2. db' = db \ {Entry(r) : r \in cand}
  BY <1>0, GcRight DEF gc_before
<1> HIDE DEF cand
<1>3. \A r, q \in store : Entry(r) = Entry(q) => r = q
  <2> TAKE r \in store, q \in store
  <2>1. r \in Stored /\ q \in Stored
    BY DbEntries
  <2> HAVE Entry(r) = Entry(q)
  <2>2. r.key = q.key /\ r.ts = q.ts
    BY <2>1, EntryBack
  <2> QED
    BY <2>2 DEF Exact
<1>4. db' = {Entry(r) : r \in store'}
  BY <1>1, <1>2, <1>3, DbEntries
<1>5. store' \subseteq Stored /\ \A r, q \in store' : r.key = q.key /\ r.ts = q.ts => r = q
  BY <1>1 DEF Exact
<1>6. IsFiniteSet(db')
  BY <1>2, FS_Subset DEF Exact
<1> QED
  BY <1>4, <1>5, <1>6 DEF Exact, DbHoldsVersions, Entry

(* Every step keeps the map exact.                                         *)
LEMMA ExactStep ==
    ASSUME PrefixFree, Exact, [Next]_vars
    PROVE  Exact'
<1>1. ASSUME NEW key \in Keys, NEW val \in Values \cup {Tombstone}, NEW ts \in Timestamps,
             put_at(key, val, ts)
      PROVE  Exact'
  BY <1>1, PutKeeps
<1>2. ASSUME NEW p \in ScanPrefixes, NEW w \in Timestamps, gc_before(p, w)
      PROVE  Exact'
  BY <1>2, GcKeeps
<1>3. CASE UNCHANGED vars
  BY <1>3 DEF vars, Exact, DbHoldsVersions
<1> QED
  BY <1>1, <1>2, <1>3 DEF Next

(* The inductive invariant Exact holds in every reachable state: put_at,   *)
(* delete_at and gc_before leave one version per key and timestamp and one *)
(* entry for each.                                                         *)
THEOREM MapStaysExact ==
    ASSUME PrefixFree
    PROVE  Spec => []Exact
<1>1. Init => Exact
  BY FS_EmptySet DEF Init, Exact, DbHoldsVersions
<1>2. Exact /\ [Next]_vars => Exact'
  BY ExactStep
<1> QED
  BY <1>1, <1>2, PTL DEF Spec

(* After any sequence of put_at, delete_at and gc_before the sorted map    *)
(* holds exactly the versions that should be there: no collection takes a  *)
(* version that is the newest at the watermark, or leaves a superseded one.*)
THEOREM DbHoldsVersionsAlways ==
    ASSUME PrefixFree
    PROVE  Spec => []DbHoldsVersions
<1>1. Exact => DbHoldsVersions
  BY DEF Exact
<1> QED
  BY <1>1, MapStaysExact, PTL

(* In every reachable state get_at and prefix_scan_at answer what the set  *)
(* of versions says, for every key, prefix and snapshot.                   *)
THEOREM ReadsAgreeAlways ==
    ASSUME PrefixFree
    PROVE  Spec => []ReadsAgree
<1>1. Exact => ReadsAgree
  BY GetRight, ScanRight DEF ReadsAgree
<1> QED
  BY <1>1, MapStaysExact, PTL
================================================================================
