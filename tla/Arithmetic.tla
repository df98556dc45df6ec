----------------------------- MODULE Arithmetic -----------------------------
(***************************************************************************)
(* Facts about natural numbers that several proofs need: least elements,   *)
(* and remainders, for addresses and packet numbers that wrap.             *)
(***************************************************************************)
EXTENDS Integers, WellFoundedInduction, TLAPS

\* A set of numbers has a least element.
LEMMA LeastNatural ==
    ASSUME NEW S \in SUBSET Nat, S # {}
    PROVE  \E n \in S : \A m \in S : n <= m
<1>1. \E n \in S : \A m \in S : ~ (<<m, n>> \in OpToRel(<, Nat))
  BY WFMin, NatLessThanWellFounded, Zenon
<1>2. PICK n \in S : \A m \in S : ~ (<<m, n>> \in OpToRel(<, Nat))
  BY <1>1, Zenon
<1>3. \A m \in S : ~(m < n)
  BY <1>2 DEF OpToRel
<1> QED
  BY <1>3

\* A remainder is determined by any way to write the number.
LEMMA ModUnique ==
    ASSUME NEW m \in Nat \ {0}, NEW q \in Nat, NEW r \in 0 .. m - 1
    PROVE  (m * q + r) % m = r
<1> DEFINE a == m * q + r
           p == a \div m
           s == a % m
<1>1. a \in Nat /\ p \in Nat /\ s \in 0 .. m - 1 /\ a = m * p + s
  OBVIOUS
<1>2. CASE p = q
  BY <1>1, <1>2
<1>3. CASE p > q
  <2>1. m * p >= m * (q + 1)
    BY <1>1, <1>3
  <2> QED
    BY <1>1, <2>1
<1>4. CASE p < q
  <2>1. m * q >= m * (p + 1)
    BY <1>1, <1>4
  <2> QED
    BY <1>1, <2>1
<1> QED
  BY <1>1, <1>2, <1>3, <1>4

\* Every number can be written that way.
LEMMA Division ==
    ASSUME NEW m \in Nat \ {0}, NEW a \in Nat
    PROVE  \E q \in Nat, r \in 0 .. m - 1 : r = a % m /\ a = m * q + r
<1>1. a \div m \in Nat /\ a % m \in 0 .. m - 1 /\ a = m * (a \div m) + (a % m)
  OBVIOUS
<1> QED
  BY <1>1

\* Counting on from a remainder.
LEMMA ModSucc ==
    ASSUME NEW m \in Nat \ {0}, NEW a \in Nat
    PROVE  ((a % m) + 1) % m = (a + 1) % m
<1>1. PICK q \in Nat, r \in 0 .. m - 1 : r = a % m /\ a = m * q + r
  BY Division
<1>2. CASE r + 1 < m
  <2>1. PICK t \in 0 .. m - 1 : t = r + 1
    BY <1>2
  <2>2. (m * q + t) % m = t
    BY <1>1, ModUnique
  <2>3. (m * 0 + t) % m = t
    BY <1>1, ModUnique
  <2>4. a + 1 = m * q + t /\ (a % m) + 1 = m * 0 + t
    BY <1>1, <2>1
  <2> QED
    BY <2>2, <2>3, <2>4
<1>3. CASE r + 1 = m
  <2>1. PICK p \in Nat : p = q + 1
    BY <1>1
  <2>2. (m * p + 0) % m = 0
    BY ModUnique
  <2>3. (m * 1 + 0) % m = 0
    BY ModUnique
  <2>4. a + 1 = m * p + 0 /\ (a % m) + 1 = m * 1 + 0
    BY <1>1, <1>3, <2>1
  <2> QED
    BY <2>2, <2>3, <2>4
<1> QED
  BY <1>1, <1>2, <1>3

\* Numbers less than m apart that have the same remainder are the same.
LEMMA ModWindow ==
    ASSUME NEW m \in Nat \ {0}, NEW a \in Nat, NEW b \in Nat,
           a % m = b % m, a <= b, b < a + m
    PROVE  a = b
<1>1. PICK q \in Nat, r \in 0 .. m - 1 : r = a % m /\ a = m * q + r
  BY Division
<1>2. PICK p \in Nat, s \in 0 .. m - 1 : s = b % m /\ b = m * p + s
  BY Division
<1>3. r = s
  BY <1>1, <1>2
<1>4. CASE p >= q + 1
  <2>1. m * p >= m * (q + 1)
    BY <1>4
  <2> QED
    BY <1>1, <1>2, <1>3, <2>1
<1>5. CASE q >= p + 1
  <2>1. m * q >= m * (p + 1)
    BY <1>5
  <2> QED
    BY <1>1, <1>2, <1>3, <2>1
<1> QED
  BY <1>1, <1>2, <1>3, <1>4, <1>5

\* So is the quotient.
LEMMA DivUnique ==
    ASSUME NEW m \in Nat \ {0}, NEW q \in Nat, NEW r \in 0 .. m - 1
    PROVE  (m * q + r) \div m = q
<1> DEFINE a == m * q + r
           p == a \div m
           s == a % m
<1>1. a \in Nat /\ p \in Nat /\ s \in 0 .. m - 1 /\ a = m * p + s
  OBVIOUS
<1>2. CASE p > q
  <2>1. m * p >= m * (q + 1)
    BY <1>1, <1>2
  <2> QED
    BY <1>1, <2>1
<1>3. CASE p < q
  <2>1. m * q >= m * (p + 1)
    BY <1>1, <1>3
  <2> QED
    BY <1>1, <2>1
<1> QED
  BY <1>1, <1>2, <1>3

\* Multiples of m.
LEMMA MultiplesAdd ==
    ASSUME NEW m \in Nat \ {0}, NEW a \in Nat, NEW b \in Nat, a % m = 0, b % m = 0
    PROVE  (a + b) % m = 0 /\ (a + b) \div m = (a \div m) + (b \div m)
<1>1. PICK q \in Nat : a = m * q + 0
  BY Division
<1>2. PICK p \in Nat : b = m * p + 0
  BY Division
<1>3. PICK s \in Nat : s = q + p
  OBVIOUS
<1>4. a + b = m * s + 0
  BY <1>1, <1>2, <1>3
<1>5. 0 \in 0 .. m - 1
  OBVIOUS
<1>6. a \div m = q /\ b \div m = p
  BY <1>1, <1>2, <1>5, DivUnique
<1>7. (a + b) % m = 0 /\ (a + b) \div m = s
  BY <1>4, <1>5, DivUnique, ModUnique
<1> QED
  BY <1>3, <1>6, <1>7

LEMMA MultipleBefore ==
    ASSUME NEW m \in Nat \ {0}, NEW a \in Nat, a % m = 0, a > 0
    PROVE  a - m \in Nat /\ (a - m) % m = 0
<1>1. PICK q \in Nat : a = m * q + 0
  BY Division
<1>2. PICK p \in Nat : q = p + 1
  BY <1>1
<1>3. a - m = m * p + 0
  BY <1>1, <1>2
<1>4. (m * p + 0) % m = 0 /\ m * p + 0 \in Nat
  BY ModUnique
<1> QED
  BY <1>3, <1>4

LEMMA Trimmed ==
    ASSUME NEW m \in Nat \ {0}, NEW a \in Nat, a >= m
    PROVE  a - (a % m) \in Nat /\ a - (a % m) > 0 /\ (a - (a % m)) % m = 0
<1>1. PICK q \in Nat, r \in 0 .. m - 1 : r = a % m /\ a = m * q + r
  BY Division
<1>2. a - r = m * q + 0 /\ q # 0
  BY <1>1
<1>3. (m * q + 0) % m = 0
  BY ModUnique
<1>4. a - r > 0 /\ a - r \in Nat
  BY <1>1
<1> QED
  BY <1>1, <1>2, <1>3, <1>4

=============================================================================
