------------------------ MODULE BlindedMatchTheorems ------------------------
(***************************************************************************)
(* Why executeMatch compares names it cannot read.  From one key's two     *)
(* blinded values it recovers exactly the stretched and spread difference  *)
(* of the names, and the two threshold tests on that difference decide     *)
(* equality: for every pair of primes, every mask, stretch, spread and     *)
(* draw that respect the assumptions of BlindedMatch, in every reachable   *)
(* state.                                                                  *)
(***************************************************************************)
EXTENDS BlindedMatch, WellFoundedInduction, TLAPS

-----------------------------------------------------------------------------
\* Induction, over sets of numbers: the provers take no operator as a parameter.

\* A set of naturals has a least element.
LEMMA Least ==
  ASSUME NEW S \in SUBSET Nat, S # {}
  PROVE  \E m \in S : \A n \in S : m <= n
<1>1. \E m \in S : \A n \in S : ~ (<<n, m>> \in OpToRel(<, Nat))
  BY NatLessThanWellFounded, WFMin
<1>2. PICK m \in S : \A n \in S : ~ (<<n, m>> \in OpToRel(<, Nat))
  BY <1>1
<1>3. ASSUME NEW n \in S PROVE m <= n
  <2>1. m \in Nat /\ n \in Nat /\ <<n, m>> \in Nat \X Nat
    OBVIOUS
  <2>2. n < m => <<n, m>> \in OpToRel(<, Nat)
    BY <2>1 DEF OpToRel
  <2>3. ~ (n < m)
    BY <1>2, <2>2
  <2> QED BY <2>1, <2>3
<1> QED BY <1>3

\* What follows from all smaller numbers holds for all numbers.
LEMMA InductionOnSet ==
  ASSUME NEW S, \A n \in Nat : (\A m \in 0 .. n - 1 : m \in S) => n \in S
  PROVE  Nat \subseteq S
<1> DEFINE B == {n \in Nat : n \notin S}
<1>1. CASE B # {}
  <2>1. PICK m \in B : \A n \in B : m <= n
    BY <1>1, Least
  <2> QED BY <2>1
<1> QED BY <1>1

LEMMA PlainInduction ==
  ASSUME NEW S, 0 \in S, \A n \in Nat : n \in S => n + 1 \in S
  PROVE  Nat \subseteq S
<1>1. ASSUME NEW n \in Nat, \A m \in 0 .. n - 1 : m \in S PROVE n \in S
  <2>1. CASE n = 0
    BY <2>1
  <2>2. CASE n # 0
    <3>1. n - 1 \in Nat /\ n - 1 \in 0 .. n - 1 /\ (n - 1) + 1 = n
      BY <2>2
    <3>2. n - 1 \in S
      BY <1>1, <3>1
    <3>3. (n - 1) + 1 \in S
      BY <3>1, <3>2
    <3> QED BY <3>1, <3>3
  <2> QED BY <2>1, <2>2
<1> QED BY <1>1, InductionOnSet

-----------------------------------------------------------------------------
\* Congruence.

\* a and b differ by a multiple of m.
Cong(a, b, m) == \E k \in Int : a = b + (k * m)

\* Division with remainder.
LEMMA ModParts ==
  ASSUME NEW m \in Nat \ {0}, NEW a \in Int
  PROVE  /\ (a % m) \in 0 .. m - 1 /\ (a \div m) \in Int
         /\ a = (a % m) + ((a \div m) * m)
OBVIOUS

LEMMA CongMod ==
  ASSUME NEW m \in Nat \ {0}, NEW a \in Int
  PROVE  (a % m) \in Int /\ Cong(a, a % m, m)
<1> DEFINE r == a % m
           q == a \div m
<1>1. r \in 0 .. m - 1 /\ q \in Int /\ a = r + (q * m)
  BY ModParts
<1> HIDE DEF r, q
<1>2. r \in Int /\ Cong(a, r, m)
  BY <1>1 DEF Cong
<1> QED BY <1>2 DEF r

\* There is one remainder.
LEMMA OneRemainder ==
  ASSUME NEW m \in Nat \ {0}, NEW q \in Int, NEW r \in 0 .. m - 1, NEW s \in 0 .. m - 1,
         r = s + (q * m)
  PROVE  r = s
<1>1. CASE q > 0
  <2>1. (q - 1) * m >= 0
    BY <1>1
  <2>2. q * m = ((q - 1) * m) + m
    OBVIOUS
  <2> QED BY <2>1, <2>2
<1>2. CASE q < 0
  <2>1. (-1 - q) * m >= 0
    BY <1>2
  <2>2. q * m = -((-1 - q) * m) - m
    OBVIOUS
  <2> QED BY <2>1, <2>2
<1>3. CASE q = 0
  BY <1>3
<1> QED BY <1>1, <1>2, <1>3

LEMMA CongRefl ==
  ASSUME NEW m \in Int, NEW a \in Int
  PROVE  Cong(a, a, m)
<1>1. a = a + (0 * m)
  OBVIOUS
<1> QED BY <1>1 DEF Cong

LEMMA CongSym ==
  ASSUME NEW m \in Int, NEW a \in Int, NEW b \in Int, Cong(a, b, m)
  PROVE  Cong(b, a, m)
<1>1. PICK k \in Int : a = b + (k * m)
  BY DEF Cong
<1>2. b = a + ((-k) * m) /\ -k \in Int
  BY <1>1
<1> QED BY <1>2 DEF Cong

LEMMA CongTrans ==
  ASSUME NEW m \in Int, NEW a \in Int, NEW b \in Int, NEW c \in Int,
         Cong(a, b, m), Cong(b, c, m)
  PROVE  Cong(a, c, m)
<1>1. PICK k \in Int : a = b + (k * m)
  BY DEF Cong
<1>2. PICK l \in Int : b = c + (l * m)
  BY DEF Cong
<1>3. a = c + ((l + k) * m) /\ l + k \in Int
  BY <1>1, <1>2
<1> QED BY <1>3 DEF Cong

\* Congruent numbers have one remainder.
LEMMA CongRemainder ==
  ASSUME NEW m \in Nat \ {0}, NEW a \in Int, NEW b \in Int, Cong(a, b, m)
  PROVE  a % m = b % m
<1> DEFINE r == a % m
           s == b % m
<1>1. /\ r \in 0 .. m - 1 /\ s \in 0 .. m - 1
      /\ r \in Int /\ s \in Int /\ Cong(a, r, m) /\ Cong(b, s, m)
  BY ModParts, CongMod
<1> HIDE DEF r, s
<1>2. Cong(r, s, m)
  BY <1>1, CongSym, CongTrans
<1>3. PICK q \in Int : r = s + (q * m)
  BY <1>2 DEF Cong
<1>4. r = s
  BY <1>1, <1>3, OneRemainder
<1> QED BY <1>4 DEF r, s

LEMMA CongMul ==
  ASSUME NEW m \in Int, NEW a \in Int, NEW b \in Int, NEW c \in Int, NEW d \in Int,
         Cong(a, b, m), Cong(c, d, m)
  PROVE  Cong(a * c, b * d, m)
<1>1. PICK k \in Int : a = b + (k * m)
  BY DEF Cong
<1>2. PICK l \in Int : c = d + (l * m)
  BY DEF Cong
<1> DEFINE j == (b * l) + ((k * d) + ((k * l) * m))
<1>3. (b + (k * m)) * (d + (l * m)) = (b * d) + (j * m)
  OBVIOUS
<1>4. j \in Int
  OBVIOUS
<1> QED BY <1>1, <1>2, <1>3, <1>4 DEF Cong

\* A product on the right of a congruence is replaced factor by factor.
LEMMA CongVia ==
  ASSUME NEW m \in Nat \ {0}, NEW a \in Int, NEW p \in Int, NEW q \in Int,
         NEW s \in Int, NEW t \in Int,
         Cong(a, p * q, m), Cong(p, s, m), Cong(q, t, m)
  PROVE  Cong(a, s * t, m)
<1>1. m \in Int /\ p * q \in Int /\ s * t \in Int
  OBVIOUS
<1>2. Cong(p * q, s * t, m)
  BY <1>1, CongMul
<1> QED BY <1>1, <1>2, CongTrans

-----------------------------------------------------------------------------
\* Powers.

\* The next element of a power, from the ones before.
PowStep(f, i, b, m) ==
    IF i = 0 THEN 1 % m
    ELSE IF i % 2 = 1 THEN (f[i - 1] * b) % m
    ELSE LET half == f[i \div 2] IN (half * half) % m

IsPow(f, b, e, m) == f = [i \in 0 .. e |-> PowStep(f, i, b, m)]

\* PowMod is the last element of a table that looks back on itself.
LEMMA PowModIsPow ==
  ASSUME NEW b, NEW e, NEW m
  PROVE  PowMod(b, e, m) = (CHOOSE f : IsPow(f, b, e, m))[e]
BY DEF PowMod, IsPow, PowStep

LEMMA HalfBelow ==
  ASSUME NEW i \in Nat \ {0}
  PROVE  /\ i - 1 \in 0 .. i - 1
         /\ i % 2 # 1 => (i \div 2) \in 0 .. i - 1 /\ (i \div 2) > 0 /\ i = (i \div 2) + (i \div 2)
OBVIOUS

\* A step looks back only.
LEMMA StepLooksBack ==
  ASSUME NEW i \in Nat, NEW b, NEW m, NEW f, NEW g,
         \A j \in 0 .. i - 1 : f[j] = g[j]
  PROVE  PowStep(f, i, b, m) = PowStep(g, i, b, m)
<1>1. CASE i = 0
  BY <1>1 DEF PowStep
<1>2. CASE i # 0
  <2>1. i - 1 \in 0 .. i - 1 /\ f[i - 1] = g[i - 1]
    BY <1>2
  <2>2. i % 2 # 1 => f[i \div 2] = g[i \div 2]
    BY <1>2, HalfBelow
  <2> QED BY <1>2, <2>1, <2>2 DEF PowStep
<1> QED BY <1>1, <1>2

\* There is such a table,
LEMMA PowExists ==
  ASSUME NEW b, NEW m
  PROVE  \A e \in Nat : \E f : IsPow(f, b, e, m)
<1> DEFINE S == {e \in Nat : \E f : IsPow(f, b, e, m)}
<1>1. ASSUME NEW e \in Nat, \A d \in 0 .. e - 1 : d \in S PROVE e \in S
  <2>1. \E f : \A i \in 0 .. e - 1 : f[i] = PowStep(f, i, b, m)
    <3>1. CASE e = 0
      <4> DEFINE f == [i \in {} |-> i]
      <4>1. \A i \in 0 .. e - 1 : f[i] = PowStep(f, i, b, m)
        BY <3>1
      <4> QED BY <4>1
    <3>2. CASE e # 0
      <4>1. e - 1 \in 0 .. e - 1
        BY <3>2
      <4>2. PICK f : IsPow(f, b, e - 1, m)
        BY <1>1, <4>1
      <4>3. \A i \in 0 .. e - 1 : f[i] = PowStep(f, i, b, m)
        BY <4>2 DEF IsPow
      <4> QED BY <4>3
    <3> QED BY <3>1, <3>2
  <2>2. PICK f : \A i \in 0 .. e - 1 : f[i] = PowStep(f, i, b, m)
    BY <2>1
  <2> DEFINE g == [i \in 0 .. e |-> PowStep(f, i, b, m)]
  <2>3. \A i \in 0 .. e - 1 : g[i] = f[i]
    BY <2>2
  <2>4. ASSUME NEW i \in 0 .. e PROVE PowStep(f, i, b, m) = PowStep(g, i, b, m)
    <3>1. \A j \in 0 .. i - 1 : j \in 0 .. e - 1
      OBVIOUS
    <3>2. \A j \in 0 .. i - 1 : f[j] = g[j]
      <4> HIDE DEF g
      <4> QED BY <3>1, <2>3
    <3> HIDE DEF g
    <3> QED BY <3>2, StepLooksBack
  <2>5. g = [i \in 0 .. e |-> PowStep(g, i, b, m)]
    BY <2>4
  <2>6. IsPow(g, b, e, m)
    <3> HIDE DEF g
    <3> QED BY <2>5 DEF IsPow
  <2> QED BY <2>6
<1>2. Nat \subseteq S
  <2> HIDE DEF S
  <2> QED BY <1>1, InductionOnSet
<1> QED BY <1>2

\* any two agree,
LEMMA PowAgree ==
  ASSUME NEW b, NEW m, NEW d \in Nat, NEW e \in Nat, NEW f, NEW g,
         IsPow(f, b, d, m), IsPow(g, b, e, m)
  PROVE  \A i \in Nat : i <= d /\ i <= e => f[i] = g[i]
<1> DEFINE S == {i \in Nat : i <= d /\ i <= e => f[i] = g[i]}
<1>1. ASSUME NEW i \in Nat, \A j \in 0 .. i - 1 : j \in S PROVE i \in S
  <2> SUFFICES ASSUME i <= d, i <= e PROVE f[i] = g[i]
    OBVIOUS
  <2>1. \A j \in 0 .. i - 1 : f[j] = g[j]
    BY <1>1
  <2>2. f[i] = PowStep(f, i, b, m) /\ g[i] = PowStep(g, i, b, m)
    <3>1. i \in 0 .. d /\ i \in 0 .. e
      OBVIOUS
    <3> QED BY <3>1 DEF IsPow
  <2> QED BY <2>1, <2>2, StepLooksBack
<1>2. Nat \subseteq S
  <2> HIDE DEF S
  <2> QED BY <1>1, InductionOnSet
<1> QED BY <1>2

\* and it holds the powers of all smaller exponents.
LEMMA PowSolves ==
  ASSUME NEW b, NEW m, NEW e \in Nat
  PROVE  \E f : IsPow(f, b, e, m) /\ \A i \in 0 .. e : f[i] = PowMod(b, i, m)
<1> DEFINE F(i) == CHOOSE f : IsPow(f, b, i, m)
<1>1. \A i \in Nat : IsPow(F(i), b, i, m) /\ PowMod(b, i, m) = F(i)[i]
  BY PowExists, PowModIsPow
<1> HIDE DEF F
<1>2. \A i \in 0 .. e : F(e)[i] = F(i)[i]
  <2> TAKE i \in 0 .. e
  <2>1. i \in Nat /\ i <= i /\ i <= e
    OBVIOUS
  <2>2. IsPow(F(e), b, e, m) /\ IsPow(F(i), b, i, m)
    BY <1>1, <2>1
  <2> QED BY <2>1, <2>2, PowAgree
<1>3. \A i \in 0 .. e : F(e)[i] = PowMod(b, i, m)
  BY <1>1, <1>2
<1> QED BY <1>1, <1>3

\* What the code's squaring computes, an exponent at a time.
LEMMA PowUnfolds ==
  ASSUME NEW b, NEW m, NEW e \in Nat
  PROVE  /\ e = 0 => PowMod(b, e, m) = 1 % m
         /\ e # 0 /\ e % 2 = 1 => PowMod(b, e, m) = (PowMod(b, e - 1, m) * b) % m
         /\ e # 0 /\ e % 2 # 1 => PowMod(b, e, m) =
              (PowMod(b, e \div 2, m) * PowMod(b, e \div 2, m)) % m
<1>1. PICK f : IsPow(f, b, e, m) /\ \A i \in 0 .. e : f[i] = PowMod(b, i, m)
  BY PowSolves
<1>2. f[e] = PowStep(f, e, b, m)
  <2>1. e \in 0 .. e
    OBVIOUS
  <2> QED BY <1>1, <2>1 DEF IsPow
<1>3. PowMod(b, e, m) = PowStep(f, e, b, m)
  BY <1>1, <1>2
<1>4. CASE e = 0
  BY <1>3, <1>4 DEF PowStep
<1>5. CASE e # 0
  <2>1. e - 1 \in 0 .. e
    BY <1>5
  <2>2. e % 2 # 1 => (e \div 2) \in 0 .. e
    BY <1>5
  <2>3. f[e - 1] = PowMod(b, e - 1, m)
    BY <1>1, <2>1
  <2>4. e % 2 # 1 => f[e \div 2] = PowMod(b, e \div 2, m)
    BY <1>1, <2>2
  <2> QED BY <1>3, <1>5, <2>3, <2>4 DEF PowStep
<1> QED BY <1>4, <1>5

\* A power modulo m is a number below m.
LEMMA PowType ==
  ASSUME NEW b \in Int, NEW m \in Nat \ {0}
  PROVE  \A e \in Nat : PowMod(b, e, m) \in 0 .. m - 1
<1> DEFINE S == {e \in Nat : PowMod(b, e, m) \in 0 .. m - 1}
<1>1. ASSUME NEW e \in Nat, \A d \in 0 .. e - 1 : d \in S PROVE e \in S
  <2>1. \A a \in Int : (a % m) \in 0 .. m - 1
    BY ModParts
  <2>2. CASE e = 0
    BY <2>1, <2>2, PowUnfolds
  <2>3. CASE e # 0 /\ e % 2 = 1
    <3>1. e - 1 \in 0 .. e - 1
      BY <2>3
    <3>2. PowMod(b, e - 1, m) \in Int
      BY <1>1, <3>1
    <3>3. PowMod(b, e, m) = (PowMod(b, e - 1, m) * b) % m
      BY <2>3, PowUnfolds
    <3>4. PowMod(b, e - 1, m) * b \in Int
      BY <3>2
    <3> QED BY <2>1, <3>3, <3>4
  <2>4. CASE e # 0 /\ e % 2 # 1
    <3>1. e \div 2 \in 0 .. e - 1
      BY <2>4
    <3>2. PowMod(b, e \div 2, m) \in Int
      BY <1>1, <3>1
    <3>3. PowMod(b, e, m) = (PowMod(b, e \div 2, m) * PowMod(b, e \div 2, m)) % m
      BY <2>4, PowUnfolds
    <3>4. PowMod(b, e \div 2, m) * PowMod(b, e \div 2, m) \in Int
      BY <3>2
    <3> QED BY <2>1, <3>3, <3>4
  <2> QED BY <2>2, <2>3, <2>4
<1>2. Nat \subseteq S
  <2> HIDE DEF S
  <2> QED BY <1>1, InductionOnSet
<1> QED BY <1>2

LEMMA PowInt ==
  ASSUME NEW b \in Int, NEW m \in Nat \ {0}, NEW e \in Nat
  PROVE  PowMod(b, e, m) \in Int
BY PowType

\* The two ways to get on, as congruences.
LEMMA PowCong ==
  ASSUME NEW b \in Int, NEW m \in Nat \ {0}, NEW e \in Nat
  PROVE  /\ e = 0 => Cong(PowMod(b, e, m), 1, m)
         /\ e # 0 /\ e % 2 = 1 => Cong(PowMod(b, e, m), PowMod(b, e - 1, m) * b, m)
         /\ e # 0 /\ e % 2 # 1 => Cong(PowMod(b, e, m),
                PowMod(b, e \div 2, m) * PowMod(b, e \div 2, m), m)
<1>1. \A a \in Int : Cong(a % m, a, m)
  BY CongMod, CongSym
<1>2. CASE e = 0
  BY <1>1, <1>2, PowUnfolds
<1>3. CASE e # 0
  <2>1. e - 1 \in Nat /\ e \div 2 \in Nat
    BY <1>3
  <2>2. PowMod(b, e - 1, m) \in Int /\ PowMod(b, e \div 2, m) \in Int
    BY <2>1, PowInt
  <2>3. /\ PowMod(b, e - 1, m) * b \in Int
        /\ PowMod(b, e \div 2, m) * PowMod(b, e \div 2, m) \in Int
    BY <2>2
  <2> QED BY <1>1, <1>3, <2>3, PowUnfolds
<1> QED BY <1>2, <1>3

LEMMA SquareSplits ==
  ASSUME NEW m \in Nat \ {0}, NEW a \in Int, NEW b \in Int, NEW c \in Int,
         NEW g \in Int, NEW h \in Int, NEW o \in Int,
         Cong(a, h * h, m), Cong(h, g * o, m), Cong(c, h * g, m), Cong(o, b, m)
  PROVE  Cong(a, c * b, m)
<1>1. /\ h * h \in Int /\ g * o \in Int /\ h * (g * o) \in Int /\ h * g \in Int
      /\ c * b \in Int /\ h * (g * o) = (h * g) * o
  OBVIOUS
<1>2. Cong(h * h, h * (g * o), m)
  BY <1>1, CongMul, CongRefl
<1>3. Cong(h * g, c, m)
  BY <1>1, CongSym
<1>4. Cong((h * g) * o, c * b, m)
  BY <1>1, <1>3, CongMul
<1>5. Cong(a, h * (g * o), m)
  BY <1>1, <1>2, CongTrans
<1> QED BY <1>1, <1>4, <1>5, CongTrans

LEMMA FactorMoves ==
  ASSUME NEW m \in Nat \ {0}, NEW a \in Int, NEW b \in Int, NEW c \in Int,
         NEW i \in Int, NEW h \in Int, NEW j \in Int,
         Cong(a, c * b, m), Cong(c, i * h, m), Cong(j, h * b, m)
  PROVE  Cong(a, i * j, m)
<1>1. /\ c * b \in Int /\ i * h \in Int /\ h * b \in Int /\ i * j \in Int
      /\ (i * h) * b \in Int /\ (i * h) * b = i * (h * b)
  OBVIOUS
<1>2. Cong(c * b, (i * h) * b, m)
  <2>1. m \in Int /\ Cong(b, b, m)
    BY CongRefl
  <2> QED BY <1>1, <2>1, CongMul
<1>3. Cong(i * (h * b), i * j, m)
  <2>1. m \in Int /\ Cong(i, i, m) /\ Cong(h * b, j, m)
    BY <1>1, CongRefl, CongSym
  <2> QED BY <1>1, <2>1, CongMul
<1> QED BY <1>1, <1>2, <1>3, CongTrans

\* The power of a sum is the product of the powers.
LEMMA PowSum ==
  ASSUME NEW b \in Int, NEW m \in Nat \ {0}
  PROVE  \A i, j \in Nat :
           Cong(PowMod(b, i + j, m), PowMod(b, i, m) * PowMod(b, j, m), m)
<1> DEFINE P(e) == PowMod(b, e, m)
           S == {e \in Nat : \A i, j \in Nat :
                   i + j = e => Cong(P(e), P(i) * P(j), m)}
<1>1. \A e \in Nat : P(e) \in Int
  BY PowInt
<1>2. \A e \in Nat : /\ e = 0 => Cong(P(e), 1, m)
                     /\ e # 0 /\ e % 2 = 1 => Cong(P(e), P(e - 1) * b, m)
                     /\ e # 0 /\ e % 2 # 1 => Cong(P(e), P(e \div 2) * P(e \div 2), m)
  BY PowCong
<1> HIDE DEF P
<1>3. Cong(P(0), 1, m) /\ P(0) \in Int
  BY <1>1, <1>2
<1>4. Cong(P(1), b, m) /\ P(1) \in Int
  <2>1. Cong(P(1), P(0) * b, m)
    BY <1>2, 1 - 1 = 0, 1 % 2 = 1
  <2>2. Cong(P(0) * b, 1 * b, m)
    BY <1>3, CongMul, CongRefl
  <2>3. P(0) * b \in Int /\ 1 * b = b /\ P(1) \in Int
    BY <1>1, <1>3
  <2> QED BY <2>1, <2>2, <2>3, CongTrans
<1>5. ASSUME NEW e \in Nat, \A d \in 0 .. e - 1 : d \in S PROVE e \in S
  <2>1. \A i, j \in Nat : i + j < e => Cong(P(i + j), P(i) * P(j), m)
    <3> TAKE i, j \in Nat
    <3> HAVE i + j < e
    <3>1. i + j \in 0 .. e - 1
      OBVIOUS
    <3> QED BY <1>5, <3>1
  <2>2. e # 0 => Cong(P(e), P(e - 1) * b, m)
    <3> SUFFICES ASSUME e # 0 PROVE Cong(P(e), P(e - 1) * b, m)
      OBVIOUS
    <3>1. CASE e % 2 = 1
      BY <3>1, <1>2
    <3>2. CASE e % 2 # 1
      <4> DEFINE h == e \div 2
      <4>1. h \in Nat /\ h - 1 \in Nat /\ e = h + h /\ h < e
        BY <3>2
      <4>2. Cong(P(e), P(h) * P(h), m)
        BY <3>2, <1>2
      <4> HIDE DEF h
      <4>3. Cong(P(h), P(h - 1) * P(1), m)
        BY <4>1, <2>1, (h - 1) + 1 = h
      <4>4. Cong(P(e - 1), P(h) * P(h - 1), m)
        BY <4>1, <2>1, h + (h - 1) = e - 1
      <4>5. /\ P(e) \in Int /\ P(e - 1) \in Int /\ P(h) \in Int /\ P(h - 1) \in Int
        BY <1>1, <4>1
      <4> QED BY <4>2, <4>3, <4>4, <4>5, <1>4, SquareSplits
    <3> QED BY <3>1, <3>2
  <2>3. ASSUME NEW i \in Nat, NEW j \in Nat, i + j = e PROVE Cong(P(e), P(i) * P(j), m)
    <3>0. P(i) \in Int /\ P(j) \in Int /\ P(e) \in Int
      BY <1>1
    <3>1. CASE j = 0
      <4>1. Cong(P(i) * 1, P(i) * P(0), m)
        BY <3>0, <1>3, CongMul, CongRefl, CongSym
      <4>2. P(i) * 1 = P(e)
        BY <3>0, <3>1, <2>3
      <4> QED BY <3>1, <4>1, <4>2
    <3>2. CASE j # 0 /\ i = 0
      <4>1. Cong(1 * P(j), P(0) * P(j), m)
        BY <3>0, <1>3, CongMul, CongRefl, CongSym
      <4>2. 1 * P(j) = P(e)
        BY <3>0, <3>2, <2>3
      <4> QED BY <3>2, <4>1, <4>2
    <3>3. CASE j # 0 /\ i # 0
      <4>1. e # 0 /\ e - 1 \in Nat /\ j - 1 \in Nat /\ i + (j - 1) = e - 1
            /\ (j - 1) + 1 = j /\ j < e /\ i + (j - 1) < e
        BY <3>3, <2>3
      <4>2. Cong(P(e - 1), P(i) * P(j - 1), m)
        BY <4>1, <2>1
      <4>3. Cong(P(j), P(j - 1) * P(1), m)
        BY <4>1, <2>1
      <4>4. P(j - 1) \in Int /\ P(e - 1) \in Int
        BY <4>1, <1>1
      <4>5. Cong(P(j - 1) * P(1), P(j - 1) * b, m)
        BY <4>4, <1>4, CongMul, CongRefl
      <4>6. Cong(P(j), P(j - 1) * b, m)
        <5>1. P(j - 1) * P(1) \in Int /\ P(j - 1) * b \in Int
          BY <4>4, <1>4
        <5> QED BY <5>1, <4>3, <4>5, <3>0, CongTrans
      <4>7. Cong(P(e), P(e - 1) * b, m)
        BY <4>1, <2>2
      <4> DEFINE x == P(e)  y == P(e - 1)  z == P(i)  u == P(j - 1)  w == P(j)
      <4>8. /\ x \in Int /\ y \in Int /\ z \in Int /\ u \in Int /\ w \in Int
            /\ Cong(x, y * b, m) /\ Cong(y, z * u, m) /\ Cong(w, u * b, m)
        BY <3>0, <4>2, <4>4, <4>6, <4>7
      <4>9. Cong(x, z * w, m)
        <5> HIDE DEF x, y, z, u, w
        <5> QED BY <4>8, FactorMoves
      <4> QED BY <4>9
    <3> QED BY <3>1, <3>2, <3>3
  <2> QED BY <2>3
<1>6. Nat \subseteq S
  <2> HIDE DEF S
  <2> QED BY <1>5, InductionOnSet
<1>7. \A i, j \in Nat : i + j \in Nat
  OBVIOUS
<1> QED BY <1>6, <1>7 DEF P

\* How powers grow.
LEMMA PowGrows ==
  ASSUME NEW b \in Int, NEW m \in Nat \ {0}
  PROVE  /\ Cong(PowMod(b, 0, m), 1, m)
         /\ \A e \in Nat : Cong(PowMod(b, e + 1, m), PowMod(b, e, m) * b, m)
<1>1. Cong(PowMod(b, 0, m), 1, m)
  BY PowCong
<1>2. Cong(PowMod(b, 1, m), b, m)
  <2>1. Cong(PowMod(b, 1, m), PowMod(b, 0, m) * b, m)
    BY PowCong, 1 - 1 = 0, 1 % 2 = 1
  <2>2. PowMod(b, 0, m) \in Int /\ PowMod(b, 1, m) \in Int
    BY PowInt
  <2>3. Cong(b, b, m)
    BY CongRefl
  <2>4. Cong(PowMod(b, 0, m) * b, 1 * b, m)
    BY <1>1, <2>2, <2>3, CongMul
  <2>5. PowMod(b, 0, m) * b \in Int /\ 1 * b = b
    BY <2>2
  <2> QED BY <2>1, <2>2, <2>4, <2>5, CongTrans
<1>3. ASSUME NEW e \in Nat
      PROVE  Cong(PowMod(b, e + 1, m), PowMod(b, e, m) * b, m)
  <2>1. Cong(PowMod(b, e + 1, m), PowMod(b, e, m) * PowMod(b, 1, m), m)
    BY PowSum
  <2> DEFINE x == PowMod(b, e, m)
             y == PowMod(b, 1, m)
             z == PowMod(b, e + 1, m)
  <2>2. x \in Int /\ y \in Int /\ z \in Int
    BY PowInt
  <2>3. Cong(x, x, m)
    BY <2>2, CongRefl
  <2>4. Cong(z, x * y, m) /\ Cong(y, b, m)
    BY <1>2, <2>1
  <2>5. Cong(z, x * b, m)
    <3> HIDE DEF x, y, z
    <3>1. Cong(x * y, x * b, m)
      BY <2>2, <2>3, <2>4, CongMul
    <3>2. x * y \in Int /\ x * b \in Int
      BY <2>2
    <3> QED BY <2>2, <2>4, <3>1, <3>2, CongTrans
  <2> QED BY <2>5
<1> QED BY <1>1, <1>3

\* The power of a product.
LEMMA PowProduct ==
  ASSUME NEW m \in Nat \ {0}, NEW c \in Int, NEW y \in Int, NEW z \in Int,
         Cong(c, y * z, m)
  PROVE  \A e \in Nat : Cong(PowMod(c, e, m), PowMod(y, e, m) * PowMod(z, e, m), m)
<1> DEFINE P(b, e) == PowMod(b, e, m)
           S == {e \in Nat : Cong(P(c, e), P(y, e) * P(z, e), m)}
<1>0. \A b \in {c, y, z} : \A e \in Nat :
        P(b, e) \in Int /\ Cong(P(b, 0), 1, m) /\ Cong(P(b, e + 1), P(b, e) * b, m)
  BY PowInt, PowGrows
<1> HIDE DEF P
<1>1. 0 \in S
  <2>1. /\ P(c, 0) \in Int /\ P(y, 0) \in Int /\ P(z, 0) \in Int
        /\ Cong(P(c, 0), 1, m) /\ Cong(P(y, 0), 1, m) /\ Cong(P(z, 0), 1, m)
    BY <1>0
  <2>2. Cong(1 * 1, P(y, 0) * P(z, 0), m)
    BY <2>1, CongMul, CongSym
  <2>3. P(y, 0) * P(z, 0) \in Int /\ 1 * 1 = 1
    BY <2>1
  <2> QED BY <2>1, <2>2, <2>3, CongTrans
<1>2. ASSUME NEW e \in Nat, e \in S PROVE e + 1 \in S
  <2> DEFINE u == P(c, e)  v == P(y, e)  w == P(z, e)
             uu == P(c, e + 1)  vv == P(y, e + 1)  ww == P(z, e + 1)
  <2>1. /\ u \in Int /\ v \in Int /\ w \in Int /\ uu \in Int /\ vv \in Int /\ ww \in Int
        /\ Cong(uu, u * c, m) /\ Cong(vv, v * y, m) /\ Cong(ww, w * z, m)
        /\ Cong(u, v * w, m)
    BY <1>0, <1>2
  <2>2. Cong(uu, vv * ww, m)
    <3> HIDE DEF u, v, w, uu, vv, ww
    <3>1. /\ v * w \in Int /\ y * z \in Int /\ v * y \in Int /\ w * z \in Int
          /\ vv * ww \in Int /\ (v * y) * (w * z) = (v * w) * (y * z)
          /\ (v * w) * (y * z) \in Int /\ m \in Int
      BY <2>1
    <3>2. Cong(uu, (v * w) * (y * z), m)
      BY <2>1, <3>1, CongVia
    <3>3. Cong(vv * ww, (v * y) * (w * z), m)
      BY <2>1, <3>1, CongMul
    <3>4. Cong((v * w) * (y * z), vv * ww, m)
      BY <3>1, <3>3, CongSym
    <3> QED BY <2>1, <3>1, <3>2, <3>4, CongTrans
  <2> QED BY <2>2
<1>3. Nat \subseteq S
  <2> HIDE DEF S
  <2> QED BY <1>1, <1>2, PlainInduction
<1> QED BY <1>3 DEF P

\* The power of a power.
LEMMA PowPower ==
  ASSUME NEW m \in Nat \ {0}, NEW b \in Int, NEW x \in Nat
  PROVE  \A e \in Nat : Cong(PowMod(PowMod(b, x, m), e, m), PowMod(b, x * e, m), m)
<1> DEFINE c == PowMod(b, x, m)
           S == {e \in Nat : Cong(PowMod(c, e, m), PowMod(b, x * e, m), m)}
<1>0. c \in Int
  BY PowInt
<1>1. 0 \in S
  <2>1. /\ PowMod(c, 0, m) \in Int /\ PowMod(b, 0, m) \in Int /\ x * 0 = 0
        /\ Cong(PowMod(c, 0, m), 1, m) /\ Cong(PowMod(b, 0, m), 1, m)
    <3> HIDE DEF c, S
    <3>1. 0 \in Nat /\ x * 0 = 0
      OBVIOUS
    <3>2. PowMod(c, 0, m) \in Int /\ PowMod(b, 0, m) \in Int
      BY <1>0, <3>1, PowInt
    <3> QED BY <1>0, <3>1, <3>2, PowGrows
  <2> HIDE DEF c
  <2>2. Cong(1, PowMod(b, 0, m), m)
    BY <2>1, CongSym
  <2> QED BY <2>1, <2>2, CongTrans
<1>2. ASSUME NEW e \in Nat, e \in S PROVE e + 1 \in S
  <2>1. x * e \in Nat /\ x * (e + 1) = (x * e) + x
    OBVIOUS
  <2> DEFINE u == PowMod(c, e, m)  w == PowMod(c, e + 1, m)
             v == PowMod(b, x * e, m)  z == PowMod(b, (x * e) + x, m)
  <2>2. /\ u \in Int /\ w \in Int /\ Cong(w, u * c, m)
    <3> HIDE DEF c
    <3> QED BY <1>0, PowInt, PowGrows
  <2>3. /\ v \in Int /\ z \in Int /\ Cong(z, v * c, m)
    <3> DEFINE i == x * e
    <3>1. i \in Nat /\ i + x \in Nat
      BY <2>1
    <3> HIDE DEF i
    <3>2. /\ PowMod(b, i, m) \in Int /\ PowMod(b, i + x, m) \in Int
          /\ Cong(PowMod(b, i + x, m), PowMod(b, i, m) * PowMod(b, x, m), m)
      BY <3>1, PowInt, PowSum
    <3> QED BY <3>2 DEF i
  <2>4. Cong(u, v, m)
    BY <1>2
  <2>5. Cong(w, z, m)
    <3> HIDE DEF c, u, v, w, z
    <3>1. Cong(c, c, m)
      BY <1>0, CongRefl
    <3>2. Cong(w, v * c, m)
      BY <1>0, <2>2, <2>3, <2>4, <3>1, CongVia
    <3>3. v * c \in Int
      BY <1>0, <2>3
    <3>4. Cong(v * c, z, m)
      BY <2>3, <3>3, CongSym
    <3> QED BY <2>2, <2>3, <3>2, <3>3, <3>4, CongTrans
  <2> QED BY <2>1, <2>5
<1>3. Nat \subseteq S
  <2> HIDE DEF S
  <2> QED BY <1>1, <1>2, PlainInduction
<1> QED BY <1>3

-----------------------------------------------------------------------------
\* Numbers 1 + a n modulo n^2, and what stands at n.

\* Binomials 1 + a n multiply by adding what stands at n, modulo n^2.
LEMMA LinearProduct ==
  ASSUME NEW n \in Nat \ {0}, NEW y \in Int, NEW z \in Int, NEW w \in Int,
         NEW a \in Int, NEW b \in Int,
         Cong(y, 1 + (a * n), n * n), Cong(z, 1 + (b * n), n * n), Cong(w, y * z, n * n)
  PROVE  Cong(w, 1 + ((a + b) * n), n * n)
<1>0. /\ n * n \in Nat \ {0} /\ n * n \in Int
  OBVIOUS
<1>1. Cong(w, (1 + (a * n)) * (1 + (b * n)), n * n)
  <2> DEFINE m == n * n
             s == 1 + (a * n)
             t == 1 + (b * n)
  <2>1. m \in Nat \ {0} /\ s \in Int /\ t \in Int
    BY <1>0
  <2> HIDE DEF m, s, t
  <2>2. Cong(y, s, m) /\ Cong(z, t, m) /\ Cong(w, y * z, m)
    BY DEF m, s, t
  <2>3. Cong(w, s * t, m)
    BY <2>1, <2>2, CongVia
  <2> QED BY <2>3 DEF m, s, t
<1>2. (1 + (a * n)) * (1 + (b * n)) = (1 + ((a + b) * n)) + ((a * b) * (n * n))
  OBVIOUS
<1>3. (1 + (a * n)) * (1 + (b * n)) \in Int /\ 1 + ((a + b) * n) \in Int /\ a * b \in Int
  OBVIOUS
<1>4. Cong((1 + (a * n)) * (1 + (b * n)), 1 + ((a + b) * n), n * n)
  BY <1>2, <1>3 DEF Cong
<1> QED BY <1>0, <1>1, <1>3, <1>4, CongTrans

\* Powers multiply it.
LEMMA LinearPower ==
  ASSUME NEW n \in Nat \ {0}, NEW y \in Int, NEW a \in Int, Cong(y, 1 + (a * n), n * n)
  PROVE  \A e \in Nat : Cong(PowMod(y, e, n * n), 1 + ((a * e) * n), n * n)
<1> DEFINE m == n * n
           S == {e \in Nat : Cong(PowMod(y, e, m), 1 + ((a * e) * n), m)}
<1>0. m \in Nat \ {0}
  OBVIOUS
<1>1. 0 \in S
  <2>1. 1 + ((a * 0) * n) = 1
    OBVIOUS
  <2>2. Cong(PowMod(y, 0, m), 1, m)
    <3> HIDE DEF m
    <3> QED BY <1>0, PowGrows
  <2> QED BY <2>1, <2>2
<1>2. ASSUME NEW e \in Nat, e \in S PROVE e + 1 \in S
  <2>1. PowMod(y, e, m) \in Int /\ PowMod(y, e + 1, m) \in Int
        /\ Cong(PowMod(y, e + 1, m), PowMod(y, e, m) * y, m)
    <3> HIDE DEF m, S
    <3>1. PowMod(y, e, m) \in Int /\ PowMod(y, e + 1, m) \in Int
      BY <1>0, PowInt
    <3> QED BY <1>0, <3>1, PowGrows
  <2>2. a * e \in Int /\ (a * e) + a = a * (e + 1)
    OBVIOUS
  <2>3. Cong(PowMod(y, e + 1, m), 1 + (((a * e) + a) * n), m)
    BY <1>2, <2>1, <2>2, LinearProduct
  <2> QED BY <2>2, <2>3
<1>3. Nat \subseteq S
  <2> HIDE DEF S
  <2> QED BY <1>1, <1>2, PlainInduction
<1> QED BY <1>3

\* The division in executeMatch and keyGen reads it.
LEMMA LinearRead ==
  ASSUME NEW n \in Nat \ {0, 1}, NEW y \in Int, NEW a \in Int,
         Cong(y, 1 + (a * n), n * n)
  PROVE  L(y % (n * n), n) = a % n
<1> DEFINE r == a % n
           q == a \div n
           m == n * n
           z == 1 + (r * n)
<1>1. r \in 0 .. n - 1 /\ q \in Int /\ a = r + (q * n)
  BY ModParts
<1>2. m \in Nat \ {0} /\ m \in Int
  OBVIOUS
<1> HIDE DEF r, q
<1>3. z \in 0 .. m - 1 /\ z \in Int /\ z # 0
  <2>1. (n - 1 - r) * n >= 0 /\ r * n >= 0
    BY <1>1
  <2>2. (n - 1 - r) * n = ((n * n) - n) - (r * n)
    BY <1>1
  <2> QED BY <1>1, <2>1, <2>2
<1>4. Cong(y, z, m)
  <2>1. 1 + (a * n) = z + (q * m)
    BY <1>1
  <2>2. 1 + (a * n) \in Int
    OBVIOUS
  <2>3. Cong(1 + (a * n), z, m)
    BY <1>1, <2>1 DEF Cong
  <2> QED BY <1>2, <1>3, <2>2, <2>3, CongTrans
<1>5. y % m = z
  <2>1. y % m = z % m
    <3> HIDE DEF m, z
    <3> QED BY <1>2, <1>3, <1>4, CongRemainder
  <2>2. z % m = z
    <3> HIDE DEF m, z
    <3> QED BY <1>2, <1>3
  <2> QED BY <2>1, <2>2
<1>6. L(z, n) = r
  <2>1. z - 1 = r * n
    BY <1>1
  <2>2. (r * n) \div n = r
    BY <1>1
  <2> QED BY <1>3, <2>1, <2>2 DEF L
<1> QED BY <1>5, <1>6 DEF r

-----------------------------------------------------------------------------
\* Keys.

\* Lcm of two positive numbers is a positive number.
LEMMA LcmType ==
  ASSUME NEW a \in Nat \ {0}, NEW b \in Nat \ {0}
  PROVE  Lcm(a, b) \in Nat \ {0}
<1> DEFINE S == CommonMultiples(a, b)
<1>1. S \subseteq Nat /\ 0 \notin S
  BY DEF CommonMultiples
<1>2. a * b \in S
  <2>1. a * b \in Nat /\ a * b >= 1 /\ (a * b) % a = 0 /\ (a * b) % b = 0
    <3>1. Cong(a * b, 0, a) /\ Cong(a * b, 0, b)
      <4>1. a * b = 0 + (b * a) /\ a * b = 0 + (a * b)
        OBVIOUS
      <4> QED BY <4>1 DEF Cong
    <3>2. (a * b) % a = 0 % a /\ (a * b) % b = 0 % b
      BY <3>1, CongRemainder
    <3>3. 0 % a = 0 /\ 0 % b = 0
      OBVIOUS
    <3>4. a * b \in Nat /\ a * b >= 1
      OBVIOUS
    <3> QED BY <3>2, <3>3, <3>4
  <2> QED BY <2>1 DEF CommonMultiples
<1>3. \E c \in S : \A d \in S : c <= d
  <2> HIDE DEF S
  <2> QED BY <1>1, <1>2, Least
<1>4. Min(S) \in S
  BY <1>3 DEF Min
<1> QED BY <1>1, <1>4 DEF Lcm

\* The parts of a generated key.
GoodKey(k) ==
    /\ k.n \in Nat \ {0, 1} /\ k.lambda \in Nat \ {0}
    /\ k.e_m \in Nat /\ k.d_m \in Nat /\ k.e_m + k.d_m = k.n
    /\ k.r_m \in Nat \ {0, 1}
    /\ k.mu \in Nat /\ Cong(k.lambda * k.mu, 1, k.n)
    /\ \A u \in Units(k.n) : PowMod(u, k.n * k.lambda, k.n * k.n) = 1

\* Powers of the generator n + 1.
LEMMA GeneratorPower ==
  ASSUME NEW n \in Nat \ {0, 1}, NEW e \in Nat
  PROVE  /\ PowMod(n + 1, e, n * n) \in 0 .. (n * n) - 1
         /\ Cong(PowMod(n + 1, e, n * n), 1 + (e * n), n * n)
<1>1. n * n \in Nat \ {0} /\ n * n \in Int /\ n + 1 \in Int /\ 1 + (1 * n) = n + 1 /\ 1 * e = e
  OBVIOUS
<1>2. Cong(n + 1, 1 + (1 * n), n * n)
  BY <1>1, CongRefl
<1>3. Cong(PowMod(n + 1, e, n * n), 1 + ((1 * e) * n), n * n)
  BY <1>1, <1>2, LinearPower
<1> QED BY <1>1, <1>3, PowType

\* mu undoes lambda.
LEMMA InverseOfLambda ==
  ASSUME NEW n \in Nat \ {0, 1}, NEW lambda \in Nat,
         \E i \in 1 .. n - 1 : (lambda * i) % n = 1
  PROVE  LET mu == InverseMod(L(PowMod(n + 1, lambda, n * n), n), n)
         IN  mu \in Nat /\ Cong(lambda * mu, 1, n)
<1> DEFINE y == PowMod(n + 1, lambda, n * n)
           r == lambda % n
           mu == InverseMod(r, n)
<1>1. y \in Int /\ y % (n * n) = y /\ Cong(y, 1 + (lambda * n), n * n)
  <2> DEFINE m == n * n
  <2>1. m \in Nat \ {0} /\ y \in 0 .. m - 1 /\ Cong(y, 1 + (lambda * n), m)
    BY GeneratorPower
  <2>2. y \in Int /\ y % m = y
    <3> HIDE DEF y, m
    <3> QED BY <2>1
  <2> QED BY <2>1, <2>2
<1>2. L(y, n) = r
  <2>1. L(y % (n * n), n) = lambda % n
    <3> HIDE DEF y, r, mu
    <3>1. lambda \in Int /\ y \in Int /\ Cong(y, 1 + (lambda * n), n * n)
      BY <1>1
    <3> QED BY <3>1, LinearRead
  <2> QED BY <1>1, <2>1
<1>3. r \in Int /\ Cong(lambda, r, n) /\ n \in Nat \ {0} /\ n \in Int
  <2>1. n \in Nat \ {0} /\ n \in Int /\ lambda \in Int
    OBVIOUS
  <2> QED BY <2>1, CongMod
<1>4. \A i \in Int : (r * i) % n = (lambda * i) % n
  <2> TAKE i \in Int
  <2> HIDE DEF r
  <2>1. Cong(i, i, n) /\ lambda \in Int
    BY <1>3, CongRefl
  <2>2. Cong(lambda * i, r * i, n)
    BY <1>3, <2>1, CongMul
  <2>3. lambda * i \in Int /\ r * i \in Int
    BY <1>3
  <2> QED BY <1>3, <2>2, <2>3, CongRemainder
<1>5. \E i \in 1 .. n - 1 : (r * i) % n = 1
  <2>1. PICK i \in 1 .. n - 1 : (lambda * i) % n = 1
    OBVIOUS
  <2>2. i \in Int
    OBVIOUS
  <2> HIDE DEF r, y, mu
  <2>3. (r * i) % n = (lambda * i) % n
    BY <1>4, <2>2
  <2> QED BY <2>1, <2>3
<1>6. mu \in 1 .. n - 1 /\ (r * mu) % n = 1
  <2> HIDE DEF r
  <2> QED BY <1>5 DEF InverseMod
<1>7. mu \in Nat /\ (lambda * mu) % n = 1
  <2> HIDE DEF mu, r
  <2> QED BY <1>4, <1>6
<1>8. Cong(lambda * mu, 1, n)
  <2>1. lambda * mu \in Int
    BY <1>7
  <2>2. Cong(lambda * mu, (lambda * mu) % n, n)
    <3> HIDE DEF mu
    <3> QED BY <1>3, <2>1, CongMod
  <2> QED BY <1>7, <2>2
<1> QED BY <1>2, <1>7, <1>8

\* keyGen makes nothing else.
LEMMA KeysAreGood ==
  ASSUME NEW k \in Keys
  PROVE  GoodKey(k)
<1>1. PICK pq \in Primes, e \in Masks, s \in Scalars :
        k = keyGen(pq[1], pq[2], e, s)
  BY DEF Keys
<1> DEFINE p == pq[1]  q == pq[2]  n == p * q
           lambda == Lcm(p - 1, q - 1)
           mu == InverseMod(L(PowMod(n + 1, lambda, n * n), n), n)
<1>2. /\ p \in Nat \ {0, 1} /\ q \in Nat \ {0, 1}
      /\ \E i \in 1 .. n - 1 : (lambda * i) % n = 1
      /\ \A u \in Units(n) : PowMod(u, n * lambda, n * n) = 1
  BY KeyAssumption
<1>3. k = [n |-> n, lambda |-> lambda, mu |-> mu,
           e_m |-> e % n, d_m |-> n - (e % n), r_m |-> s]
  BY <1>1 DEF keyGen
<1>4. n \in Nat \ {0, 1}
  <2> HIDE DEF p, q
  <2>1. (p - 1) * q >= 1 * 1
    <3>1. (p - 1) * q >= 0 /\ (p - 2) * (q - 2) >= 0
      BY <1>2
    <3> QED BY <1>2, <3>1
  <2>2. p * q = ((p - 1) * q) + q
    BY <1>2
  <2> QED BY <1>2, <2>1, <2>2
<1>5. lambda \in Nat \ {0}
  <2> HIDE DEF p, q
  <2>1. p - 1 \in Nat \ {0} /\ q - 1 \in Nat \ {0}
    BY <1>2
  <2> QED BY <2>1, LcmType
<1>6. mu \in Nat /\ Cong(lambda * mu, 1, n)
  <2> HIDE DEF n, lambda
  <2> QED BY <1>2, <1>4, <1>5, InverseOfLambda
<1>7. e % n \in Nat /\ n - (e % n) \in Nat /\ (e % n) + (n - (e % n)) = n
  <2>1. e \in Int
    BY KeyAssumption
  <2> DEFINE r == e % n
  <2>2. r \in 0 .. n - 1
    <3> HIDE DEF n
    <3> QED BY <1>4, <2>1, ModParts
  <2> HIDE DEF r, n
  <2>3. r \in Nat /\ n - r \in Nat /\ r + (n - r) = n
    BY <1>4, <2>2
  <2> QED BY <2>3 DEF r
<1>8. s \in Nat \ {0, 1}
  BY MatchAssumption
<1> HIDE DEF n, lambda, mu
<1> QED BY <1>2, <1>3, <1>4, <1>5, <1>6, <1>7, <1>8 DEF GoodKey

-----------------------------------------------------------------------------
\* Blinded values.

\* What a blinded notification carries at n.
LEMMA NotificationLinear ==
  ASSUME NEW k, GoodKey(k), NEW x \in Nat, NEW r \in Nat
  PROVE  /\ blindNotification(k, x, r) \in Int
         /\ Cong(blindNotification(k, x, r),
                 1 + ((k.e_m + (((k.r_m * x) + r) * k.lambda)) * k.n), k.n * k.n)
<1> DEFINE n == k.n  m == n * n  e == k.e_m  t == ((k.r_m * x) + r) * k.lambda
           y == PowMod(n + 1, e, m)  z == PowMod(n + 1, t, m)  w == (y * z) % m
<1>1. n \in Nat \ {0, 1} /\ e \in Nat /\ k.r_m \in Nat /\ k.lambda \in Nat
  BY DEF GoodKey
<1>2. t \in Nat /\ m \in Nat \ {0}
  BY <1>1
<1>3. /\ y \in Int /\ Cong(y, 1 + (e * n), m)
      /\ z \in Int /\ Cong(z, 1 + (t * n), m)
  <2> HIDE DEF n, e, t
  <2>1. /\ y \in 0 .. m - 1 /\ Cong(y, 1 + (e * n), m)
        /\ z \in 0 .. m - 1 /\ Cong(z, 1 + (t * n), m)
    BY <1>1, <1>2, GeneratorPower
  <2> HIDE DEF m, y, z
  <2> QED BY <1>2, <2>1
<1>4. w \in Int /\ Cong(w, y * z, m)
  <2> HIDE DEF n, m, y, z
  <2>1. y * z \in Int
    BY <1>3
  <2> QED BY <1>2, <2>1, CongMod, CongSym
<1>5. Cong(w, 1 + ((e + t) * n), m)
  <2>1. /\ n \in Nat \ {0} /\ e \in Int /\ t \in Int /\ y \in Int /\ z \in Int /\ w \in Int
        /\ Cong(y, 1 + (e * n), n * n) /\ Cong(z, 1 + (t * n), n * n)
        /\ Cong(w, y * z, n * n)
    <3> HIDE DEF e, t, y, z, w
    <3> QED BY <1>1, <1>2, <1>3, <1>4
  <2>2. Cong(w, 1 + ((e + t) * n), n * n)
    <3> HIDE DEF n, m, e, t, y, z, w
    <3> QED BY <2>1, LinearProduct
  <2> QED BY <2>2
<1>6. blindNotification(k, x, r) = w
  BY DEF blindNotification
<1> HIDE DEF w
<1> QED BY <1>4, <1>5, <1>6

\* encrypt's randomness disappears under the exponent.
LEMMA RandomnessGone ==
  ASSUME NEW k, GoodKey(k), NEW u \in Units(k.n), NEW s \in Nat
  PROVE  Cong(PowMod(PowMod(u, k.n, k.n * k.n), s * k.lambda, k.n * k.n), 1, k.n * k.n)
<1> DEFINE n == k.n  m == n * n  lambda == k.lambda  o == PowMod(u, n * lambda, m)
<1>1. /\ n \in Nat \ {0, 1} /\ lambda \in Nat /\ m \in Nat \ {0} /\ m \in Int
      /\ u \in Int /\ o = 1
  <2>1. n \in Nat \ {0, 1} /\ lambda \in Nat
    BY DEF GoodKey
  <2>2. o = 1 /\ u \in Int
    BY <2>1 DEF GoodKey, Units
  <2>3. m \in Nat \ {0} /\ m \in Int
    BY <2>1
  <2> QED BY <2>1, <2>2, <2>3
<1> DEFINE a == n * (s * lambda)
<1>2. a \in Nat /\ s * lambda \in Nat /\ n * lambda \in Nat /\ (n * lambda) * s = a
  <2> HIDE DEF n, lambda
  <2> QED BY <1>1
<1> DEFINE y == PowMod(PowMod(u, n, m), s * lambda, m)
           z == PowMod(u, a, m)
           w == PowMod(o, s, m)
<1>3. y \in Int /\ z \in Int /\ w \in Int
  <2>1. PowMod(u, n, m) \in Int
    <3> HIDE DEF n, m
    <3> QED BY <1>1, PowInt
  <2> HIDE DEF n, m, a, o
  <2>2. s * lambda \in Nat /\ o \in Int
    BY <1>1, <1>2
  <2> QED BY <1>1, <1>2, <2>1, <2>2, PowInt
<1>4. Cong(y, z, m)
  <2> HIDE DEF m
  <2> DEFINE j == s * lambda
  <2>1. j \in Nat /\ n \in Nat
    BY <1>1, <1>2
  <2> HIDE DEF n, j
  <2>2. Cong(PowMod(PowMod(u, n, m), j, m), PowMod(u, n * j, m), m)
    BY <1>1, <2>1, PowPower
  <2> QED BY <2>2 DEF j
<1>5. Cong(w, z, m)
  <2> DEFINE b == n * lambda
  <2>1. b \in Nat /\ b * s = a
    BY <1>2
  <2>2. Cong(PowMod(PowMod(u, b, m), s, m), PowMod(u, b * s, m), m)
    <3> HIDE DEF b, m
    <3> QED BY <1>1, <2>1, PowPower
  <2> QED BY <2>1, <2>2
<1>6. Cong(w, 1, m)
  <2>1. Cong(1, 1 + (0 * n), n * n) /\ 0 * s = 0 /\ 1 + (0 * n) = 1
    <3>1. 1 + (0 * n) = 1 /\ n * n \in Int /\ 0 * s = 0
      BY <1>1
    <3> QED BY <3>1, CongRefl
  <2>2. Cong(PowMod(1, s, n * n), 1 + ((0 * s) * n), n * n)
    <3> HIDE DEF n
    <3>1. n \in Nat \ {0} /\ 1 \in Int /\ 0 \in Int
      BY <1>1
    <3> QED BY <2>1, <3>1, LinearPower
  <2>3. w = PowMod(1, s, n * n)
    BY <1>1
  <2> QED BY <2>1, <2>2, <2>3
<1>7. Cong(y, 1, m)
  <2> HIDE DEF m, y, z, w
  <2>1. Cong(z, w, m)
    BY <1>1, <1>3, <1>5, CongSym
  <2>2. Cong(y, w, m)
    BY <1>1, <1>3, <1>4, <2>1, CongTrans
  <2> QED BY <1>1, <1>3, <1>6, <2>2, CongTrans
<1> QED BY <1>7

\* What a blinded bound carries at n, whatever was drawn.
LEMMA CipherLinear ==
  ASSUME NEW k, GoodKey(k), NEW v \in Nat, NEW u \in Units(k.n)
  PROVE  /\ blindCipher(k, encrypt(k, v, u)) \in Int
         /\ Cong(blindCipher(k, encrypt(k, v, u)),
                 1 + ((k.d_m + (v * (k.r_m * k.lambda))) * k.n), k.n * k.n)
<1> DEFINE n == k.n  m == n * n  d == k.d_m  t == k.r_m * k.lambda
           R == PowMod(u, n, m)  a == 1 + (v * n)
           c == encrypt(k, v, u)
<1>1. /\ n \in Nat \ {0, 1} /\ d \in Nat /\ k.r_m \in Nat /\ k.lambda \in Nat
  BY DEF GoodKey
<1>2. t \in Nat /\ m \in Nat \ {0} /\ m \in Int /\ a \in Int /\ u \in Int
  BY <1>1 DEF Units
<1>3. R \in Int
  <2> HIDE DEF n, m
  <2> QED BY <1>1, <1>2, PowInt
<1>4. c \in Int /\ Cong(c, a * R, m)
  <2> DEFINE b == a % m
  <2>1. c = (b * R) % m
    BY DEF encrypt
  <2> HIDE DEF n, m, a, R, c, t
  <2>2. b \in Int /\ Cong(b, a, m)
    BY <1>2, CongMod, CongSym
  <2> HIDE DEF b
  <2>3. b * R \in Int
    BY <1>3, <2>2
  <2>4. c \in Int /\ Cong(c, b * R, m)
    BY <1>2, <2>1, <2>3, CongMod, CongSym
  <2>5. Cong(R, R, m)
    BY <1>2, <1>3, CongRefl
  <2> QED BY <1>2, <1>3, <2>2, <2>4, <2>5, CongVia
<1> DEFINE f == PowMod(a, t, m)  g == PowMod(R, t, m)  h == PowMod(c, t, m)
           y == PowMod(n + 1, d, m)  w == (y * h) % m
<1>5. f \in Int /\ g \in Int /\ h \in Int /\ Cong(h, f * g, m)
  <2> HIDE DEF n, m, a, R, c, t
  <2> QED BY <1>2, <1>3, <1>4, PowInt, PowProduct
<1>6. Cong(f, 1 + ((v * t) * n), m)
  <2>1. Cong(a, 1 + (v * n), n * n)
    BY <1>2, CongRefl
  <2>2. \A j \in Nat : Cong(PowMod(a, j, n * n), 1 + ((v * j) * n), n * n)
    <3> HIDE DEF n, m, a, t
    <3>1. n \in Nat \ {0} /\ v \in Int /\ a \in Int
      BY <1>1, <1>2
    <3> QED BY <2>1, <3>1, LinearPower
  <2> HIDE DEF a, t, n
  <2> QED BY <1>2, <2>2
<1>7. Cong(g, 1 + (0 * n), m)
  <2>1. Cong(g, 1, m)
    BY <1>1, RandomnessGone
  <2>2. 1 + (0 * n) = 1
    BY <1>1
  <2> QED BY <2>1, <2>2
<1>8. Cong(h, 1 + ((v * t) * n), m)
  <2>1. v * t \in Int /\ (v * t) + 0 = v * t
    <3> HIDE DEF t
    <3> QED BY <1>2
  <2> DEFINE i == v * t
             o == 0
  <2>2. i \in Int /\ o \in Int /\ i + o = i /\ Cong(f, 1 + (i * n), n * n)
        /\ Cong(g, 1 + (o * n), n * n) /\ Cong(h, f * g, n * n)
    BY <2>1, <1>5, <1>6, <1>7
  <2>3. Cong(h, 1 + ((i + o) * n), n * n)
    <3> HIDE DEF n, f, g, h, i, o
    <3> QED BY <1>1, <1>5, <2>2, LinearProduct
  <2> HIDE DEF i, h, o
  <2>4. Cong(h, 1 + (i * n), n * n)
    BY <2>2, <2>3
  <2> QED BY <2>4 DEF i
<1>9. y \in Int /\ Cong(y, 1 + (d * n), m)
  <2> HIDE DEF n, d
  <2>1. /\ y \in 0 .. m - 1 /\ Cong(y, 1 + (d * n), m)
    BY <1>1, GeneratorPower
  <2> HIDE DEF m, y
  <2> QED BY <1>2, <2>1
<1>10. w \in Int /\ Cong(w, y * h, m)
  <2> HIDE DEF n, m, y, h
  <2>1. y * h \in Int
    BY <1>5, <1>9
  <2> QED BY <1>2, <2>1, CongMod, CongSym
<1>11. Cong(w, 1 + ((d + (v * t)) * n), m)
  <2> DEFINE i == v * t
  <2>1. i \in Int /\ d \in Int
    <3> HIDE DEF t
    <3> QED BY <1>1, <1>2
  <2>2. Cong(h, 1 + (i * n), n * n) /\ Cong(y, 1 + (d * n), n * n) /\ Cong(w, y * h, n * n)
    BY <1>8, <1>9, <1>10
  <2>3. Cong(w, 1 + ((d + i) * n), n * n)
    <3> HIDE DEF n, d, i, y, h, w
    <3> QED BY <1>1, <1>5, <1>9, <1>10, <2>1, <2>2, LinearProduct
  <2> QED BY <2>3
<1>12. blindCipher(k, encrypt(k, v, u)) = w
  BY DEF blindCipher
<1> HIDE DEF w
<1> QED BY <1>10, <1>11, <1>12

\* The masks cancel against the modulus, and what is left is lambda times the
\* difference: integers only.
LEMMA MasksCancel ==
  ASSUME NEW n \in Int, NEW e \in Int, NEW d \in Int, e + d = n,
         NEW s \in Int, NEW lambda \in Int, NEW r \in Int, NEW x \in Int,
         NEW v \in Int, NEW j \in Int, NEW w \in Int, w = (n - v) + (j * n)
  PROVE  (e + (((s * x) + r) * lambda)) + (d + (w * (s * lambda)))
           = (lambda * ((s * (x - v)) + r)) + ((1 + (((1 + j) * s) * lambda)) * n)
<1>1. w * (s * lambda) = ((n - v) * (s * lambda)) + ((j * n) * (s * lambda))
  OBVIOUS
<1>2. ((n - v) * (s * lambda)) = (s * lambda * n) - (v * (s * lambda))
  OBVIOUS
<1>3. (((1 + j) * s) * lambda) * n = (s * lambda * n) + ((j * n) * (s * lambda))
  OBVIOUS
<1>4. (lambda * ((s * (x - v)) + r)) = (((s * x) + r) * lambda) - (v * (s * lambda))
  OBVIOUS
<1> QED BY <1>1, <1>2, <1>3, <1>4

\* With the right inverse, lambda goes.
LEMMA InverseApplies ==
  ASSUME NEW n \in Nat \ {0}, NEW lambda \in Int, NEW mu \in Int, Cong(lambda * mu, 1, n),
         NEW t \in Int, NEW d \in Int, Cong(t, lambda * d, n)
  PROVE  ((t % n) * mu) % n = d % n
<1> DEFINE r == t % n
<1>1. r \in Int /\ Cong(t, r, n) /\ n \in Int
  <2>1. n \in Nat \ {0} /\ n \in Int /\ t \in Int
    OBVIOUS
  <2>2. (t % n) \in Int /\ Cong(t, t % n, n)
    BY CongMod
  <2> QED BY <2>1, <2>2
<1> HIDE DEF r
<1>2. lambda * d \in Int
  OBVIOUS
<1>3. Cong(r, lambda * d, n)
  BY <1>1, <1>2, CongSym, CongTrans
<1>4. Cong(mu, mu, n) /\ Cong(d, d, n)
  BY <1>1, CongRefl
<1>5. Cong(r * mu, (lambda * d) * mu, n)
  BY <1>1, <1>2, <1>3, <1>4, CongMul
<1>6. Cong((lambda * mu) * d, 1 * d, n) /\ (lambda * mu) * d = (lambda * d) * mu /\ 1 * d = d
  <2>1. lambda * mu \in Int /\ 1 \in Int
    OBVIOUS
  <2>2. Cong((lambda * mu) * d, 1 * d, n)
    BY <2>1, <1>1, <1>4, CongMul
  <2> QED BY <2>2
<1>7. r * mu \in Int /\ (lambda * d) * mu \in Int
  BY <1>1
<1>8. Cong(r * mu, d, n)
  BY <1>1, <1>5, <1>6, <1>7, CongTrans
<1>9. (r * mu) % n = d % n
  BY <1>7, <1>8, CongRemainder
<1> QED BY <1>9 DEF r

\* The lemma of the matching protocol: one bound, one notification, one key.
LEMMA OneKeyRecovers ==
  ASSUME NEW k, GoodKey(k), NEW x \in Nat, NEW r \in Nat, NEW v \in Nat,
         NEW u \in Units(k.n)
  PROVE  Recovered(Public(k), blindNotification(k, x, r),
                   blindCipher(k, encrypt(k, (k.n - v) % k.n, u)))
           = Difference(k.n, k.r_m, r, x, v)
<1> DEFINE n == k.n  e == k.e_m  d == k.d_m  s == k.r_m  lambda == k.lambda  mu == k.mu
           w == (n - v) % n  j == -((n - v) \div n)
           a == e + (((s * x) + r) * lambda)
           b == d + (w * (s * lambda))
           y == blindNotification(k, x, r)
           z == blindCipher(k, encrypt(k, w, u))
           D == (s * (x - v)) + r
           q == 1 + (((1 + j) * s) * lambda)
<1>1. /\ n \in Nat \ {0, 1} /\ e \in Nat /\ d \in Nat /\ e + d = n /\ s \in Nat
      /\ lambda \in Nat /\ mu \in Nat /\ Cong(lambda * mu, 1, n)
  BY DEF GoodKey
<1>2. w \in Nat /\ j \in Int /\ w = (n - v) + (j * n)
  <2> DEFINE c == n - v  i == c \div n
  <2>1. w \in 0 .. n - 1 /\ i \in Int /\ c = w + (i * n) /\ c \in Int
    <3>1. c \in Int /\ n \in Nat \ {0} /\ w = c % n
      BY <1>1
    <3>2. (c % n) \in 0 .. n - 1 /\ i \in Int /\ c = (c % n) + (i * n)
      <4> HIDE DEF c, n, w
      <4> QED BY <3>1, ModParts
    <3> HIDE DEF c, n, w, i
    <3> QED BY <3>1, <3>2
  <2> HIDE DEF w, i, n
  <2>2. w \in Nat /\ -i \in Int /\ w = c + ((-i) * n)
    BY <1>1, <2>1
  <2> QED BY <2>2 DEF i
<1>3. a \in Int /\ b \in Int /\ D \in Int /\ q \in Int
  <2> HIDE DEF n, e, d, s, lambda, w, j
  <2> QED BY <1>1, <1>2
<1>4. a + b = (lambda * D) + (q * n)
  <2> HIDE DEF n, e, d, s, lambda, w, j
  <2> QED BY <1>1, <1>2, MasksCancel
<1>5. y \in Int /\ Cong(y, 1 + (a * n), n * n)
  BY NotificationLinear
<1>6. z \in Int /\ Cong(z, 1 + (b * n), n * n)
  <2> HIDE DEF w
  <2> QED BY <1>2, CipherLinear
<1>7. y * z \in Int /\ Cong(y * z, 1 + ((a + b) * n), n * n)
  <2> HIDE DEF n, a, b, y, z
  <2>1. y * z \in Int /\ n * n \in Int /\ n \in Nat \ {0}
    BY <1>1, <1>5, <1>6
  <2>2. Cong(y * z, y * z, n * n)
    BY <2>1, CongRefl
  <2> QED BY <1>3, <1>5, <1>6, <2>1, <2>2, LinearProduct
<1>8. L((y * z) % (n * n), n) = (a + b) % n
  <2> DEFINE p == y * z  t == a + b
  <2>1. p \in Int /\ t \in Int /\ Cong(p, 1 + (t * n), n * n)
    <3> HIDE DEF n, a, b, y, z
    <3> QED BY <1>3, <1>7
  <2>2. L(p % (n * n), n) = t % n
    <3> HIDE DEF p, t, n
    <3> QED BY <1>1, <2>1, LinearRead
  <2> QED BY <2>2
<1>9. (((a + b) % n) * mu) % n = D % n
  <2> DEFINE t == a + b
  <2>1. t \in Int /\ t = (lambda * D) + (q * n) /\ n \in Nat \ {0}
        /\ lambda \in Int /\ mu \in Int /\ D \in Int /\ q \in Int
        /\ Cong(lambda * mu, 1, n)
    <3> HIDE DEF n, a, b, D, q
    <3> QED BY <1>1, <1>3, <1>4
  <2>3. Cong(t, lambda * D, n)
    <3> HIDE DEF n, lambda, mu, D, q, t
    <3> QED BY <2>1 DEF Cong
  <2>2. ((t % n) * mu) % n = D % n
    <3> HIDE DEF n, lambda, mu, D, q, t, a, b, e, d, s, w, j, y, z
    <3>1. \A i, h \in Int : Cong(i, lambda * h, n) => ((i % n) * mu) % n = h % n
      BY <2>1, InverseApplies
    <3> QED BY <2>1, <2>3, <3>1
  <2> QED BY <2>2
<1>10. Recovered(Public(k), y, z) = (L((y * z) % (n * n), n) * mu) % n
  BY DEF Recovered, Public
<1>11. Recovered(Public(k), y, z) = D % n
  <2> HIDE DEF a, b, y, z, D, n, mu
  <2> QED BY <1>8, <1>9, <1>10
<1>12. Difference(k.n, k.r_m, r, x, v) = D % n
  BY DEF Difference
<1> HIDE DEF D
<1> QED BY <1>11, <1>12

-----------------------------------------------------------------------------
\* The thresholds.

\* A number within half of n on either side of zero keeps its sign modulo n:
\* the lower half stands for it, or the upper half does.
LEMMA SignModulo ==
  ASSUME NEW n \in Nat \ {0}, NEW d \in Int,
         -(n \div 2) < d, d < n \div 2
  PROVE  /\ d >= 0 => d % n = d
         /\ d < 0 => d % n = d + n
OBVIOUS

\* Stretching keeps the order.
LEMMA StretchMonotone ==
  ASSUME NEW k \in Nat, NEW a \in Int, NEW b \in Int, a <= b
  PROVE  k * a <= k * b
OBVIOUS

\* Where spread differences stay within half of the modulus, the recovered
\* difference lies in the lower half exactly when x is not below v, and never
\* on the middle that both tests exclude (the threshold corollary of
\* main_fixed.tex, for the floor division the code uses).
LEMMA DifferenceSign ==
  ASSUME NEW n \in Nat \ {0}, NEW r_m \in Nat, NEW r \in Nat,
         0 < r, r < r_m,
         NEW x \in Int, NEW v \in Int,
         r_m * (x - v) + r < n \div 2, r_m * (v - x) < n \div 2
  PROVE  /\ x >= v => Difference(n, r_m, r, x, v) < n \div 2
         /\ x < v => Difference(n, r_m, r, x, v) > n \div 2
<1> DEFINE p == r_m * (x - v)
<1>1. p \in Int /\ n \div 2 \in Nat /\ 2 * (n \div 2) <= n
  OBVIOUS
<1>2. r_m * (v - x) = -p
  OBVIOUS
<1>3. -(n \div 2) < p + r /\ p + r < n \div 2
  BY <1>1, <1>2
<1>4. Difference(n, r_m, r, x, v) = (p + r) % n
  BY DEF Difference
<1>5. CASE x >= v
  <2>1. r_m * 0 <= p
    BY <1>5, StretchMonotone, 0 <= x - v
  <2>2. p + r >= 0
    BY <1>1, <2>1
  <2> HIDE DEF p
  <2>3. (p + r) % n = p + r
    BY <1>1, <1>3, <2>2, SignModulo
  <2> QED
    BY <1>3, <1>4, <1>5, <2>3
<1>6. CASE x < v
  <2>1. p <= r_m * (-1)
    BY <1>6, StretchMonotone, x - v <= -1
  <2>2. p + r < 0
    BY <1>1, <2>1
  <2> HIDE DEF p
  <2>3. (p + r) % n = p + r + n
    BY <1>1, <1>3, <2>2, SignModulo
  <2> QED
    BY <1>1, <1>3, <1>4, <1>6, <2>3
<1> QED
  BY <1>5, <1>6

\* The spread is one of the draws, and the names' distance and one more, stretched,
\* stay below the floor of n/2.
WithinHalf(n, r_m, r, x, v) ==
    /\ 0 < r /\ r < r_m
    /\ r_m * (x - v + 1) < n \div 2 /\ r_m * (v - x + 1) < n \div 2

\* The two tests together hold exactly for equal names.
Decides(n, r_m, r, x, v) ==
    Threshold(n, Difference(n, r_m, r, x, v), Difference(n, r_m, r, x, v + 1)) <=> x = v

\* x is at least v and not at least v + 1.
LEMMA WithinHalfDecides ==
  ASSUME NEW n \in Nat \ {0}, NEW r_m \in Nat, NEW r \in Nat,
         NEW x \in Int, NEW v \in Int, WithinHalf(n, r_m, r, x, v)
  PROVE  Decides(n, r_m, r, x, v)
<1>0. /\ 0 < r /\ r < r_m
      /\ r_m * (x - v + 1) < n \div 2 /\ r_m * (v - x + 1) < n \div 2
  BY DEF WithinHalf
<1>1. r_m * (x - v + 1) = r_m * (x - v) + r_m /\ r_m * (x - v) \in Int
  OBVIOUS
<1>2. r_m * (x - (v + 1)) = r_m * (x - v) - r_m
  OBVIOUS
<1>3. r_m * (v - x) <= r_m * (v - x + 1) /\ r_m * (v - x) \in Int
  BY StretchMonotone
<1>4. n \div 2 \in Nat
  OBVIOUS
<1>5. /\ x >= v => Difference(n, r_m, r, x, v) < n \div 2
      /\ x < v => Difference(n, r_m, r, x, v) > n \div 2
  <2>1. r_m * (x - v) + r < n \div 2 /\ r_m * (v - x) < n \div 2
    BY <1>0, <1>1, <1>3, <1>4
  <2> QED
    BY <1>0, <2>1, DifferenceSign
<1>6. /\ x >= v + 1 => Difference(n, r_m, r, x, v + 1) < n \div 2
      /\ x < v + 1 => Difference(n, r_m, r, x, v + 1) > n \div 2
  <2> DEFINE w == v + 1
  <2>1. w \in Int /\ r_m * (x - w) + r < n \div 2 /\ r_m * (w - x) < n \div 2
    BY <1>0, <1>1, <1>2, <1>4, v + 1 - x = v - x + 1
  <2> HIDE DEF w
  <2>2. /\ x >= w => Difference(n, r_m, r, x, w) < n \div 2
        /\ x < w => Difference(n, r_m, r, x, w) > n \div 2
    BY <1>0, <2>1, DifferenceSign
  <2> QED
    BY <2>2 DEF w
<1>7. /\ Difference(n, r_m, r, x, v) \in Int
      /\ Difference(n, r_m, r, x, v + 1) \in Int
  BY DEF Difference
<1> QED
  BY <1>4, <1>5, <1>6, <1>7 DEF Threshold, Decides

\* With a 64-bit hash, r_m below 2^992 and a 2048-bit n the bounds hold by far
\* (the corollary of main_fixed.tex:181, in the form the code needs).
THEOREM ThresholdIsEquality ==
  ASSUME NEW n \in Nat \ {0}, NEW r_m \in Nat, NEW r \in Nat,
         0 < r, r < r_m,
         NEW x \in Int, NEW v \in Int,
         r_m * (x - v + 1) < n \div 2, r_m * (v - x + 1) < n \div 2
  PROVE  Threshold(n, Difference(n, r_m, r, x, v),
                      Difference(n, r_m, r, x, v + 1)) <=> x = v
<1>1. WithinHalf(n, r_m, r, x, v)
  BY DEF WithinHalf
<1>2. Decides(n, r_m, r, x, v)
  BY <1>1, WithinHalfDecides
<1> QED BY <1>2 DEF Decides

-----------------------------------------------------------------------------
\* From recovered differences to verdicts, in every reachable state.

\* The subscription on file is the blinded bounds of its name.
SubBlinded(r1, r2) ==
    /\ sub.m1 = blindSubscription(sub.key, sub.v, r1, r2).m1
    /\ sub.m2 = blindSubscription(sub.key, sub.v, r1, r2).m2

\* Keys are of keyGen, values are of names and draws of the key they were
\* blinded with, and the verdict on file is executeMatch of what is on file.
MatchInv ==
    /\ file \in Keys \cup {NoKey}
    /\ sub # NoSub =>
         /\ sub.key \in Keys /\ sub.v \in Names
         /\ \E r1, r2 \in Units(sub.key.n) : SubBlinded(r1, r2)
    /\ pub # NoPub =>
         /\ sub # NoSub
         /\ pub.key \in Keys /\ pub.x \in Names /\ pub.r \in Spreads(pub.key.r_m)
         /\ pub.bval_n = blindNotification(pub.key, pub.x, pub.r)
         /\ verdict = executeMatch(matcher, pub.bval_n, sub.m1, sub.m2)

\* A draw is positive and below the stretch, also where 0 was drawn.
LEMMA SpreadBelowStretch ==
  ASSUME NEW r_m \in Nat \ {0, 1}, NEW r \in Spreads(r_m)
  PROVE  r \in Nat /\ 0 < r /\ r < r_m
BY DEF Spreads

\* The modulus and the stretch of a generated key are among the choices.
LEMMA KeyParts ==
  ASSUME NEW k \in Keys
  PROVE  /\ k.r_m \in Nat \ {0, 1} /\ k.n \in Nat \ {0}
         /\ \A x, v \in Names : k.r_m * (x - v + 1) < k.n \div 2
<1>1. PICK pq \in Primes, e \in Masks, s \in Scalars :
        k = keyGen(pq[1], pq[2], e, s)
  BY DEF Keys
<1>2. k.n = pq[1] * pq[2] /\ k.r_m = s
  BY <1>1 DEF keyGen
<1> QED
  BY <1>2, MatchAssumption

LEMMA MatchInvInit == Init => MatchInv
BY DEF Init, MatchInv

LEMMA MatchInvNext == MatchInv /\ [Next]_vars => MatchInv'
<1> SUFFICES ASSUME MatchInv, [Next]_vars PROVE MatchInv'
  OBVIOUS
<1>1. ASSUME NEW k \in Keys, RootRun(k) PROVE MatchInv'
  <2>1. CASE GroupGone
    BY <1>1, <2>1 DEF RootRun, GroupGone, MatchInv
  <2>2. CASE UNCHANGED <<matcher, sub, pub, verdict>>
    BY <1>1, <2>2 DEF RootRun, MatchInv, SubBlinded
  <2> QED
    BY <1>1, <2>1, <2>2 DEF RootRun
<1>2. CASE LeafRun
  BY <1>2 DEF LeafRun, GroupGone, MatchInv
<1>3. ASSUME NEW v \in Names, NEW r1 \in Nonces, NEW r2 \in Nonces,
             Subscribe(v, r1, r2)
      PROVE  MatchInv'
  <2>1. /\ file \in Keys /\ UNCHANGED <<file, pub>> /\ sub = NoSub
        /\ r1 \in Units(file.n) /\ r2 \in Units(file.n)
        /\ LET b == blindSubscription(file, v, r1, r2)
           IN  sub' = [v |-> v, key |-> file, m1 |-> b.m1, m2 |-> b.m2]
    BY <1>3 DEF Subscribe, loadState, MatchInv
  <2>2. sub'.key = file /\ sub'.v = v /\ SubBlinded(r1, r2)'
    BY <2>1 DEF SubBlinded
  <2>3. r1 \in Units(sub'.key.n) /\ r2 \in Units(sub'.key.n)
    BY <2>1, <2>2
  <2> QED BY <2>1, <2>2, <2>3 DEF MatchInv
<1>4. ASSUME NEW x \in Names, NEW r, Publish(x, r) PROVE MatchInv'
  <2>1. /\ file \in Keys /\ UNCHANGED <<file, matcher, sub>> /\ sub # NoSub
        /\ r \in Spreads(file.r_m)
        /\ LET bval_n == blindNotification(file, x, r)
           IN  /\ pub' = [x |-> x, key |-> file, r |-> r, bval_n |-> bval_n]
               /\ verdict' = executeMatch(matcher, bval_n, sub.m1, sub.m2)
    BY <1>4 DEF Publish, loadState, MatchInv
  <2> QED BY <2>1 DEF MatchInv, SubBlinded
<1>5. CASE GroupExpires
  BY <1>5 DEF GroupExpires, GroupGone, MatchInv
<1>6. CASE UNCHANGED vars
  BY <1>6 DEF vars, MatchInv, SubBlinded
<1> QED
  BY <1>1, <1>2, <1>3, <1>4, <1>5, <1>6 DEF Next

\* What one key blinded, its broker reads as the difference of the names.
LEMMA OneKeyIsExact == MatchInv => DifferenceExact
<1> SUFFICES ASSUME MatchInv, OneKey
             PROVE  LET n == matcher.n
                        k == sub.key
                    IN  /\ Recovered(matcher, pub.bval_n, sub.m1)
                             = Difference(n, k.r_m, pub.r, pub.x, sub.v)
                        /\ Recovered(matcher, pub.bval_n, sub.m2)
                             = Difference(n, k.r_m, pub.r, pub.x, sub.v + 1)
  BY DEF DifferenceExact
<1>1. PICK k, x, r, v : k = sub.key /\ x = pub.x /\ r = pub.r /\ v = sub.v
  OBVIOUS
<1>2. /\ k \in Keys /\ x \in Names /\ v \in Names /\ r \in Spreads(k.r_m)
      /\ matcher = Public(k) /\ matcher.n = k.n
      /\ pub.bval_n = blindNotification(k, x, r)
  BY <1>1 DEF MatchInv, OneKey, Public
<1>3. PICK r1, r2 \in Units(k.n) :
        /\ sub.m1 = blindCipher(k, encrypt(k, (k.n - v) % k.n, r1))
        /\ sub.m2 = blindCipher(k, encrypt(k, (k.n - (v + 1)) % k.n, r2))
  BY <1>1 DEF MatchInv, OneKey, SubBlinded, blindSubscription
<1>4. GoodKey(k)
  BY <1>2, KeysAreGood
<1>5. x \in Nat /\ v \in Nat /\ v + 1 \in Nat
  <2>1. Names \subseteq Nat
    BY MatchAssumption
  <2>2. x \in Nat /\ v \in Nat
    BY <1>2, <2>1
  <2> QED BY <2>2
<1>6. r \in Nat
  <2>1. k.r_m \in Nat \ {0, 1}
    BY <1>4 DEF GoodKey
  <2> QED BY <1>2, <2>1, SpreadBelowStretch
<1>7. \A y \in Nat : \A u \in Units(k.n) :
        Recovered(Public(k), blindNotification(k, x, r),
                  blindCipher(k, encrypt(k, (k.n - y) % k.n, u)))
          = Difference(k.n, k.r_m, r, x, y)
  BY <1>4, <1>5, <1>6, OneKeyRecovers
<1>8. Recovered(matcher, pub.bval_n, sub.m1) = Difference(k.n, k.r_m, r, x, v)
  <2>1. Recovered(Public(k), blindNotification(k, x, r),
                  blindCipher(k, encrypt(k, (k.n - v) % k.n, r1)))
          = Difference(k.n, k.r_m, r, x, v)
    BY <1>5, <1>7
  <2> QED BY <1>2, <1>3, <2>1, Zenon
<1>9. Recovered(matcher, pub.bval_n, sub.m2) = Difference(k.n, k.r_m, r, x, v + 1)
  <2>1. Recovered(Public(k), blindNotification(k, x, r),
                  blindCipher(k, encrypt(k, (k.n - (v + 1)) % k.n, r2)))
          = Difference(k.n, k.r_m, r, x, v + 1)
    BY <1>5, <1>7
  <2> QED BY <1>2, <1>3, <2>1, Zenon
<1> QED BY <1>1, <1>2, <1>8, <1>9

\* Exact differences make right verdicts.
LEMMA ExactMeansEqual == MatchInv /\ DifferenceExact => VerdictIsEquality
<1> SUFFICES ASSUME MatchInv, DifferenceExact, OneKey
             PROVE  verdict <=> pub.x = sub.v
  BY DEF VerdictIsEquality
<1> DEFINE k == sub.key
<1>1. k \in Keys /\ sub.v \in Names /\ pub.x \in Names
  BY DEF MatchInv, OneKey
<1>2. pub.r \in Spreads(k.r_m)
  BY DEF MatchInv, OneKey
<1>3. matcher.n = k.n
  BY DEF OneKey, Public
<1>4. verdict <=> Threshold(k.n, Difference(k.n, k.r_m, pub.r, pub.x, sub.v),
                             Difference(k.n, k.r_m, pub.r, pub.x, sub.v + 1))
  BY <1>3 DEF MatchInv, OneKey, DifferenceExact, executeMatch
<1> HIDE DEF k
<1>5. /\ k.r_m \in Nat \ {0, 1} /\ k.n \in Nat \ {0}
      /\ k.r_m * (pub.x - sub.v + 1) < k.n \div 2
      /\ k.r_m * (sub.v - pub.x + 1) < k.n \div 2
  BY <1>1, KeyParts
<1>6. pub.x \in Int /\ sub.v \in Int
  <2>1. Names \subseteq Nat
    BY MatchAssumption
  <2>2. pub.x \in Nat /\ sub.v \in Nat
    BY <1>1, <2>1
  <2> QED
    BY <2>2
<1>7. pub.r \in Nat /\ 0 < pub.r /\ pub.r < k.r_m /\ k.r_m \in Nat
  BY <1>2, <1>5, SpreadBelowStretch
<1>8. Threshold(k.n, Difference(k.n, k.r_m, pub.r, pub.x, sub.v),
                     Difference(k.n, k.r_m, pub.r, pub.x, sub.v + 1))
        <=> pub.x = sub.v
  <2> DEFINE n == k.n
             s == k.r_m
             r == pub.r
             x == pub.x
             v == sub.v
  <2>1. /\ n \in Nat \ {0} /\ s \in Nat /\ r \in Nat /\ x \in Int /\ v \in Int
        /\ WithinHalf(n, s, r, x, v)
    BY <1>5, <1>6, <1>7 DEF WithinHalf
  <2> HIDE DEF n, s, r, x, v
  <2>2. Decides(n, s, r, x, v)
    BY <2>1, WithinHalfDecides
  <2> QED
    BY <2>2 DEF n, s, r, x, v, Decides
<1> QED
  BY <1>4, <1>8

\* The invariant of keys and blinded values.
THEOREM MatchInvariant == Spec => []MatchInv
<1> QED BY MatchInvInit, MatchInvNext, PTL DEF Spec

\* With one key the broker recovers exactly the stretched and spread difference
\* of the names, from either bound: the masks cancel, encrypt's randomness
\* disappears and the division is exact (the lemma of main_fixed.tex:177, on the
\* steps of Paillier.cpp and executeMatch).
THEOREM DifferenceRecovered == Spec => []DifferenceExact
<1> QED BY MatchInvariant, OneKeyIsExact, PTL

\* Whatever the keys, the order of runs and the draws: with one key executeMatch
\* says yes exactly for equal names.
THEOREM VerdictFollows == Spec => []VerdictIsEquality
<1>1. MatchInv => VerdictIsEquality
  BY OneKeyIsExact, ExactMeansEqual
<1> QED BY <1>1, MatchInvariant, PTL
=============================================================================
