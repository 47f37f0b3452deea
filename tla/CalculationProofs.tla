--------------------------- MODULE CalculationProofs ---------------------------
(***************************************************************************)
(* Theorems about Calculation, for any size of an int, any number of       *)
(* values of a byte, and any operands the user may type.                   *)
(***************************************************************************)
EXTENDS Calculation, SequenceTheorems, WellFoundedInduction, TLAPS

(* Induction over numbers *)

\* What holds of zero and of the successor of every number it holds of, holds
\* of every number: otherwise there is a least one it does not hold of.
LEMMA Induction ==
  ASSUME NEW S, 0 \in S, \A n \in Nat : n \in S => n + 1 \in S
  PROVE  Nat \subseteq S
<1> SUFFICES ASSUME ~ (Nat \subseteq S) PROVE FALSE
  OBVIOUS
<1> DEFINE T == {n \in Nat : n \notin S}
<1>1. T # {} /\ T \subseteq Nat
  OBVIOUS
<1>2. PICK n \in T : \A m \in T : ~ (<<m, n>> \in OpToRel(<, Nat))
  <2> HIDE DEF T
  <2> QED BY <1>1, NatLessThanWellFounded, WFMin
<1>3. \A m \in T : ~ (m < n)
  BY <1>2 DEF OpToRel
<1> QED BY <1>3, n - 1 \in Nat \/ n = 0

\* What a recursion over 0 .. m does to a member of S at each of its steps.
StepsOf(S, m) == [1 .. m -> [S -> S]]

\* There is the function that a recursion over 0 .. m describes.
LEMMA Recursion ==
  ASSUME NEW S, NEW a \in S, NEW m \in Nat, NEW h \in StepsOf(S, m)
  PROVE  \E f \in [0 .. m -> S] : f[0] = a /\ \A n \in 1 .. m : f[n] = h[n][f[n - 1]]
<1> DEFINE Upto(n, f) == f[0] = a /\ \A k \in 1 .. n : f[k] = h[k][f[k - 1]]
           T == {n \in Nat : n <= m => \E f \in [0 .. n -> S] : Upto(n, f)}
<1> USE DEF StepsOf
<1>1. 0 \in T
  <2>1. [k \in 0 .. 0 |-> a] \in [0 .. 0 -> S] /\ Upto(0, [k \in 0 .. 0 |-> a])
    OBVIOUS
  <2> QED BY <2>1
<1>2. ASSUME NEW n \in Nat, n \in T PROVE n + 1 \in T
  <2> SUFFICES ASSUME n + 1 <= m PROVE \E f \in [0 .. n + 1 -> S] : Upto(n + 1, f)
    OBVIOUS
  <2>1. PICK f \in [0 .. n -> S] : Upto(n, f)
    BY <1>2
  <2> DEFINE g == [k \in 0 .. n + 1 |-> IF k = n + 1 THEN h[n + 1][f[n]] ELSE f[k]]
  <2>2. h[n + 1] \in [S -> S] /\ f[n] \in S
    OBVIOUS
  <2>3. g \in [0 .. n + 1 -> S]
    BY <2>2
  <2>4. Upto(n + 1, g)
    BY <2>1
  <2> QED BY <2>3, <2>4
<1> HIDE DEF T
<1>3. Nat \subseteq T
  BY <1>1, <1>2, Induction
<1>4. m \in T
  BY <1>3
<1> QED BY <1>4 DEF T

\* What a recursion yields stays in the set its steps stay in.
LEMMA RecursionStays ==
  ASSUME NEW S, NEW m \in Nat, NEW f, f[0] \in S,
         \A n \in 1 .. m : f[n - 1] \in S => f[n] \in S
  PROVE  \A n \in 0 .. m : f[n] \in S
<1> DEFINE T == {n \in Nat : n <= m => f[n] \in S}
<1>1. 0 \in T
  OBVIOUS
<1>2. ASSUME NEW n \in Nat, n \in T PROVE n + 1 \in T
  <2> SUFFICES ASSUME n + 1 <= m PROVE f[n + 1] \in S
    OBVIOUS
  <2>1. n + 1 \in 1 .. m /\ (n + 1) - 1 = n /\ f[n] \in S
    BY <1>2
  <2> QED BY <2>1
<1> HIDE DEF T
<1>3. Nat \subseteq T
  BY <1>1, <1>2, Induction
<1> QED BY <1>3 DEF T

-----------------------------------------------------------------------------
(* What the recursive functions compute *)

LEMMA PowerUnfolds ==
  /\ Power[0] = 1
  /\ \A k \in 1 .. WordSz : Power[k] = Base * Power[k - 1]
  /\ \A k \in 0 .. WordSz : Power[k] \in Nat \ {0}
<1> DEFINE P == Nat \ {0}
           h == [k \in 1 .. WordSz |-> [p \in P |-> Base * p]]
<1>1. WordSz \in Nat
  BY CalculationAssumption
<1>2. 1 \in P
  OBVIOUS
<1>3. \A p \in P : Base * p \in P
  BY CalculationAssumption
<1>4. h \in StepsOf(P, WordSz)
  BY <1>3 DEF StepsOf
<1>5. \A k \in 1 .. WordSz, p \in P : h[k][p] = Base * p
  OBVIOUS
<1> HIDE DEF h, P
<1>6. PICK f \in [0 .. WordSz -> P] : f[0] = 1 /\ \A n \in 1 .. WordSz : f[n] = h[n][f[n - 1]]
  BY <1>1, <1>2, <1>4, Recursion, SMT
<1>7. \A n \in 1 .. WordSz : f[n] = Base * f[n - 1]
  BY <1>1, <1>5, <1>6
<1>8. f = [k \in 0 .. WordSz |-> IF k = 0 THEN 1 ELSE Base * f[k - 1]]
  BY <1>1, <1>6, <1>7
<1>9. Power = [k \in 0 .. WordSz |-> IF k = 0 THEN 1 ELSE Base * Power[k - 1]]
  BY <1>8 DEF Power
<1>10. \A k \in 0 .. WordSz : Power[k] = IF k = 0 THEN 1 ELSE Base * Power[k - 1]
  BY <1>9, Zenon
<1>11. Power[0] = 1
  BY <1>1, <1>10
<1>12. \A k \in 1 .. WordSz : Power[k] = Base * Power[k - 1]
  BY <1>1, <1>10
<1>13. \A k \in 0 .. WordSz : Power[k] \in P
  <2>1. Power[0] \in P
    BY <1>2, <1>11
  <2>2. \A k \in 1 .. WordSz : Power[k - 1] \in P => Power[k] \in P
    BY <1>3, <1>12
  <2> QED BY <1>1, <2>1, <2>2, RecursionStays
<1> QED BY <1>11, <1>12, <1>13 DEF P

LEMMA ValuesUnfold ==
  ASSUME NEW s \in [1 .. WordSz -> Int]
  PROVE  /\ Values(s)[0] = 0
         /\ \A k \in 1 .. WordSz : Values(s)[k] = Values(s)[k - 1] + s[k] * Power[k - 1]
         /\ \A k \in 0 .. WordSz : Values(s)[k] \in Int
<1> DEFINE P == Int
           v == Values(s)
           h == [k \in 1 .. WordSz |-> [p \in P |-> p + s[k] * Power[k - 1]]]
<1>1. WordSz \in Nat
  BY CalculationAssumption
<1>2. 0 \in P
  OBVIOUS
<1>3. \A k \in 1 .. WordSz, p \in P : p + s[k] * Power[k - 1] \in P
  <2> SUFFICES ASSUME NEW k \in 1 .. WordSz, NEW p \in P PROVE p + s[k] * Power[k - 1] \in P
    OBVIOUS
  <2>1. Power[k - 1] \in Int /\ s[k] \in Int
    BY <1>1, PowerUnfolds
  <2> QED BY <2>1
<1>4. h \in StepsOf(P, WordSz)
  BY <1>3 DEF StepsOf
<1>5. \A k \in 1 .. WordSz, p \in P : h[k][p] = p + s[k] * Power[k - 1]
  OBVIOUS
<1> HIDE DEF h, P
<1>6. PICK f \in [0 .. WordSz -> P] : f[0] = 0 /\ \A n \in 1 .. WordSz : f[n] = h[n][f[n - 1]]
  BY <1>1, <1>2, <1>4, Recursion, SMT
<1>7. \A n \in 1 .. WordSz : f[n] = f[n - 1] + s[n] * Power[n - 1]
  BY <1>1, <1>5, <1>6
<1>8. f = [k \in 0 .. WordSz |-> IF k = 0 THEN 0 ELSE f[k - 1] + s[k] * Power[k - 1]]
  BY <1>1, <1>6, <1>7
<1>9. v = [k \in 0 .. WordSz |-> IF k = 0 THEN 0 ELSE v[k - 1] + s[k] * Power[k - 1]]
  BY <1>8 DEF Values
<1> HIDE DEF v
<1>10. \A k \in 0 .. WordSz : v[k] = IF k = 0 THEN 0 ELSE v[k - 1] + s[k] * Power[k - 1]
  BY <1>9, Zenon
<1>11. v[0] = 0
  BY <1>1, <1>10
<1>12. \A k \in 1 .. WordSz : v[k] = v[k - 1] + s[k] * Power[k - 1]
  BY <1>1, <1>10
<1>13. \A k \in 0 .. WordSz : v[k] \in P
  <2>1. v[0] \in P
    BY <1>2, <1>11
  <2>2. \A k \in 1 .. WordSz : v[k - 1] \in P => v[k] \in P
    BY <1>3, <1>12
  <2> QED BY <1>1, <2>1, <2>2, RecursionStays
<1> QED BY <1>11, <1>12, <1>13 DEF P, v

LEMMA SumsUnfold ==
  ASSUME NEW s \in Seq(Int)
  PROVE  /\ Sums(s)[0] = 0
         /\ \A k \in 1 .. Len(s) : Sums(s)[k] = Sums(s)[k - 1] + s[k]
         /\ \A k \in 0 .. Len(s) : Sums(s)[k] \in Int
<1> DEFINE P == Int
           m == Len(s)
           v == Sums(s)
           h == [k \in 1 .. m |-> [p \in P |-> p + s[k]]]
<1>1. m \in Nat
  OBVIOUS
<1>2. 0 \in P
  OBVIOUS
<1>3. \A k \in 1 .. m, p \in P : p + s[k] \in P
  <2> SUFFICES ASSUME NEW k \in 1 .. m, NEW p \in P PROVE p + s[k] \in P
    OBVIOUS
  <2>1. s[k] \in Int
    OBVIOUS
  <2> QED BY <2>1
<1>4. h \in StepsOf(P, m)
  BY <1>3 DEF StepsOf
<1>5. \A k \in 1 .. m, p \in P : h[k][p] = p + s[k]
  OBVIOUS
<1>0. v = CHOOSE f : f = [k \in 0 .. m |-> IF k = 0 THEN 0 ELSE f[k - 1] + s[k]]
  BY DEF Sums
<1> HIDE DEF h, P, m, v
<1>6. PICK f \in [0 .. m -> P] : f[0] = 0 /\ \A n \in 1 .. m : f[n] = h[n][f[n - 1]]
  BY <1>1, <1>2, <1>4, Recursion, SMT
<1>7. \A n \in 1 .. m : f[n] = f[n - 1] + s[n]
  BY <1>1, <1>5, <1>6
<1>8. f = [k \in 0 .. m |-> IF k = 0 THEN 0 ELSE f[k - 1] + s[k]]
  BY <1>1, <1>6, <1>7
<1>9. v = [k \in 0 .. m |-> IF k = 0 THEN 0 ELSE v[k - 1] + s[k]]
  BY <1>0, <1>8
<1>10. \A k \in 0 .. m : v[k] = IF k = 0 THEN 0 ELSE v[k - 1] + s[k]
  BY <1>9, Zenon
<1>11. v[0] = 0
  BY <1>1, <1>10
<1>12. \A k \in 1 .. m : v[k] = v[k - 1] + s[k]
  BY <1>1, <1>10
<1>13. \A k \in 0 .. m : v[k] \in P
  <2>1. v[0] \in P
    BY <1>2, <1>11
  <2>2. \A k \in 1 .. m : v[k - 1] \in P => v[k] \in P
    BY <1>3, <1>12
  <2> QED BY <1>1, <2>1, <2>2, RecursionStays
<1> QED BY <1>11, <1>12, <1>13 DEF P, v, m

LEMMA ProductsUnfold ==
  ASSUME NEW s \in Seq(Int)
  PROVE  /\ Products(s)[0] = 1
         /\ \A k \in 1 .. Len(s) : Products(s)[k] = Products(s)[k - 1] * s[k]
         /\ \A k \in 0 .. Len(s) : Products(s)[k] \in Int
<1> DEFINE P == Int
           m == Len(s)
           v == Products(s)
           h == [k \in 1 .. m |-> [p \in P |-> p * s[k]]]
<1>1. m \in Nat
  OBVIOUS
<1>2. 1 \in P
  OBVIOUS
<1>3. \A k \in 1 .. m, p \in P : p * s[k] \in P
  <2> SUFFICES ASSUME NEW k \in 1 .. m, NEW p \in P PROVE p * s[k] \in P
    OBVIOUS
  <2>1. s[k] \in Int
    OBVIOUS
  <2> QED BY <2>1
<1>4. h \in StepsOf(P, m)
  BY <1>3 DEF StepsOf
<1>5. \A k \in 1 .. m, p \in P : h[k][p] = p * s[k]
  OBVIOUS
<1>0. v = CHOOSE f : f = [k \in 0 .. m |-> IF k = 0 THEN 1 ELSE f[k - 1] * s[k]]
  BY DEF Products
<1> HIDE DEF h, P, m, v
<1>6. PICK f \in [0 .. m -> P] : f[0] = 1 /\ \A n \in 1 .. m : f[n] = h[n][f[n - 1]]
  BY <1>1, <1>2, <1>4, Recursion, SMT
<1>7. \A n \in 1 .. m : f[n] = f[n - 1] * s[n]
  BY <1>1, <1>5, <1>6
<1>8. f = [k \in 0 .. m |-> IF k = 0 THEN 1 ELSE f[k - 1] * s[k]]
  BY <1>1, <1>6, <1>7
<1>9. v = [k \in 0 .. m |-> IF k = 0 THEN 1 ELSE v[k - 1] * s[k]]
  BY <1>0, <1>8
<1>10. \A k \in 0 .. m : v[k] = IF k = 0 THEN 1 ELSE v[k - 1] * s[k]
  BY <1>9, Zenon
<1>11. v[0] = 1
  BY <1>1, <1>10
<1>12. \A k \in 1 .. m : v[k] = v[k - 1] * s[k]
  BY <1>1, <1>10
<1>13. \A k \in 0 .. m : v[k] \in P
  <2>1. v[0] \in P
    BY <1>2, <1>11
  <2>2. \A k \in 1 .. m : v[k - 1] \in P => v[k] \in P
    BY <1>3, <1>12
  <2> QED BY <1>1, <2>1, <2>2, RecursionStays
<1> QED BY <1>11, <1>12, <1>13 DEF P, v, m

-----------------------------------------------------------------------------
(* Division and the integers of the machine *)

\* Quotient and remainder of a number are what they are.
LEMMA DivMod ==
  ASSUME NEW a \in Int, NEW b \in Nat \ {0}
  PROVE  a \div b \in Int /\ a % b \in 0 .. b - 1 /\ a = b * (a \div b) + (a % b)
  OBVIOUS

\* There is no other pair like them.
LEMMA DivModUnique ==
  ASSUME NEW a \in Int, NEW b \in Nat \ {0}, NEW q \in Int, NEW r \in 0 .. b - 1,
         a = b * q + r
  PROVE  a \div b = q /\ a % b = r
  OBVIOUS

\* One more digit of a number: the rest by b * p is that by p, and p times the
\* last digit of the quotient.
LEMMA ModStep ==
  ASSUME NEW u \in Nat, NEW p \in Nat \ {0}, NEW b \in Nat \ {0}
  PROVE  u % (b * p) = (u % p) + ((u \div p) % b) * p
<1> DEFINE q == u \div p
           r == u % p
           d == q % b
           e == q \div b
<1>1. q \in Int /\ r \in 0 .. p - 1 /\ u = p * q + r
  BY DivMod
<1>2. e \in Int /\ d \in 0 .. b - 1 /\ q = b * e + d
  BY <1>1, DivMod
<1> HIDE DEF q, r, d, e
<1>3. b * p \in Nat \ {0} /\ d * p \in Int
  BY <1>1, <1>2
<1>4. u = (b * p) * e + (r + d * p)
  <2>1. p * q = p * (b * e) + p * d
    BY <1>2
  <2>2. p * (b * e) = (b * p) * e /\ p * d = d * p
    BY <1>2
  <2>3. (b * p) * e \in Int
    BY <1>2
  <2> QED BY <1>1, <1>3, <2>1, <2>2, <2>3
<1>5. r + d * p \in 0 .. (b * p) - 1
  <2>1. d * p >= 0
    BY <1>2
  <2>2. d * p <= (b - 1) * p
    BY <1>2
  <2>3. (b - 1) * p = b * p - p
    OBVIOUS
  <2> QED BY <1>1, <1>3, <2>1, <2>2, <2>3
<1>6. u % (b * p) = r + d * p
  <2> DEFINE m == b * p
             k == r + d * p
  <2>1. m \in Nat \ {0} /\ k \in 0 .. m - 1 /\ u = m * e + k
    BY <1>3, <1>4, <1>5
  <2> HIDE DEF m, k
  <2>2. u % m = k
    BY <1>2, <2>1, DivModUnique
  <2> QED BY <2>2 DEF m, k
<1> QED BY <1>6 DEF q, r, d

\* There are as many ints below zero as not below.
LEMMA IntsFacts ==
  \E n \in Nat \ {0} : Modulus = 2 * n /\ MinInt = - n /\ MaxInt = n - 1
<1>1. Base \in Nat \ {0} /\ Base % 2 = 0 /\ WordSz \in Nat \ {0}
  BY CalculationAssumption
<1>2. PICK b \in Nat \ {0} : Base = 2 * b
  BY <1>1
<1>3. PICK p \in Nat \ {0} : p = Power[WordSz - 1] /\ Power[WordSz] = Base * p
  <2>1. WordSz \in 1 .. WordSz /\ WordSz - 1 \in 0 .. WordSz
    BY <1>1
  <2>2. Power[WordSz - 1] \in Nat \ {0} /\ Power[WordSz] = Base * Power[WordSz - 1]
    BY <2>1, PowerUnfolds
  <2> QED BY <2>2
<1>4. b * p \in Nat \ {0} /\ Modulus = 2 * (b * p)
  BY <1>2, <1>3 DEF Modulus
<1>5. Modulus \div 2 = b * p
  BY <1>4
<1> QED BY <1>4, <1>5 DEF MinInt, MaxInt

LEMMA ModulusPositive == Modulus \in Nat \ {0} /\ Ints \subseteq Int /\ 0 \in Ints
  BY IntsFacts DEF Ints

\* Wrapping a number yields an int that differs by a multiple of Modulus.
LEMMA WrapMod ==
  ASSUME NEW n \in Int
  PROVE  /\ Wrap(n) \in Ints /\ Wrap(n) \in Int
         /\ \E q \in Int : n = Wrap(n) + Modulus * q
<1>1. PICK h \in Nat \ {0} : Modulus = 2 * h /\ MinInt = - h /\ MaxInt = h - 1
  BY IntsFacts
<1> DEFINE q == (n - MinInt) \div Modulus
           r == (n - MinInt) % Modulus
<1>2. n - MinInt \in Int /\ Modulus \in Nat \ {0}
  BY <1>1
<1>3. q \in Int /\ r \in 0 .. Modulus - 1 /\ n - MinInt = Modulus * q + r
  BY <1>2, DivMod
<1>4. Wrap(n) = r + MinInt
  BY DEF Wrap
<1> HIDE DEF q, r
<1>5. Wrap(n) \in Ints
  BY <1>1, <1>3, <1>4 DEF Ints
<1>6. n = Wrap(n) + Modulus * q
  <2>1. Modulus * q \in Int
    BY <1>2, <1>3
  <2> QED BY <1>1, <1>3, <1>4, <2>1
<1> QED BY <1>3, <1>5, <1>6, ModulusPositive

\* It is the only such int.
LEMMA WrapUnique ==
  ASSUME NEW n \in Int, NEW k \in Ints, NEW q \in Int, n = k + Modulus * q
  PROVE  Wrap(n) = k
<1>1. PICK h \in Nat \ {0} : Modulus = 2 * h /\ MinInt = - h /\ MaxInt = h - 1
  BY IntsFacts
<1>2. n - MinInt \in Int /\ Modulus \in Nat \ {0} /\ Modulus * q \in Int
  BY <1>1
<1>3. k - MinInt \in 0 .. Modulus - 1 /\ k \in Int
  BY <1>1 DEF Ints
<1>4. n - MinInt = Modulus * q + (k - MinInt)
  BY <1>1, <1>2, <1>3
<1>5. (n - MinInt) % Modulus = k - MinInt
  BY <1>2, <1>3, <1>4, DivModUnique
<1> QED BY <1>1, <1>3, <1>5 DEF Wrap

LEMMA WrapInt ==
  ASSUME NEW n \in Ints
  PROVE  Wrap(n) = n
<1>1. n \in Int /\ n = n + Modulus * 0
  BY ModulusPositive
<1> QED BY <1>1, WrapUnique

\* Numbers that differ by a multiple of Modulus wrap to the same int.
LEMMA WrapSame ==
  ASSUME NEW a \in Int, NEW b \in Int, NEW q \in Int, a = b + Modulus * q
  PROVE  Wrap(a) = Wrap(b)
<1>1. PICK r \in Int : b = Wrap(b) + Modulus * r
  BY WrapMod
<1>2. Wrap(b) \in Ints /\ Wrap(b) \in Int /\ Modulus \in Int
  <2>1. Wrap(b) \in Ints /\ Wrap(b) \in Int
    BY WrapMod
  <2> QED BY <2>1, ModulusPositive
<1>3. Modulus * r \in Int /\ Modulus * q \in Int
      /\ Modulus * (r + q) = Modulus * r + Modulus * q
  BY <1>2
<1>4. a = Wrap(b) + Modulus * (r + q)
  BY <1>1, <1>2, <1>3
<1> QED BY <1>2, <1>4, WrapUnique

\* It makes no difference whether an operand is wrapped before the operation, or
\* only the result.
LEMMA WrapOnce ==
  ASSUME NEW a \in Int, NEW b \in Int
  PROVE  /\ Wrap(Wrap(a) + b) = Wrap(a + b)
         /\ Wrap(Wrap(a) - b) = Wrap(a - b)
         /\ Wrap(Wrap(a) * b) = Wrap(a * b)
<1>1. PICK q \in Int : a = Wrap(a) + Modulus * q
  BY WrapMod
<1> DEFINE w == Wrap(a)
           m == Modulus
<1>2. w \in Int /\ m \in Int /\ a = w + m * q
  <2>1. w \in Int
    BY WrapMod
  <2> QED BY <1>1, <2>1, ModulusPositive
<1> HIDE DEF w, m
<1>3. m * q \in Int /\ q * b \in Int /\ w * b \in Int /\ a * b \in Int
  BY <1>2
<1>4. a + b = (w + b) + m * q /\ a - b = (w - b) + m * q
  BY <1>2, <1>3
<1>5. a * b = w * b + m * (q * b)
  <2>1. (w + m * q) * b = w * b + (m * q) * b
    BY <1>2, <1>3
  <2>2. (m * q) * b = m * (q * b)
    BY <1>2
  <2> QED BY <1>2, <2>1, <2>2
<1>6. \A c \in Int, d \in Int, k \in Int : c = d + m * k => Wrap(c) = Wrap(d)
  BY WrapSame DEF m
<1>7. Wrap(a + b) = Wrap(w + b) /\ Wrap(a - b) = Wrap(w - b)
  <2>1. a + b \in Int /\ w + b \in Int /\ a - b \in Int /\ w - b \in Int
    BY <1>2
  <2> QED BY <1>4, <1>6, <2>1
<1>8. Wrap(a * b) = Wrap(w * b)
  BY <1>3, <1>5, <1>6
<1> QED BY <1>7, <1>8 DEF w

\* Dividing twice divides by the product.
LEMMA DivDiv ==
  ASSUME NEW a \in Nat, NEW p \in Nat \ {0}, NEW b \in Nat \ {0}
  PROVE  (a \div p) \div b = a \div (p * b)
<1> DEFINE q == a \div p
           r == a % p
           e == q \div b
           d == q % b
           m == p * b
           k == p * d + r
<1>1. q \in Int /\ r \in 0 .. p - 1 /\ a = p * q + r
  BY DivMod
<1>2. e \in Int /\ d \in 0 .. b - 1 /\ q = b * e + d
  BY <1>1, DivMod
<1> HIDE DEF q, r, d, e
<1>3. m \in Nat \ {0} /\ p * d \in Int
  BY <1>1, <1>2
<1>4. a = m * e + k
  <2>1. p * q = p * (b * e) + p * d
    BY <1>2
  <2>2. p * (b * e) = m * e
    BY <1>2
  <2>3. m * e \in Int
    BY <1>2
  <2> QED BY <1>1, <1>3, <2>1, <2>2, <2>3
<1>5. k \in 0 .. m - 1
  <2>1. p * d >= 0
    BY <1>2
  <2>2. p * d <= p * (b - 1)
    BY <1>2
  <2>3. p * (b - 1) = p * b - p
    OBVIOUS
  <2> QED BY <1>1, <1>3, <2>1, <2>2, <2>3
<1> HIDE DEF m, k
<1>6. a \div m = e
  BY <1>2, <1>3, <1>4, <1>5, DivModUnique
<1> QED BY <1>6 DEF m, e, q

\* A quotient is no larger than the dividend, and as large only if the divisor
\* is one.
LEMMA DivBounds ==
  ASSUME NEW a \in Nat, NEW b \in Nat \ {0}
  PROVE  /\ a \div b \in Nat /\ a \div b <= a
         /\ a \div b = a => a = 0 \/ b = 1
<1> DEFINE q == a \div b
           r == a % b
<1>1. q \in Int /\ r \in 0 .. b - 1 /\ a = b * q + r
  BY DivMod
<1> HIDE DEF q, r
<1>2. q >= 0
  <2> SUFFICES ASSUME q <= -1 PROVE FALSE
    BY <1>1
  <2>1. b * q <= b * (-1)
    BY <1>1
  <2>2. b * q \in Int
    BY <1>1
  <2> QED BY <1>1, <2>1, <2>2
<1>3. b * q = q + (b - 1) * q
  BY <1>1
<1>4. (b - 1) * q >= 0
  BY <1>1, <1>2
<1>5. q <= a
  BY <1>1, <1>3, <1>4
<1>6. ASSUME q = a, a # 0, b # 1 PROVE FALSE
  <2>1. (b - 1) * q >= q
    BY <1>1, <1>2, <1>6
  <2> QED BY <1>1, <1>2, <1>3, <1>6, <2>1
<1> QED BY <1>1, <1>2, <1>5, <1>6 DEF q

\* The size of a quotient, and when it is negative.
LEMMA QuotientFacts ==
  ASSUME NEW a \in Int, NEW b \in Int \ {0}
  PROVE  /\ Abs(a) \in Nat /\ Abs(b) \in Nat \ {0}
         /\ Abs(a) \div Abs(b) \in Nat
         /\ Quotient(a, b) = IF (a < 0) = (b < 0) THEN Abs(a) \div Abs(b)
                                                  ELSE - (Abs(a) \div Abs(b))
         /\ Quotient(a, b) \in Int
         /\ Abs(Quotient(a, b)) = Abs(a) \div Abs(b)
<1>1. Abs(a) \in Nat /\ Abs(b) \in Nat \ {0}
  BY DEF Abs
<1> DEFINE k == Abs(a) \div Abs(b)
<1>2. k \in Nat
  BY <1>1, DivBounds
<1>3. Quotient(a, b) = IF (a < 0) = (b < 0) THEN k ELSE - k
  BY DEF Quotient
<1> HIDE DEF k
<1>4. Quotient(a, b) \in {k, - k}
  BY <1>3
<1>5. Abs(Quotient(a, b)) = k /\ Quotient(a, b) \in Int
  BY <1>2, <1>4 DEF Abs
<1> QED BY <1>1, <1>2, <1>3, <1>5 DEF k

\* Dividing twice and rounding each time divides by the product.
LEMMA QuotientTwice ==
  ASSUME NEW a \in Int, NEW p \in Int \ {0}, NEW b \in Int \ {0}
  PROVE  Quotient(Quotient(a, p), b) = Quotient(a, p * b)
<1> DEFINE q == Quotient(a, p)
           k == Abs(a) \div Abs(p)
           n == k \div Abs(b)
<1>1. /\ k \in Nat /\ q \in Int /\ Abs(q) = k
      /\ q = IF (a < 0) = (p < 0) THEN k ELSE - k
  BY QuotientFacts
<1>2. p * b \in Int \ {0}
  OBVIOUS
<1>3. Abs(a) \in Nat /\ Abs(p) \in Nat \ {0} /\ Abs(b) \in Nat \ {0}
  BY DEF Abs
<1>4. Abs(p * b) = Abs(p) * Abs(b) /\ ((p * b < 0) = ((p < 0) # (b < 0)))
  <2>1. CASE p > 0 /\ b > 0
    BY <2>1 DEF Abs
  <2>2. CASE p > 0 /\ b < 0
    BY <2>2 DEF Abs
  <2>3. CASE p < 0 /\ b > 0
    BY <2>3 DEF Abs
  <2>4. CASE p < 0 /\ b < 0
    BY <2>4 DEF Abs
  <2> QED BY <2>1, <2>2, <2>3, <2>4
<1>5. Abs(a) \div Abs(p * b) = n
  BY <1>3, <1>4, DivDiv
<1>6. Quotient(a, p * b) = IF (a < 0) = (p * b < 0) THEN n ELSE - n
  BY <1>5 DEF Quotient
<1>7. Quotient(q, b) = IF (q < 0) = (b < 0) THEN n ELSE - n
  BY <1>1 DEF Quotient
<1>8. n \in Nat /\ (k = 0 => n = 0)
  <2>1. n \in Nat /\ n <= k
    BY <1>1, <1>3, DivBounds
  <2> QED BY <1>1, <2>1
<1> HIDE DEF q, k, n
<1>9. CASE k = 0
  BY <1>6, <1>7, <1>8, <1>9 DEF q
<1>10. CASE k # 0
  <2>1. (q < 0) = ((a < 0) # (p < 0))
    BY <1>1, <1>10
  <2>2. ((q < 0) = (b < 0)) = ((a < 0) = (p * b < 0))
    BY <1>4, <2>1
  <2> QED BY <1>6, <1>7, <2>2 DEF q
<1> QED BY <1>9, <1>10

\* A quotient of ints is an int, but for that of the least one by minus one, and
\* the least int only if it was the dividend.
LEMMA QuotientInt ==
  ASSUME NEW a \in Ints, NEW b \in Int \ {0}
  PROVE  /\ ~ (a = MinInt /\ b = -1) => Quotient(a, b) \in Ints
         /\ Quotient(a, b) = MinInt => a = MinInt /\ b = 1
<1>1. PICK h \in Nat \ {0} : MinInt = - h /\ MaxInt = h - 1
  BY IntsFacts
<1> DEFINE k == Abs(a) \div Abs(b)
           q == Quotient(a, b)
<1>2. a \in Int /\ a >= - h /\ a <= h - 1
  BY <1>1 DEF Ints
<1>3. Abs(a) \in Nat /\ Abs(a) <= h /\ (Abs(a) = h => a = - h)
  BY <1>2 DEF Abs
<1>4. Abs(b) \in Nat \ {0} /\ (Abs(b) = 1 => b \in {1, -1})
  BY DEF Abs
<1>5. q = IF (a < 0) = (b < 0) THEN k ELSE - k
  BY DEF Quotient
<1>6. k \in Nat /\ k <= Abs(a) /\ (k = Abs(a) => Abs(a) = 0 \/ Abs(b) = 1)
  BY <1>3, <1>4, DivBounds
<1> HIDE DEF k, q
<1>7. k = h => a = - h /\ b \in {1, -1}
  BY <1>3, <1>4, <1>6
<1>8. q = - h => a = - h /\ b = 1
  BY <1>2, <1>3, <1>5, <1>6, <1>7
<1>9. ~ (a = - h /\ b = -1) => q \in - h .. h - 1
  BY <1>2, <1>3, <1>5, <1>6, <1>7
<1> QED BY <1>1, <1>8, <1>9 DEF q, Ints

\* A zero among the factors.
LEMMA ProductsZero ==
  ASSUME NEW s \in Seq(Int), NEW j \in 1 .. Len(s), s[j] = 0
  PROVE  \A k \in j .. Len(s) : Products(s)[k] = 0
<1> DEFINE v == Products(s)
           T == {n \in Nat : n \in j .. Len(s) => v[n] = 0}
<1>1. /\ \A k \in 1 .. Len(s) : v[k] = v[k - 1] * s[k]
      /\ \A k \in 0 .. Len(s) : v[k] \in Int
  BY ProductsUnfold
<1> HIDE DEF v
<1>2. 0 \in T
  OBVIOUS
<1>3. ASSUME NEW n \in Nat, n \in T PROVE n + 1 \in T
  <2> SUFFICES ASSUME n + 1 \in j .. Len(s) PROVE v[n + 1] = 0
    OBVIOUS
  <2>1. v[n + 1] = v[n] * s[n + 1] /\ v[n] \in Int /\ s[n + 1] \in Int
    BY <1>1
  <2>2. CASE n + 1 = j
    BY <2>1, <2>2
  <2>3. CASE n + 1 # j
    <3>1. v[n] = 0
      BY <1>3, <2>3
    <3> QED BY <2>1, <3>1
  <2> QED BY <2>2, <2>3
<1> HIDE DEF T
<1>4. Nat \subseteq T
  BY <1>2, <1>3, Induction
<1> QED BY <1>4 DEF T, v

-----------------------------------------------------------------------------
(* Ints in bytes, and in the buffer *)

\* The first k bytes of an int hold its rest by Power[k].
LEMMA BytesValues ==
  ASSUME NEW n \in Int
  PROVE  /\ BytesOf(n) \in [1 .. WordSz -> Bytes]
         /\ \A k \in 0 .. WordSz : Values(BytesOf(n))[k] = (n % Modulus) % Power[k]
<1> DEFINE b == BytesOf(n)
           u == n % Modulus
           v == Values(b)
<1>1. WordSz \in Nat \ {0} /\ Base \in Nat \ {0}
  BY CalculationAssumption
<1>2. u \in Nat
  BY ModulusPositive, DivMod
<1>3. \A k \in 1 .. WordSz : Power[k - 1] \in Nat \ {0} /\ Power[k] = Base * Power[k - 1]
  BY <1>1, PowerUnfolds
<1>4. b = [k \in 1 .. WordSz |-> (u \div Power[k - 1]) % Base]
  BY DEF BytesOf
<1> HIDE DEF u
<1>5. \A k \in 1 .. WordSz : (u \div Power[k - 1]) % Base \in Bytes
  <2> SUFFICES ASSUME NEW k \in 1 .. WordSz PROVE (u \div Power[k - 1]) % Base \in 0 .. Base - 1
    BY DEF Bytes
  <2> DEFINE p == Power[k - 1]
             q == u \div p
  <2>1. p \in Nat \ {0}
    BY <1>3
  <2>2. u \in Int
    BY <1>2
  <2> HIDE DEF p
  <2>3. q \in Int
    BY <2>1, <2>2, DivMod
  <2> HIDE DEF q
  <2>4. q % Base \in 0 .. Base - 1
    BY <1>1, <2>3, DivMod
  <2> QED BY <2>4 DEF p, q
<1>6. b \in [1 .. WordSz -> Bytes]
  BY <1>4, <1>5
<1>7. b \in [1 .. WordSz -> Int]
  BY <1>1, <1>6 DEF Bytes
<1> HIDE DEF b
<1>8. v[0] = 0 /\ \A k \in 1 .. WordSz : v[k] = v[k - 1] + b[k] * Power[k - 1]
  BY <1>7, ValuesUnfold
<1> HIDE DEF v
<1> DEFINE T == {k \in Nat : k <= WordSz => v[k] = u % Power[k]}
<1>9. 0 \in T
  <2>1. u % 1 = 0
    BY <1>2
  <2> QED BY <1>8, <2>1, PowerUnfolds
<1>10. ASSUME NEW k \in Nat, k \in T PROVE k + 1 \in T
  <2> SUFFICES ASSUME k + 1 <= WordSz PROVE v[k + 1] = u % Power[k + 1]
    OBVIOUS
  <2> DEFINE p == Power[k]
  <2>1. k + 1 \in 1 .. WordSz /\ (k + 1) - 1 = k
    BY <1>1
  <2>2. p \in Nat \ {0} /\ Power[k + 1] = Base * p
    BY <1>3, <2>1
  <2>3. v[k + 1] = v[k] + b[k + 1] * p
    BY <1>8, <2>1
  <2>4. v[k] = u % p
    <3>1. k <= WordSz
      BY <1>1
    <3> QED BY <1>10, <3>1
  <2>5. b[k + 1] = (u \div p) % Base
    BY <1>4, <2>1
  <2> HIDE DEF p
  <2>6. u % (Base * p) = (u % p) + ((u \div p) % Base) * p
    BY <1>1, <1>2, <2>2, ModStep
  <2> QED BY <2>2, <2>3, <2>4, <2>5, <2>6
<1> HIDE DEF T
<1>11. Nat \subseteq T
  BY <1>9, <1>10, Induction
<1>12. \A k \in 0 .. WordSz : v[k] = u % Power[k]
  BY <1>1, <1>11 DEF T
<1> QED BY <1>6, <1>12 DEF b, u, v

\* An int that was taken apart is put together again.
LEMMA IntOfBytes ==
  ASSUME NEW n \in Ints
  PROVE  IntOf(BytesOf(n)) = n
<1> DEFINE u == n % Modulus
           q == n \div Modulus
<1>1. n \in Int /\ Modulus \in Nat \ {0}
  BY ModulusPositive
<1>2. q \in Int /\ u \in 0 .. Modulus - 1 /\ n = Modulus * q + u
  BY <1>1, DivMod
<1>3. Values(BytesOf(n))[WordSz] = u % Modulus
  <2>1. WordSz \in 0 .. WordSz
    BY CalculationAssumption
  <2> QED BY <1>1, <2>1, BytesValues DEF Modulus
<1> HIDE DEF u, q
<1>4. u % Modulus = u
  BY <1>1, <1>2
<1>5. n = u + Modulus * q /\ u \in Int
  <2>1. Modulus * q \in Int
    BY <1>1, <1>2
  <2> QED BY <1>1, <1>2, <2>1
<1>6. Wrap(n) = Wrap(u)
  BY <1>1, <1>2, <1>5, WrapSame
<1> QED BY <1>3, <1>4, <1>6, WrapInt DEF IntOf

\* What a cell of a buffer may hold.
Cells == Operators \cup Bytes \cup {Unwritten}

\* The buffer before and after the operator was typed.
Buffers ==
  {b \in [1 .. BufSz -> Cells] :
     /\ b[1] \in Operators \cup {Unwritten}
     /\ \A k \in 2 .. BufSz : b[k] \in Bytes \cup {Unwritten}}

\* Operator, count and operands lie in the buffer one behind the other.
LEMMA Layout ==
  /\ HeadSz \in Nat /\ HeadSz = 1 + WordSz
  /\ BufSz \in Nat /\ BufSz >= HeadSz /\ BufSz >= 1 + MaxOpnds
  /\ \A k \in 1 .. MaxOpnds :
       OpndAt(k) \in Nat /\ OpndAt(k) >= HeadSz /\ OpndAt(k) + WordSz <= BufSz
  /\ \A j, k \in 1 .. MaxOpnds : j < k => OpndAt(j) + WordSz <= OpndAt(k)
  /\ \A k \in 0 .. MaxOpnds : OpndAt(k + 1) \in HeadSz .. BufSz
  /\ \A j, k \in 0 .. MaxOpnds : j < k => OpndAt(j + 1) + WordSz <= OpndAt(k + 1)
  /\ \A k \in Int : OpndAt(k + 1) \in Int /\ (OpndAt(k + 1) >= HeadSz => k >= 0)
<1>1. WordSz \in Nat \ {0} /\ MaxOpnds \in Nat
  BY CalculationAssumption
<1>2. HeadSz = 1 + WordSz
  BY DEF HeadSz, OPTR_SZ
<1> DEFINE At(k) == k * WordSz
<1>3. \A k \in Int : At(k) \in Int
  BY <1>1
<1>4. \A k \in Int : OpndAt(k + 1) = HeadSz + At(k) /\ OpndAt(k) = HeadSz + At(k - 1)
  <2>1. \A k \in Int : (k + 1) - 1 = k
    OBVIOUS
  <2> QED BY <2>1 DEF OpndAt
<1>5. \A j, k \in Int : j <= k => At(j) <= At(k)
  BY <1>1
<1>6. \A k \in Int : At(k + 1) = At(k) + WordSz
  BY <1>1
<1>7. At(0) = 0
  BY <1>1
<1>8. BufSz = HeadSz + At(MaxOpnds)
  BY <1>1, <1>4 DEF BufSz
<1> HIDE DEF At
<1>9. \A j, k \in Int : j < k => At(j) + WordSz <= At(k)
  <2> SUFFICES ASSUME NEW j \in Int, NEW k \in Int, j < k PROVE At(j) + WordSz <= At(k)
    OBVIOUS
  <2>1. j + 1 \in Int /\ j + 1 <= k
    OBVIOUS
  <2>2. At(j + 1) <= At(k) /\ At(j + 1) = At(j) + WordSz
    BY <1>5, <1>6, <2>1
  <2> QED BY <2>2
<1>10. \A k \in 0 .. MaxOpnds : At(k) \in 0 .. At(MaxOpnds)
  BY <1>1, <1>3, <1>5, <1>7
<1>11. HeadSz \in Nat /\ BufSz \in Nat /\ BufSz >= HeadSz
  BY <1>1, <1>2, <1>8, <1>10
<1>17. BufSz >= 1 + MaxOpnds
  <2>1. At(MaxOpnds) >= MaxOpnds
    BY <1>1 DEF At
  <2> QED BY <1>1, <1>2, <1>3, <1>8, <2>1
<1>12. \A k \in 1 .. MaxOpnds :
         OpndAt(k) \in Nat /\ OpndAt(k) >= HeadSz /\ OpndAt(k) + WordSz <= BufSz
  <2> SUFFICES ASSUME NEW k \in 1 .. MaxOpnds
               PROVE  OpndAt(k) \in Nat /\ OpndAt(k) >= HeadSz /\ OpndAt(k) + WordSz <= BufSz
    OBVIOUS
  <2>1. k - 1 \in 0 .. MaxOpnds /\ k - 1 < MaxOpnds /\ k \in Int
    BY <1>1
  <2>2. At(k - 1) \in 0 .. At(MaxOpnds) /\ At(k - 1) + WordSz <= At(MaxOpnds)
    BY <1>1, <1>9, <1>10, <2>1
  <2>3. OpndAt(k) = HeadSz + At(k - 1)
    BY <1>4, <2>1
  <2> QED BY <1>1, <1>3, <1>8, <1>11, <2>2, <2>3
<1>13. \A j, k \in 1 .. MaxOpnds : j < k => OpndAt(j) + WordSz <= OpndAt(k)
  <2> SUFFICES ASSUME NEW j \in 1 .. MaxOpnds, NEW k \in 1 .. MaxOpnds, j < k
               PROVE  OpndAt(j) + WordSz <= OpndAt(k)
    OBVIOUS
  <2>1. At(j - 1) + WordSz <= At(k - 1) /\ At(j - 1) \in Int /\ At(k - 1) \in Int
    BY <1>3, <1>9
  <2>2. OpndAt(j) = HeadSz + At(j - 1) /\ OpndAt(k) = HeadSz + At(k - 1)
    BY <1>4
  <2> QED BY <1>1, <1>11, <2>1, <2>2
<1>14. \A k \in 0 .. MaxOpnds : OpndAt(k + 1) \in HeadSz .. BufSz
  <2> SUFFICES ASSUME NEW k \in 0 .. MaxOpnds PROVE OpndAt(k + 1) \in HeadSz .. BufSz
    OBVIOUS
  <2>1. OpndAt(k + 1) = HeadSz + At(k) /\ At(k) \in 0 .. At(MaxOpnds)
    BY <1>4, <1>10
  <2> QED BY <1>1, <1>3, <1>8, <1>11, <2>1
<1>15. \A j, k \in 0 .. MaxOpnds : j < k => OpndAt(j + 1) + WordSz <= OpndAt(k + 1)
  <2> SUFFICES ASSUME NEW j \in 0 .. MaxOpnds, NEW k \in 0 .. MaxOpnds, j < k
               PROVE  OpndAt(j + 1) + WordSz <= OpndAt(k + 1)
    OBVIOUS
  <2>1. At(j) + WordSz <= At(k) /\ At(j) \in Int /\ At(k) \in Int
    BY <1>3, <1>9
  <2>2. OpndAt(j + 1) = HeadSz + At(j) /\ OpndAt(k + 1) = HeadSz + At(k)
    BY <1>4
  <2> QED BY <1>1, <1>11, <2>1, <2>2
<1>16. ASSUME NEW k \in Int
       PROVE  OpndAt(k + 1) \in Int /\ (OpndAt(k + 1) >= HeadSz => k >= 0)
  <2>1. OpndAt(k + 1) = HeadSz + At(k) /\ At(k) \in Int
    BY <1>3, <1>4
  <2>2. k < 0 => At(k) + WordSz <= 0
    BY <1>7, <1>9
  <2> QED BY <1>1, <1>11, <2>1, <2>2
<1> QED BY <1>2, <1>11, <1>12, <1>13, <1>14, <1>15, <1>16, <1>17

\* The int at an offset is made of the bytes there, and of nothing else.
LEMMA IntAtSame ==
  ASSUME NEW a, NEW b, NEW o \in Int, NEW p \in Int,
         \A k \in 1 .. WordSz : a[o + k] = b[p + k]
  PROVE  IntAt(a, o) = IntAt(b, p)
<1> DEFINE n == WordSz
           S == {a[j] : j \in o + 1 .. o + n} \cup {b[j] : j \in p + 1 .. p + n}
           x == SubSeq(a, o + 1, o + n)
           y == SubSeq(b, p + 1, p + n)
<1>1. n \in Nat /\ \A k \in 1 .. n : a[o + k] = b[p + k]
  BY CalculationAssumption
<1>2. IntAt(a, o) = IntOf(x) /\ IntAt(b, p) = IntOf(y)
  BY DEF IntAt
<1>3. \A j \in o + 1 .. o + n : a[j] \in S
  OBVIOUS
<1>4. \A j \in p + 1 .. p + n : b[j] \in S
  OBVIOUS
<1> HIDE DEF n, S
<1>5. /\ o + 1 \in Int /\ o + n \in Int /\ p + 1 \in Int /\ p + n \in Int
      /\ (o + n) - (o + 1) + 1 = n /\ (p + n) - (p + 1) + 1 = n
      /\ o + 1 <= o + n <=> n # 0
      /\ p + 1 <= p + n <=> n # 0
      /\ \A k \in 1 .. n : (o + 1) + k - 1 = o + k /\ (p + 1) + k - 1 = p + k
  BY <1>1
<1>6. x \in Seq(S) /\ Len(x) = n /\ \A k \in 1 .. n : x[k] = a[o + k]
  BY <1>1, <1>3, <1>5, SubSeqProperties
<1>7. y \in Seq(S) /\ Len(y) = n /\ \A k \in 1 .. n : y[k] = b[p + k]
  BY <1>1, <1>4, <1>5, SubSeqProperties
<1> HIDE DEF x, y
<1>8. x = y
  BY <1>1, <1>6, <1>7, SeqEqual
<1> QED BY <1>2, <1>8

\* The int of the bytes of n is n, wherever they lie.
LEMMA IntAtBytes ==
  ASSUME NEW b, NEW o \in Int, NEW n \in Ints,
         \A k \in 1 .. WordSz : b[o + k] = BytesOf(n)[k]
  PROVE  IntAt(b, o) = n
<1> DEFINE y == BytesOf(n)
<1>1. WordSz \in Nat /\ n \in Int
  BY CalculationAssumption, ModulusPositive
<1>2. y \in [1 .. WordSz -> Bytes]
  BY <1>1, BytesValues
<1> HIDE DEF y
<1>3. \A k \in 1 .. WordSz : b[o + k] = y[0 + k]
  BY <1>1 DEF y
<1>4. IntAt(b, o) = IntAt(y, 0)
  BY <1>3, IntAtSame
<1>5. SubSeq(y, 0 + 1, 0 + WordSz) = y
  <2>1. y \in Seq(Bytes) /\ Len(y) = WordSz
    BY <1>1, <1>2
  <2> QED BY <1>1, <2>1, SubSeqFull
<1> QED BY <1>4, <1>5, IntOfBytes DEF IntAt, y

\* scanf("%d") puts an int in its place and leaves the rest alone.
LEMMA StoredFacts ==
  ASSUME NEW b \in Buffers, NEW off \in Nat, off >= 1, off + WordSz <= BufSz,
         NEW n \in Ints
  PROVE  /\ Stored(b, off, n) \in Buffers
         /\ Stored(b, off, n)[1] = b[1]
         /\ IntAt(Stored(b, off, n), off) = n
         /\ \A o \in Nat : o + WordSz <= BufSz /\ (o + WordSz <= off \/ off + WordSz <= o) =>
              IntAt(Stored(b, off, n), o) = IntAt(b, o)
<1> DEFINE c == Stored(b, off, n)
           y == BytesOf(n)
<1>1. WordSz \in Nat \ {0} /\ BufSz \in Nat /\ n \in Int
  BY CalculationAssumption, Layout, ModulusPositive
<1>2. y \in [1 .. WordSz -> Bytes]
  BY <1>1, BytesValues
<1>3. DOMAIN b = 1 .. BufSz
  BY DEF Buffers
<1>4. c = [k \in 1 .. BufSz |-> IF k \in off + 1 .. off + WordSz THEN y[k - off] ELSE b[k]]
  BY <1>3 DEF Stored
<1> HIDE DEF c, y
<1>5. \A k \in 1 .. BufSz : k \in off + 1 .. off + WordSz => c[k] \in Bytes
  BY <1>1, <1>2, <1>4
<1>6. \A k \in 1 .. BufSz : k \notin off + 1 .. off + WordSz => c[k] = b[k]
  BY <1>4
<1>7. c[1] = b[1]
  BY <1>1, <1>6
<1>8. c \in Buffers
  <2>1. \A k \in 1 .. BufSz : c[k] \in Cells
    BY <1>5, <1>6 DEF Buffers, Cells
  <2>2. \A k \in 2 .. BufSz : c[k] \in Bytes \cup {Unwritten}
    <3>1. \A k \in 2 .. BufSz : b[k] \in Bytes \cup {Unwritten}
      BY DEF Buffers
    <3>2. \A k \in 2 .. BufSz : k \in 1 .. BufSz
      BY <1>1
    <3> QED BY <1>5, <1>6, <3>1, <3>2
  <2>3. c \in [1 .. BufSz -> Cells]
    BY <1>4, <2>1
  <2> QED BY <1>7, <2>2, <2>3 DEF Buffers
<1>9. \A k \in 1 .. WordSz : c[off + k] = y[k]
  <2> SUFFICES ASSUME NEW k \in 1 .. WordSz PROVE c[off + k] = y[k]
    OBVIOUS
  <2>1. off + k \in 1 .. BufSz /\ off + k \in off + 1 .. off + WordSz /\ (off + k) - off = k
    BY <1>1
  <2> QED BY <1>4, <2>1
<1>10. IntAt(c, off) = n
  BY <1>9, IntAtBytes DEF y
<1>11. ASSUME NEW o \in Nat, o + WordSz <= BufSz, o + WordSz <= off \/ off + WordSz <= o
       PROVE  IntAt(c, o) = IntAt(b, o)
  <2>1. \A k \in 1 .. WordSz : o + k \in 1 .. BufSz /\ o + k \notin off + 1 .. off + WordSz
    BY <1>1, <1>11
  <2>2. \A k \in 1 .. WordSz : c[o + k] = b[o + k]
    BY <1>6, <2>1
  <2> QED BY <2>2, IntAtSame
<1> QED BY <1>7, <1>8, <1>10, <1>11 DEF c

\* What a prefix of a buffer that ends behind an int says of it.
LEMMA PrefixFacts ==
  ASSUME NEW b \in Buffers, NEW m \in 1 .. BufSz
  PROVE  /\ Len(SubSeq(b, 1, m)) = m
         /\ SubSeq(b, 1, m)[1] = b[1]
         /\ \A o \in Nat : o + WordSz <= m => IntAt(SubSeq(b, 1, m), o) = IntAt(b, o)
<1> DEFINE w == SubSeq(b, 1, m)
<1>1. WordSz \in Nat \ {0} /\ BufSz \in Nat
  BY CalculationAssumption, Layout
<1>2. \A k \in 1 .. m : b[k] \in Cells
  BY <1>1 DEF Buffers
<1>3. Len(w) = m /\ \A k \in 1 .. m : w[k] = b[k]
  <2>1. \A k \in 1 .. m - 1 + 1 : w[k] = b[1 + k - 1]
    BY <1>1, <1>2, SubSeqProperties
  <2>2. Len(w) = m
    BY <1>1, <1>2, SubSeqProperties
  <2> QED BY <1>1, <2>1, <2>2
<1> HIDE DEF w
<1>4. ASSUME NEW o \in Nat, o + WordSz <= m
      PROVE  IntAt(w, o) = IntAt(b, o)
  <2>1. \A k \in 1 .. WordSz : o + k \in 1 .. m
    BY <1>1, <1>4
  <2>2. \A k \in 1 .. WordSz : w[o + k] = b[o + k]
    BY <1>3, <2>1
  <2> QED BY <2>2, IntAtSame
<1> QED BY <1>1, <1>3, <1>4 DEF w

-----------------------------------------------------------------------------
(* The loops of DoCal *)

Known == {"+", "-", "*", "/"}

\* What res is when the loop has come to the k-th operand of s.  The least int
\* is a quotient only of itself by ones.
Partial(o, s, k, r) ==
  /\ o = "+" => r = Wrap(s[1] + Sums(Tail(s))[k - 1])
  /\ o = "-" => r = Wrap(s[1] - Sums(Tail(s))[k - 1])
  /\ o = "*" => r = Wrap(s[1] * Products(Tail(s))[k - 1])
  /\ o = "/" => /\ Products(Tail(s))[k - 1] # 0
                /\ r = Quotient(s[1], Products(Tail(s))[k - 1])
                /\ r = MinInt => s[1] = MinInt /\ \A j \in 2 .. k : s[j] = 1

\* What a round of the loop assigns, before it is cut to an int.
Round(o, r, n) ==
  CASE o = "+" -> r + n
    [] o = "-" -> r - n
    [] o = "*" -> r * n
    [] o = "/" -> Quotient(r, n)

\* The operands behind the first one.
LEMMA TailFacts ==
  ASSUME NEW s \in Seq(Ints), s # <<>>
  PROVE  /\ Len(s) \in Nat \ {0} /\ \A k \in 1 .. Len(s) : s[k] \in Ints /\ s[k] \in Int
         /\ Tail(s) \in Seq(Int) /\ Len(Tail(s)) = Len(s) - 1
         /\ \A k \in 1 .. Len(s) - 1 : Tail(s)[k] = s[k + 1]
<1>1. Len(s) \in Nat \ {0} /\ \A k \in 1 .. Len(s) : s[k] \in Ints
  BY EmptySeq, LenProperties, ElementOfSeq
<1>2. /\ Tail(s) \in Seq(Ints) /\ Len(Tail(s)) = Len(s) - 1
      /\ \A k \in 1 .. Len(Tail(s)) : Tail(s)[k] = s[k + 1]
  BY HeadTailProperties
<1>3. Tail(s) \in Seq(Int)
  BY <1>2, ModulusPositive, SeqMonotonic
<1> QED BY <1>1, <1>2, <1>3, ModulusPositive

\* Before the first round.
LEMMA PartialFirst ==
  ASSUME NEW s \in Seq(Ints), s # <<>>, NEW o \in Known
  PROVE  Partial(o, s, 1, s[1])
<1> DEFINE t == Tail(s)
           n == s[1]
<1>1. n \in Ints /\ n \in Int /\ t \in Seq(Int)
  BY TailFacts
<1> HIDE DEF t, n
<1>2. Sums(t)[1 - 1] = 0 /\ Products(t)[1 - 1] = 1
  BY <1>1, SumsUnfold, ProductsUnfold
<1>3. Wrap(n + 0) = n /\ Wrap(n - 0) = n /\ Wrap(n * 1) = n
  BY <1>1, WrapInt
<1>4. Quotient(n, 1) = n
  BY <1>1 DEF Quotient, Abs
<1>5. \A j \in 2 .. 1 : s[j] = 1
  OBVIOUS
<1> QED BY <1>2, <1>3, <1>4, <1>5 DEF Partial, n, t

\* A round of the loop that does not trap.
LEMMA PartialStep ==
  ASSUME NEW s \in Seq(Ints), s # <<>>, NEW o \in Known, NEW k \in 1 .. Len(s) - 1,
         NEW r \in Ints, Partial(o, s, k, r),
         o = "/" => s[k + 1] # 0 /\ ~ (r = MinInt /\ s[k + 1] = -1)
  PROVE  /\ Wrap(Round(o, r, s[k + 1])) \in Ints
         /\ Partial(o, s, k + 1, Wrap(Round(o, r, s[k + 1])))
<1> DEFINE t == Tail(s)
           a == s[1]
           n == s[k + 1]
           u == Sums(t)[k - 1]
           p == Products(t)[k - 1]
<1>1. k \in Nat \ {0} /\ k \in 1 .. Len(t) /\ t \in Seq(Int) /\ t[k] = n
  BY TailFacts
<1>2. a \in Ints /\ a \in Int /\ n \in Int /\ r \in Int
  BY TailFacts, ModulusPositive
<1> HIDE DEF t, n, a
<1>3. /\ k - 1 \in 0 .. Len(t) /\ k = (k + 1) - 1
  BY <1>1
<1>4. u \in Int /\ p \in Int /\ Sums(t)[k] = u + n /\ Products(t)[k] = p * n
  BY <1>1, <1>3, SumsUnfold, ProductsUnfold
<1> HIDE DEF u, p
<1>5. CASE o = "+"
  <2>1. r = Wrap(a + u)
    BY <1>5 DEF Partial, a, t, u
  <2>2. Wrap(r + n) = Wrap(a + (u + n)) /\ Wrap(r + n) \in Ints
    <3>1. Wrap(Wrap(a + u) + n) = Wrap((a + u) + n)
      BY <1>2, <1>4, WrapOnce
    <3>2. (a + u) + n = a + (u + n)
      BY <1>2, <1>4
    <3>3. Wrap(r + n) \in Ints
      BY <1>2, WrapMod
    <3> QED BY <2>1, <3>1, <3>2, <3>3
  <2>3. Round(o, r, n) = r + n
    BY <1>5 DEF Round
  <2> QED BY <1>3, <1>4, <1>5, <2>2, <2>3 DEF Partial, a, t, n
<1>6. CASE o = "-"
  <2>1. r = Wrap(a - u)
    BY <1>6 DEF Partial, a, t, u
  <2>2. Wrap(r - n) = Wrap(a - (u + n)) /\ Wrap(r - n) \in Ints
    <3>1. Wrap(Wrap(a - u) - n) = Wrap((a - u) - n)
      BY <1>2, <1>4, WrapOnce
    <3>2. (a - u) - n = a - (u + n)
      BY <1>2, <1>4
    <3>3. Wrap(r - n) \in Ints
      BY <1>2, WrapMod
    <3> QED BY <2>1, <3>1, <3>2, <3>3
  <2>3. Round(o, r, n) = r - n
    BY <1>6 DEF Round
  <2> QED BY <1>3, <1>4, <1>6, <2>2, <2>3 DEF Partial, a, t, n
<1>7. CASE o = "*"
  <2>1. r = Wrap(a * p)
    BY <1>7 DEF Partial, a, t, p
  <2>2. Wrap(r * n) = Wrap(a * (p * n)) /\ Wrap(r * n) \in Ints
    <3>1. Wrap(Wrap(a * p) * n) = Wrap((a * p) * n)
      BY <1>2, <1>4, WrapOnce
    <3>2. (a * p) * n = a * (p * n)
      BY <1>2, <1>4
    <3>3. Wrap(r * n) \in Ints
      BY <1>2, WrapMod
    <3> QED BY <2>1, <3>1, <3>2, <3>3
  <2>3. Round(o, r, n) = r * n
    BY <1>7 DEF Round
  <2> QED BY <1>3, <1>4, <1>7, <2>2, <2>3 DEF Partial, a, t, n
<1>8. CASE o = "/"
  <2>1. /\ p # 0 /\ r = Quotient(a, p)
        /\ r = MinInt => a = MinInt /\ \A j \in 2 .. k : s[j] = 1
    BY <1>8 DEF Partial, a, t, p
  <2>2. n # 0 /\ ~ (r = MinInt /\ n = -1)
    BY <1>8 DEF n
  <2> DEFINE q == Quotient(r, n)
  <2>3. q \in Ints /\ (q = MinInt => r = MinInt /\ n = 1)
    BY <1>2, <2>2, QuotientInt
  <2>4. q = Quotient(a, p * n)
    BY <1>2, <1>4, <2>1, <2>2, QuotientTwice
  <2>5. p * n # 0
    BY <1>2, <1>4, <2>1, <2>2
  <2> HIDE DEF q
  <2>6. Round(o, r, n) = q /\ Wrap(q) = q
    BY <1>8, <2>3, WrapInt DEF Round, q
  <2>7. q = MinInt => a = MinInt /\ \A j \in 2 .. k + 1 : s[j] = 1
    BY <1>1, <2>1, <2>3 DEF n
  <2> QED BY <1>3, <1>4, <1>8, <2>3, <2>4, <2>5, <2>6, <2>7 DEF Partial, a, t, n
<1> QED BY <1>5, <1>6, <1>7, <1>8 DEF Known

\* After the last round.
LEMMA PartialLast ==
  ASSUME NEW s \in Seq(Ints), Len(s) > 1, NEW o \in Known, NEW r,
         Partial(o, s, Len(s), r)
  PROVE  r = Expected(o, s)
<1>1. s # <<>> /\ Len(s) # 1 /\ Len(Tail(s)) = Len(s) - 1
  BY EmptySeq, TailFacts
<1> QED BY <1>1 DEF Partial, Expected, Known, Sum, Product

\* One operand, or none.
LEMMA ExpectedShort ==
  ASSUME NEW s \in Seq(Ints), Len(s) <= 1, NEW o
  PROVE  Expected(o, s) = IF s = <<>> THEN 0 ELSE s[1]
<1>1. CASE s = <<>>
  BY <1>1 DEF Expected
<1>2. CASE s # <<>>
  <2> DEFINE l == Len(s)
  <2>1. l \in Nat \ {0} /\ l <= 1
    BY <1>2, TailFacts
  <2> HIDE DEF l
  <2>2. l = 1
    BY <2>1
  <2> QED BY <1>2, <2>2 DEF Expected, l
<1> QED BY <1>1, <1>2

\* A division that traps has no result.
LEMMA TrapUndefined ==
  ASSUME NEW s \in Seq(Ints), s # <<>>, NEW k \in 1 .. Len(s) - 1, NEW r \in Ints,
         Partial("/", s, k, r),
         s[k + 1] = 0 \/ (r = MinInt /\ s[k + 1] = -1)
  PROVE  Undefined("/", s)
<1> DEFINE t == Tail(s)
<1>1. /\ Len(s) \in Nat /\ t \in Seq(Int) /\ Len(t) = Len(s) - 1
      /\ k \in 1 .. Len(t) /\ t[k] = s[k + 1]
  BY TailFacts
<1>2. Len(s) > 1
  BY <1>1
<1> HIDE DEF t
<1>3. CASE s[k + 1] = 0
  <2>1. Len(t) \in k .. Len(t) /\ t[k] = 0
    BY <1>1, <1>3
  <2>2. Products(t)[Len(t)] = 0
    BY <1>1, <2>1, ProductsZero
  <2> QED BY <1>2, <2>2 DEF Undefined, Product, t
<1>4. CASE r = MinInt /\ s[k + 1] = -1
  <2>1. s[1] = MinInt /\ \A j \in 2 .. k : s[j] = 1
    BY <1>4 DEF Partial
  <2>2. k + 1 \in 2 .. Len(s) /\ (k + 1) - 1 = k
    BY <1>1
  <2> QED BY <1>2, <1>4, <2>1, <2>2 DEF Undefined
<1> QED BY <1>3, <1>4

-----------------------------------------------------------------------------
(* The inductive invariant *)

USE DEF typedVars, serverVars

Typing == cpc \in {"optr", "count", "opnds"}

\* Nothing is sent before all is typed, and nothing is shown before it is done.
TypingOK ==
  /\ Typing => wire = <<>> /\ spc = "recvHead"
  /\ cpc \in {"optr", "count"} => opnds = <<>>
  /\ cpc \in {"count", "opnds"} => optr \in Operators
  /\ Len(opnds) <= IF count > 0 THEN count ELSE 0
  /\ shown # None => cpc = "done"
  /\ cpc = "done" => spc \in {"closed", "dead"}

\* The buffer of "fixed" holds what has been typed, although the number of
\* operands is read from it while they are stored behind it.
BufferOK ==
  program = "fixed" /\ (cpc # "gone" \/ wire # <<>>) =>
    /\ cpc # "optr" => buf[1] = optr
    /\ cpc \notin {"optr", "count"} =>
         /\ IntAt(buf, OPTR_SZ) = count
         /\ \A k \in 1 .. Len(opnds) : IntAt(buf, OpndAt(k)) = opnds[k]

\* What was sent is what was typed.
WireOK ==
  wire # <<>> \/ cpc = "wait" =>
    /\ optr \in Operators
    /\ Len(opnds) >= count
    /\ wire = IF program = "fixed" THEN SubSeq(buf, 1, OpndAt(count + 1)) ELSE <<optr>> \o opnds

\* What the server has is what was typed, and res is what becomes of it.
ServerOK ==
  /\ spc = "recvBody" =>
       /\ program = "fixed" /\ Len(wire) >= HeadSz
       /\ req.optr = optr /\ opnd_num = count
  /\ spc \in {"do", "loop", "reply"} => wire # <<>> /\ req.optr = optr /\ req.opnds = opnds
  /\ spc = "loop" => /\ optr \in Known /\ Len(opnds) > 1 /\ i \in 1 .. Len(opnds)
                     /\ Partial(optr, opnds, i, res)
  /\ spc = "reply" /\ (optr # "?" \/ Len(opnds) < 2) => res = Expected(optr, opnds)

\* The inductive invariant.
CalcInv ==
  /\ TypeOK
  /\ TypingOK
  /\ BufferOK
  /\ WireOK
  /\ ServerOK
  /\ TrapExplained
  /\ OwnResult

\* The types of the buffer, said at once.
LEMMA BufferType ==
  ASSUME NEW b
  PROVE  (/\ b = [k \in 1 .. BufSz |-> b[k]]
          /\ b[1] \in Operators \cup {Unwritten}
          /\ \A k \in 2 .. BufSz : b[k] \in Bytes \cup {Unwritten}) <=> b \in Buffers
<1>1. BufSz \in Nat
  BY Layout
<1>2. ASSUME b = [k \in 1 .. BufSz |-> b[k]], b[1] \in Operators \cup {Unwritten},
             \A k \in 2 .. BufSz : b[k] \in Bytes \cup {Unwritten}
      PROVE  b \in Buffers
  <2>1. \A k \in 1 .. BufSz : k = 1 \/ k \in 2 .. BufSz
    BY <1>1
  <2>2. \A k \in 1 .. BufSz : b[k] \in Cells
    BY <1>2, <2>1 DEF Cells
  <2>3. b \in [1 .. BufSz -> Cells]
    BY <1>2, <2>2
  <2> QED BY <1>2, <2>3 DEF Buffers
<1>3. ASSUME b \in Buffers
      PROVE  /\ b = [k \in 1 .. BufSz |-> b[k]]
             /\ b[1] \in Operators \cup {Unwritten}
             /\ \A k \in 2 .. BufSz : b[k] \in Bytes \cup {Unwritten}
  <2>1. b \in [1 .. BufSz -> Cells]
    BY <1>3 DEF Buffers
  <2> QED BY <1>3, <2>1 DEF Buffers
<1> QED BY <1>2, <1>3

\* How many operands there are, and what they are.
LEMMA OpndsFacts ==
  ASSUME TypeOK, TypingOK
  PROVE  /\ count \in Ints /\ count \in Int /\ count <= MaxOpnds
         /\ Len(opnds) \in 0 .. MaxOpnds
         /\ opnds \in Seq(Ints)
         /\ \A k \in 1 .. Len(opnds) : opnds[k] \in Ints
<1>1. MaxOpnds \in Nat /\ Operands \subseteq Ints
  BY CalculationAssumption
<1>2. count \in Ints /\ count \in Int /\ count <= MaxOpnds
  BY <1>1, CalculationAssumption, ModulusPositive DEF TypeOK
<1>3. opnds \in Seq(Ints)
  BY <1>1, SeqMonotonic DEF TypeOK
<1>4. Len(opnds) \in Nat /\ \A k \in 1 .. Len(opnds) : opnds[k] \in Ints
  BY <1>3, LenProperties, ElementOfSeq
<1>5. Len(opnds) <= IF count > 0 THEN count ELSE 0
  BY DEF TypingOK
<1> QED BY <1>1, <1>2, <1>3, <1>4, <1>5

\* What "fixed" has sent, if it is at least the head.
LEMMA FixedWire ==
  ASSUME CalcInv, program = "fixed", Len(wire) >= HeadSz
  PROVE  /\ wire # <<>> /\ count >= 0 /\ Len(opnds) = count
         /\ wire[1] = optr /\ IntAt(wire, OPTR_SZ) = count
         /\ \A k \in 1 .. count : IntAt(wire, OpndAt(k)) = opnds[k]
<1>1. wire # <<>>
  BY EmptySeq, Layout, CalculationAssumption
<1>2. /\ Len(opnds) >= count /\ wire = SubSeq(buf, 1, OpndAt(count + 1))
      /\ ~ Typing
  BY <1>1 DEF CalcInv, WireOK, TypingOK
<1>3. /\ buf[1] = optr /\ IntAt(buf, OPTR_SZ) = count
      /\ \A k \in 1 .. Len(opnds) : IntAt(buf, OpndAt(k)) = opnds[k]
  BY <1>1, <1>2 DEF CalcInv, BufferOK, Typing
<1>4. buf \in Buffers
  BY BufferType DEF CalcInv, TypeOK
<1>5. /\ count \in Int /\ count <= MaxOpnds /\ Len(opnds) \in 0 .. MaxOpnds
      /\ MaxOpnds \in Nat /\ WordSz \in Nat \ {0} /\ HeadSz = 1 + WordSz
  BY OpndsFacts, CalculationAssumption, Layout DEF CalcInv
<1> DEFINE m == OpndAt(count + 1)
<1>6. m \in Int /\ (m >= HeadSz => count >= 0)
  BY <1>5, Layout
<1>7. m >= HeadSz
  <2>1. CASE m >= 1
    <3>1. m <= BufSz
      <4>1. CASE count >= 0
        BY <1>5, <4>1, Layout
      <4>2. CASE count < 0
        BY <1>5, <1>6, <4>2, Layout
      <4> QED BY <1>5, <4>1, <4>2
    <3>2. m \in 1 .. BufSz
      BY <1>6, <2>1, <3>1, Layout
    <3>3. Len(wire) = m
      BY <1>2, <1>4, <3>2, PrefixFacts
    <3> QED BY <3>3
  <2>2. CASE m < 1
    <3>1. wire = <<>>
      BY <1>2, <1>6, <2>2, SubSeqEmpty
    <3> QED BY <1>1, <3>1
  <2> QED BY <1>6, <2>1, <2>2
<1>8. count >= 0 /\ count \in 0 .. MaxOpnds /\ m \in 1 .. BufSz
  BY <1>5, <1>6, <1>7, Layout
<1>9. Len(opnds) = count
  BY <1>2, <1>5, <1>8 DEF CalcInv, TypingOK
<1>10. /\ wire[1] = buf[1]
       /\ \A o \in Nat : o + WordSz <= m => IntAt(wire, o) = IntAt(buf, o)
  BY <1>2, <1>4, <1>8, PrefixFacts
<1>11. IntAt(wire, OPTR_SZ) = count
  <2>1. OPTR_SZ \in Nat /\ OPTR_SZ + WordSz <= m
    BY <1>5, <1>6, <1>7 DEF OPTR_SZ
  <2> QED BY <1>3, <1>10, <2>1
<1>12. ASSUME NEW k \in 1 .. count
       PROVE  IntAt(wire, OpndAt(k)) = opnds[k]
  <2>1. k \in 1 .. MaxOpnds /\ k - 1 \in 0 .. MaxOpnds /\ k - 1 < count /\ k = (k - 1) + 1
    BY <1>5, <1>8
  <2>2. OpndAt(k) \in Nat
    BY <2>1, Layout
  <2>3. OpndAt(k) + WordSz <= m
    BY <1>8, <2>1, Layout
  <2> QED BY <1>3, <1>9, <1>10, <2>2, <2>3
<1> QED BY <1>1, <1>3, <1>8, <1>9, <1>10, <1>11, <1>12

-----------------------------------------------------------------------------
(* The client keeps the invariant *)

LEMMA CalcStart ==
  ASSUME Init
  PROVE  CalcInv
<1> USE DEF Init
<1>1. buf \in Buffers
  <2>1. \A k \in 1 .. BufSz : buf[k] = Unwritten
    OBVIOUS
  <2>2. BufSz \in Nat /\ BufSz >= 1
    BY Layout, CalculationAssumption
  <2>3. buf \in [1 .. BufSz -> Cells]
    BY DEF Cells
  <2>4. buf[1] = Unwritten /\ \A k \in 2 .. BufSz : buf[k] = Unwritten
    BY <2>1, <2>2
  <2> QED BY <2>3, <2>4 DEF Buffers
<1>2. 0 \in Ints /\ None \notin Ints
  BY ModulusPositive, CalculationAssumption
<1>3. Len(<<>>) = 0 /\ BufSz \in Nat
  BY Layout
<1>4. TypeOK
  <2>1. buf = [k \in 1 .. BufSz |-> buf[k]] /\ buf[1] \in Operators \cup {Unwritten}
        /\ \A k \in 2 .. BufSz : buf[k] \in Bytes \cup {Unwritten}
    BY <1>1, BufferType
  <2>2. Len(wire) <= BufSz
    BY <1>3
  <2> QED BY <1>2, <2>1, <2>2 DEF TypeOK
<1>5. TypingOK
  BY <1>3 DEF TypingOK, Typing
<1>6. BufferOK /\ WireOK /\ ServerOK /\ TrapExplained /\ OwnResult
  BY DEF BufferOK, WireOK, ServerOK, TrapExplained, OwnResult
<1> QED BY <1>4, <1>5, <1>6 DEF CalcInv

\* The buffer after a step, said at once.
LEMMA TypeNext ==
  ASSUME buf' \in Buffers, Len(wire') <= BufSz,
         program' \in Programs,
         cpc' \in {"optr", "count", "opnds", "wait", "done", "gone"},
         optr' \in Operators \cup {None}, opnds' \in Seq(Operands), count' \in Counts \cup {0},
         spc' \in {"recvHead", "recvBody", "do", "loop", "reply", "closed", "dead"},
         opnd_num' \in Ints, req' \in [optr : Operators \cup {None}, opnds : Seq(Ints)],
         i' \in Nat, res' \in Ints, shown' \in Ints \cup {None}
  PROVE  TypeOK'
<1>1. /\ buf' = [k \in 1 .. BufSz |-> buf'[k]] /\ buf'[1] \in Operators \cup {Unwritten}
      /\ \A k \in 2 .. BufSz : buf'[k] \in Bytes \cup {Unwritten}
  BY BufferType
<1> QED BY <1>1 DEF TypeOK

\* While the user types there is nothing to be said of the server.
LEMMA StillTyping ==
  ASSUME CalcInv, Typing, cpc' # "wait", spc' = spc, wire' = wire, shown' = shown
  PROVE  /\ wire' = <<>> /\ spc' = "recvHead" /\ shown' = None
         /\ WireOK' /\ ServerOK' /\ TrapExplained' /\ OwnResult'
<1>1. wire' = <<>> /\ spc' = "recvHead" /\ shown' = None
  BY DEF CalcInv, TypingOK, Typing
<1> QED BY <1>1 DEF WireOK, ServerOK, TrapExplained, OwnResult

LEMMA TypeOptrKeeps ==
  ASSUME CalcInv, TypeOptr
  PROVE  CalcInv'
<1> USE DEF TypeOptr
<1>1. PICK o \in Operators :
        optr' = o /\ buf' = IF program = "fixed" THEN [buf EXCEPT ![1] = o] ELSE buf
  OBVIOUS
<1>2. buf \in Buffers /\ BufSz \in Nat /\ BufSz >= 1
  <2>1. buf \in Buffers
    BY BufferType DEF CalcInv, TypeOK
  <2> QED BY <2>1, Layout, CalculationAssumption
<1>3. buf' \in Buffers /\ (program = "fixed" => buf'[1] = o)
  <2>1. CASE program = "fixed"
    <3>1. buf \in [1 .. BufSz -> Cells] /\ 1 \in 1 .. BufSz /\ o \in Cells
      BY <1>2 DEF Buffers, Cells
    <3>2. buf' = [buf EXCEPT ![1] = o]
      BY <1>1, <2>1
    <3>3. buf' \in [1 .. BufSz -> Cells] /\ buf'[1] = o
          /\ \A k \in 2 .. BufSz : buf'[k] = buf[k]
      BY <3>1, <3>2
    <3> QED BY <1>2, <3>3 DEF Buffers
  <2>2. CASE program # "fixed"
    BY <1>1, <1>2, <2>2
  <2> QED BY <2>1, <2>2
<1>4. /\ wire' = <<>> /\ spc' = "recvHead" /\ shown' = None
      /\ WireOK' /\ ServerOK' /\ TrapExplained' /\ OwnResult'
  BY StillTyping DEF Typing
<1>5. TypeOK'
  BY <1>1, <1>3, TypeNext DEF CalcInv, TypeOK
<1>6. TypingOK'
  BY <1>1, <1>4 DEF CalcInv, TypingOK, Typing
<1>7. BufferOK'
  BY <1>1, <1>3 DEF BufferOK
<1> QED BY <1>4, <1>5, <1>6, <1>7 DEF CalcInv

LEMMA TypeCountKeeps ==
  ASSUME CalcInv, TypeCount
  PROVE  CalcInv'
<1> USE DEF TypeCount
<1>1. PICK n \in Counts :
        count' = n /\ buf' = IF program = "fixed" THEN Stored(buf, OPTR_SZ, n) ELSE buf
  OBVIOUS
<1>2. n \in Ints
  BY CalculationAssumption
<1>3. /\ buf' \in Buffers
      /\ program = "fixed" => buf'[1] = buf[1] /\ IntAt(buf', OPTR_SZ) = n
  <2>1. buf \in Buffers
    BY BufferType DEF CalcInv, TypeOK
  <2>2. OPTR_SZ \in Nat /\ OPTR_SZ >= 1 /\ OPTR_SZ + WordSz <= BufSz
    BY Layout, CalculationAssumption DEF OPTR_SZ
  <2>3. /\ Stored(buf, OPTR_SZ, n) \in Buffers
        /\ Stored(buf, OPTR_SZ, n)[1] = buf[1]
        /\ IntAt(Stored(buf, OPTR_SZ, n), OPTR_SZ) = n
    BY <1>2, <2>1, <2>2, StoredFacts
  <2> QED BY <1>1, <2>1, <2>3
<1>4. /\ wire' = <<>> /\ spc' = "recvHead" /\ shown' = None
      /\ WireOK' /\ ServerOK' /\ TrapExplained' /\ OwnResult'
  BY StillTyping DEF Typing
<1>5. TypeOK'
  BY <1>1, <1>3, TypeNext DEF CalcInv, TypeOK
<1>6. opnds' = <<>> /\ Len(opnds') = 0
  BY DEF CalcInv, TypingOK
<1>7. TypingOK'
  <2>1. n \in Int
    BY <1>2, ModulusPositive
  <2> QED BY <1>1, <1>4, <1>6, <2>1 DEF CalcInv, TypingOK, Typing
<1>8. BufferOK'
  BY <1>1, <1>3, <1>6 DEF CalcInv, BufferOK
<1> QED BY <1>4, <1>5, <1>7, <1>8 DEF CalcInv

\* The bound of the loop is the number typed, also where it is in the buffer.
LEMMA BoundIsCount ==
  ASSUME CalcInv, cpc = "opnds"
  PROVE  Bound = count
BY DEF CalcInv, BufferOK, Bound

LEMMA TypeOpndKeeps ==
  ASSUME CalcInv, TypeOpnd
  PROVE  CalcInv'
<1> USE DEF TypeOpnd
<1> DEFINE j == Len(opnds) + 1
           off == OpndAt(j)
<1>1. PICK n \in Operands :
        /\ opnds' = Append(opnds, n)
        /\ buf' = IF program = "fixed" THEN Stored(buf, off, n) ELSE buf
  OBVIOUS
<1>2. n \in Ints /\ Len(opnds) < count
  BY CalculationAssumption, BoundIsCount
<1>3. /\ count \in Int /\ count <= MaxOpnds /\ Len(opnds) \in 0 .. MaxOpnds
      /\ MaxOpnds \in Nat /\ WordSz \in Nat \ {0}
  BY OpndsFacts, CalculationAssumption DEF CalcInv
<1>4. j \in 1 .. MaxOpnds /\ \A k \in 1 .. Len(opnds) : k \in 1 .. MaxOpnds /\ k < j
  BY <1>2, <1>3
<1>5. /\ opnds' \in Seq(Operands) /\ Len(opnds') = j /\ opnds'[j] = n
      /\ \A k \in 1 .. Len(opnds) : opnds'[k] = opnds[k]
  <2>1. opnds \in Seq(Operands)
    BY DEF CalcInv, TypeOK
  <2> QED BY <1>1, <2>1, AppendProperties
<1>6. off \in Nat /\ off >= HeadSz /\ off + WordSz <= BufSz /\ HeadSz = 1 + WordSz
  BY <1>4, Layout
<1>7. /\ buf' \in Buffers
      /\ program = "fixed" =>
           /\ buf'[1] = buf[1]
           /\ IntAt(buf', OPTR_SZ) = IntAt(buf, OPTR_SZ)
           /\ IntAt(buf', off) = n
           /\ \A k \in 1 .. Len(opnds) : IntAt(buf', OpndAt(k)) = IntAt(buf, OpndAt(k))
  <2>1. buf \in Buffers
    BY BufferType DEF CalcInv, TypeOK
  <2> DEFINE c == Stored(buf, off, n)
  <2> HIDE DEF j
  <2>2. off >= 1
    BY <1>3, <1>6
  <2>3. /\ c \in Buffers /\ c[1] = buf[1] /\ IntAt(c, off) = n
        /\ \A o \in Nat : o + WordSz <= BufSz /\ (o + WordSz <= off \/ off + WordSz <= o) =>
              IntAt(c, o) = IntAt(buf, o)
    <3> HIDE DEF off
    <3> QED BY <1>2, <1>6, <2>1, <2>2, StoredFacts
  <2> HIDE DEF c
  <2>4. IntAt(c, OPTR_SZ) = IntAt(buf, OPTR_SZ)
    <3>1. OPTR_SZ \in Nat /\ OPTR_SZ + WordSz <= off /\ OPTR_SZ + WordSz <= BufSz
      BY <1>3, <1>6, Layout DEF OPTR_SZ
    <3> QED BY <2>3, <3>1
  <2>5. ASSUME NEW k \in 1 .. Len(opnds)
        PROVE  IntAt(c, OpndAt(k)) = IntAt(buf, OpndAt(k))
    <3>1. /\ OpndAt(k) \in Nat /\ OpndAt(k) + WordSz <= BufSz
          /\ OpndAt(k) + WordSz <= off
      BY <1>4, Layout
    <3> QED BY <2>3, <3>1
  <2>6. program = "fixed" => buf' = c
    BY <1>1 DEF c
  <2> QED BY <1>1, <2>1, <2>3, <2>4, <2>5, <2>6
<1> HIDE DEF off
<1>8. /\ wire' = <<>> /\ spc' = "recvHead" /\ shown' = None
      /\ WireOK' /\ ServerOK' /\ TrapExplained' /\ OwnResult'
  BY StillTyping DEF Typing
<1>9. TypeOK'
  BY <1>5, <1>7, TypeNext DEF CalcInv, TypeOK
<1>10. TypingOK'
  BY <1>2, <1>3, <1>5, <1>8 DEF CalcInv, TypingOK, Typing
<1>11. BufferOK'
  <2> SUFFICES ASSUME program = "fixed"
               PROVE  /\ buf'[1] = optr' /\ IntAt(buf', OPTR_SZ) = count'
                      /\ \A k \in 1 .. j : IntAt(buf', OpndAt(k)) = opnds'[k]
    BY <1>5 DEF BufferOK
  <2>1. /\ buf[1] = optr /\ IntAt(buf, OPTR_SZ) = count
        /\ \A k \in 1 .. Len(opnds) : IntAt(buf, OpndAt(k)) = opnds[k]
    BY DEF CalcInv, BufferOK
  <2>2. \A k \in 1 .. j : k \in 1 .. Len(opnds) \/ k = j
    BY <1>3
  <2>3. IntAt(buf', OpndAt(j)) = n
    BY <1>7 DEF off
  <2> HIDE DEF j
  <2>4. \A k \in 1 .. j : IntAt(buf', OpndAt(k)) = opnds'[k]
    BY <1>5, <1>7, <2>1, <2>2, <2>3
  <2> QED BY <1>7, <2>1, <2>4
<1> QED BY <1>8, <1>9, <1>10, <1>11 DEF CalcInv

\* A message has the operator in front of the operands.
LEMMA MessageFacts ==
  ASSUME NEW o, NEW S, NEW s \in Seq(S)
  PROVE  /\ <<o>> \o s # <<>> /\ Len(<<o>> \o s) = Len(s) + 1
         /\ Head(<<o>> \o s) = o /\ Tail(<<o>> \o s) = s
<1> DEFINE T == S \cup {o}
           w == <<o>> \o s
<1>1. <<o>> \in Seq(T) /\ Len(<<o>>) = 1 /\ <<o>>[1] = o
  OBVIOUS
<1>2. s \in Seq(T) /\ Len(s) \in Nat
  BY SeqMonotonic, LenProperties
<1> HIDE DEF T
<1>3. /\ w \in Seq(T) /\ Len(w) = 1 + Len(s)
      /\ \A k \in 1 .. 1 + Len(s) : w[k] = IF k <= 1 THEN <<o>>[k] ELSE s[k - 1]
  BY <1>1, <1>2, ConcatProperties
<1>4. Len(w) = Len(s) + 1 /\ Len(w) \in Nat \ {0} /\ w[1] = o
  BY <1>1, <1>2, <1>3
<1> HIDE DEF w
<1>5. w # <<>>
  BY <1>4, EmptySeq
<1>6. /\ Head(w) = w[1] /\ Tail(w) \in Seq(T) /\ Len(Tail(w)) = Len(w) - 1
      /\ \A k \in 1 .. Len(Tail(w)) : Tail(w)[k] = w[k + 1]
  BY <1>3, <1>5, HeadTailProperties
<1>7. Len(Tail(w)) = Len(s)
  BY <1>2, <1>4, <1>6
<1>8. \A k \in 1 .. Len(s) : Tail(w)[k] = s[k]
  <2> SUFFICES ASSUME NEW k \in 1 .. Len(s) PROVE Tail(w)[k] = s[k]
    OBVIOUS
  <2>1. k + 1 \in 1 .. 1 + Len(s) /\ ~ (k + 1 <= 1) /\ (k + 1) - 1 = k
    BY <1>2
  <2>2. w[k + 1] = s[k]
    BY <1>3, <2>1
  <2> QED BY <1>6, <1>7, <2>2
<1>9. Tail(w) = s
  BY <1>2, <1>6, <1>7, <1>8, SeqEqual
<1> QED BY <1>4, <1>5, <1>6, <1>9 DEF w

\* What is sent is no longer than the buffer.
LEMMA SentFits ==
  ASSUME CalcInv, NEW w,
         w = IF program = "fixed" THEN SubSeq(buf, 1, OpndAt(count + 1)) ELSE <<optr>> \o opnds
  PROVE  Len(w) <= BufSz
<1> DEFINE l == Len(w)
<1>1. /\ count \in Int /\ count <= MaxOpnds /\ Len(opnds) \in 0 .. MaxOpnds
      /\ MaxOpnds \in Nat /\ opnds \in Seq(Ints)
  BY OpndsFacts, CalculationAssumption DEF CalcInv
<1> SUFFICES l <= BufSz
  OBVIOUS
<1>2. BufSz \in Nat /\ BufSz >= HeadSz /\ HeadSz \in Nat /\ BufSz >= 1 + MaxOpnds
  BY Layout
<1>3. buf \in Buffers
  BY BufferType DEF CalcInv, TypeOK
<1>4. CASE program = "fixed"
  <2> DEFINE m == OpndAt(count + 1)
  <2>1. m \in Int /\ m <= BufSz
    <3>1. CASE count >= 0
      <4>1. count \in 0 .. MaxOpnds
        BY <1>1, <3>1
      <4> QED BY <1>2, <4>1, Layout
    <3>2. CASE count < 0
      BY <1>1, <1>2, <3>2, Layout
    <3> QED BY <1>1, <3>1, <3>2
  <2>2. w = SubSeq(buf, 1, m)
    BY <1>4
  <2> HIDE DEF m
  <2>3. CASE m >= 1
    <3>1. m \in 1 .. BufSz
      BY <1>2, <2>1, <2>3
    <3>2. l = m
      BY <1>3, <2>2, <3>1, PrefixFacts
    <3> HIDE DEF l
    <3> QED BY <2>1, <3>2
  <2>4. CASE m < 1
    <3>1. SubSeq(buf, 1, m) = <<>>
      BY <2>1, <2>4, SubSeqEmpty
    <3>2. l = 0
      BY <2>2, <3>1, EmptySeq
    <3> HIDE DEF l
    <3> QED BY <1>2, <3>2
  <2> HIDE DEF l
  <2> QED BY <2>1, <2>3, <2>4
<1>5. CASE program # "fixed"
  <2>1. l = Len(opnds) + 1
    BY <1>1, <1>5, MessageFacts
  <2> HIDE DEF l
  <2> QED BY <1>1, <1>2, <2>1
<1> QED BY <1>4, <1>5

LEMMA SendKeeps ==
  ASSUME CalcInv, Send
  PROVE  CalcInv'
<1> USE DEF Send
<1>1. /\ Bound = count /\ Len(opnds) >= count
      /\ wire' = IF program = "fixed" THEN SubSeq(buf, 1, OpndAt(count + 1))
                 ELSE <<optr>> \o opnds
  BY BoundIsCount
<1>2. /\ count \in Int /\ count <= MaxOpnds /\ Len(opnds) \in 0 .. MaxOpnds
      /\ MaxOpnds \in Nat /\ opnds \in Seq(Ints)
  BY OpndsFacts, CalculationAssumption DEF CalcInv
<1>3. BufSz \in Nat /\ BufSz >= HeadSz /\ HeadSz \in Nat /\ BufSz >= 1 + MaxOpnds
  BY Layout
<1>4. buf \in Buffers
  BY BufferType DEF CalcInv, TypeOK
<1>5. Len(wire') <= BufSz
  BY <1>1, SentFits
<1>6. spc = "recvHead" /\ shown = None /\ optr \in Operators
  BY DEF CalcInv, TypingOK, Typing
<1>7. TypeOK'
  BY <1>4, <1>5, TypeNext DEF CalcInv, TypeOK
<1>8. TypingOK'
  BY <1>6 DEF CalcInv, TypingOK, Typing
<1>9. BufferOK'
  BY DEF CalcInv, BufferOK
<1>10. WireOK'
  BY <1>1, <1>6 DEF WireOK
<1>11. ServerOK' /\ TrapExplained' /\ OwnResult'
  BY <1>6 DEF ServerOK, TrapExplained, OwnResult
<1> QED BY <1>7, <1>8, <1>9, <1>10, <1>11 DEF CalcInv

LEMMA VanishKeeps ==
  ASSUME CalcInv, Vanish
  PROVE  CalcInv'
<1> USE DEF Vanish
<1>1. shown = None
  BY DEF CalcInv, TypingOK
<1>2. wire # <<>> => cpc = "wait"
  BY DEF CalcInv, TypingOK, Typing
<1>3. buf \in Buffers
  BY BufferType DEF CalcInv, TypeOK
<1>4. TypeOK'
  BY <1>3, TypeNext DEF CalcInv, TypeOK
<1>5. TypingOK'
  BY <1>1 DEF CalcInv, TypingOK, Typing
<1>6. BufferOK'
  BY <1>2 DEF CalcInv, BufferOK
<1>7. WireOK' /\ ServerOK'
  BY DEF CalcInv, WireOK, ServerOK
<1>8. TrapExplained' /\ OwnResult'
  BY <1>1 DEF CalcInv, TrapExplained, OwnResult
<1> QED BY <1>4, <1>5, <1>6, <1>7, <1>8 DEF CalcInv

-----------------------------------------------------------------------------
(* The server keeps the invariant *)

\* A step of the server, seen from what the client has.
LEMMA ServerSteps ==
  ASSUME CalcInv, ~ Typing, spc \notin {"closed", "dead"},
         UNCHANGED <<program, cpc, typedVars, wire, shown>>
  PROVE  /\ shown' = None /\ buf' \in Buffers
         /\ TypingOK' /\ BufferOK' /\ WireOK' /\ OwnResult'
<1>1. shown' = None
  BY DEF CalcInv, TypingOK
<1>2. buf' \in Buffers
  BY BufferType DEF CalcInv, TypeOK
<1>3. cpc # "done"
  BY DEF CalcInv, TypingOK
<1>4. TypingOK'
  BY <1>1, <1>3 DEF CalcInv, TypingOK, Typing
<1>5. BufferOK' /\ WireOK'
  BY DEF CalcInv, BufferOK, WireOK
<1>6. OwnResult'
  BY <1>1 DEF OwnResult
<1> QED BY <1>1, <1>2, <1>4, <1>5, <1>6

LEMMA ReadHeadKeeps ==
  ASSUME CalcInv, ReadHead
  PROVE  CalcInv'
<1> USE DEF ReadHead
<1>1. wire # <<>> /\ wire[1] = optr /\ IntAt(wire, OPTR_SZ) = count
  BY FixedWire
<1>2. /\ shown' = None /\ buf' \in Buffers
      /\ TypingOK' /\ BufferOK' /\ WireOK' /\ OwnResult'
  <2>1. ~ Typing
    BY <1>1 DEF CalcInv, TypingOK
  <2> QED BY <2>1, ServerSteps
<1>3. req' = [req EXCEPT !.optr = optr] /\ opnd_num' = count
  BY <1>1
<1>4. /\ req' \in [optr : Operators \cup {None}, opnds : Seq(Ints)]
      /\ req'.optr = optr
  BY <1>3 DEF CalcInv, TypeOK
<1>5. count \in Ints
  BY OpndsFacts DEF CalcInv
<1>6. TypeOK'
  BY <1>2, <1>3, <1>4, <1>5, TypeNext DEF CalcInv, TypeOK
<1>7. ServerOK'
  BY <1>3, <1>4 DEF ServerOK
<1>8. TrapExplained'
  BY DEF TrapExplained
<1> QED BY <1>2, <1>6, <1>7, <1>8 DEF CalcInv

LEMMA ReadBodyKeeps ==
  ASSUME CalcInv, ReadBody
  PROVE  CalcInv'
<1> USE DEF ReadBody
<1>1. program = "fixed" /\ Len(wire) >= HeadSz /\ req.optr = optr /\ opnd_num = count
  BY DEF CalcInv, ServerOK
<1>2. /\ wire # <<>> /\ Len(opnds) = count
      /\ \A k \in 1 .. count : IntAt(wire, OpndAt(k)) = opnds[k]
  BY <1>1, FixedWire
<1>3. /\ shown' = None /\ buf' \in Buffers
      /\ TypingOK' /\ BufferOK' /\ WireOK' /\ OwnResult'
  <2>1. ~ Typing
    BY <1>2 DEF CalcInv, TypingOK
  <2> QED BY <2>1, ServerSteps
<1>4. opnds \in Seq(Ints)
  BY OpndsFacts DEF CalcInv
<1>5. [k \in 1 .. opnd_num |-> IntAt(wire, OpndAt(k))] = opnds
  <2>1. opnds = [k \in 1 .. Len(opnds) |-> opnds[k]]
    BY <1>4
  <2> QED BY <1>1, <1>2, <2>1
<1>6. /\ req' = [req EXCEPT !.opnds = opnds]
  BY <1>5
<1>7. /\ req' \in [optr : Operators \cup {None}, opnds : Seq(Ints)]
      /\ req'.optr = optr /\ req'.opnds = opnds
  BY <1>1, <1>4, <1>6 DEF CalcInv, TypeOK
<1>8. TypeOK'
  BY <1>3, <1>7, TypeNext DEF CalcInv, TypeOK
<1>9. ServerOK'
  BY <1>2, <1>7 DEF ServerOK
<1>10. TrapExplained'
  BY DEF TrapExplained
<1> QED BY <1>3, <1>8, <1>9, <1>10 DEF CalcInv

LEMMA ReadGarbageKeeps ==
  ASSUME CalcInv, ReadGarbage
  PROVE  CalcInv'
<1> USE DEF ReadGarbage
<1>1. /\ shown' = None /\ buf' \in Buffers
      /\ TypingOK' /\ BufferOK' /\ WireOK' /\ OwnResult'
  BY ServerSteps DEF Typing
<1>2. TypeOK'
  BY <1>1, TypeNext DEF CalcInv, TypeOK
<1>3. ServerOK' /\ TrapExplained'
  BY DEF ServerOK, TrapExplained
<1> QED BY <1>1, <1>2, <1>3 DEF CalcInv

LEMMA ReadMessageKeeps ==
  ASSUME CalcInv, ReadMessage
  PROVE  CalcInv'
<1> USE DEF ReadMessage
<1>1. wire = <<optr>> \o opnds /\ ~ Typing
  BY DEF CalcInv, WireOK, TypingOK
<1>2. opnds \in Seq(Ints)
  BY OpndsFacts DEF CalcInv
<1>3. Head(wire) = optr /\ Tail(wire) = opnds
  BY <1>1, <1>2, MessageFacts
<1>4. /\ shown' = None /\ buf' \in Buffers
      /\ TypingOK' /\ BufferOK' /\ WireOK' /\ OwnResult'
  BY <1>1, ServerSteps
<1>5. /\ req' \in [optr : Operators \cup {None}, opnds : Seq(Ints)]
      /\ req'.optr = optr /\ req'.opnds = opnds
  BY <1>2, <1>3 DEF CalcInv, TypeOK
<1>6. TypeOK'
  BY <1>4, <1>5, TypeNext DEF CalcInv, TypeOK
<1>7. ServerOK'
  BY <1>5 DEF ServerOK
<1>8. TrapExplained'
  BY DEF TrapExplained
<1> QED BY <1>4, <1>6, <1>7, <1>8 DEF CalcInv

LEMMA DoCalKeeps ==
  ASSUME CalcInv, DoCal
  PROVE  CalcInv'
<1> USE DEF DoCal
<1>1. /\ wire # <<>> /\ ~ Typing /\ req.optr = optr /\ req.opnds = opnds
      /\ optr \in Operators
  BY DEF CalcInv, ServerOK, WireOK, TypingOK
<1>2. /\ res' = IF Len(opnds) = 0 \/ (Len(opnds) > 1 /\ ~ optr \in Known /\ program = "pb")
                THEN 0 ELSE opnds[1]
      /\ spc' = IF Len(opnds) > 1 /\ optr \in Known THEN "loop" ELSE "reply"
      /\ i' = 1
  BY <1>1 DEF Known
<1>3. optr \in Known \/ optr = "?"
  BY <1>1, CalculationAssumption DEF Known
<1>4. opnds \in Seq(Ints) /\ Len(opnds) \in Nat /\ 0 \in Ints
  BY OpndsFacts, LenProperties, ModulusPositive DEF CalcInv
<1>5. Len(opnds) = 0 <=> opnds = <<>>
  BY <1>4, EmptySeq
<1>6. Len(opnds) # 0 => opnds[1] \in Ints
  <2> SUFFICES ASSUME Len(opnds) # 0 PROVE opnds[1] \in Ints
    OBVIOUS
  <2>1. 1 \in 1 .. Len(opnds)
    BY <1>4
  <2> QED BY <2>1, OpndsFacts DEF CalcInv
<1>7. /\ shown' = None /\ buf' \in Buffers
      /\ TypingOK' /\ BufferOK' /\ WireOK' /\ OwnResult'
  BY <1>1, ServerSteps
<1>8. TypeOK'
  <2>1. res' \in Ints
    BY <1>2, <1>4, <1>6
  <2>2. i' \in Nat /\ spc' \in {"loop", "reply"}
    BY <1>2
  <2> QED BY <1>7, <2>1, <2>2, TypeNext DEF CalcInv, TypeOK
<1>9. spc' = "loop" => /\ optr \in Known /\ Len(opnds) > 1 /\ 1 \in 1 .. Len(opnds)
                       /\ Partial(optr, opnds, 1, res')
  <2> SUFFICES ASSUME spc' = "loop"
               PROVE  /\ optr \in Known /\ Len(opnds) > 1 /\ 1 \in 1 .. Len(opnds)
                      /\ Partial(optr, opnds, 1, res')
    OBVIOUS
  <2>1. optr \in Known /\ Len(opnds) > 1
    BY <1>2
  <2>2. 1 \in 1 .. Len(opnds) /\ Len(opnds) # 0
    BY <1>4, <2>1
  <2>3. res' = opnds[1]
    BY <1>2, <2>1, <2>2
  <2>4. Partial(optr, opnds, 1, opnds[1])
    BY <1>4, <1>5, <2>1, <2>2, PartialFirst
  <2> QED BY <2>1, <2>2, <2>3, <2>4
<1>10. spc' = "reply" /\ (optr # "?" \/ Len(opnds) < 2) => res' = Expected(optr, opnds)
  <2> SUFFICES ASSUME spc' = "reply", optr # "?" \/ Len(opnds) < 2
               PROVE  res' = Expected(optr, opnds)
    OBVIOUS
  <2>1. Len(opnds) <= 1 /\ ~ Len(opnds) > 1
    BY <1>2, <1>3, <1>4
  <2>2. Expected(optr, opnds) = IF opnds = <<>> THEN 0 ELSE opnds[1]
    BY <1>4, <2>1, ExpectedShort
  <2> QED BY <1>2, <1>5, <2>1, <2>2
<1>11. ServerOK'
  BY <1>1, <1>2, <1>9, <1>10 DEF ServerOK
<1>12. TrapExplained'
  BY <1>2 DEF TrapExplained
<1> QED BY <1>7, <1>8, <1>11, <1>12 DEF CalcInv

\* Where the loop is.
LEMMA InLoop ==
  ASSUME CalcInv, spc = "loop"
  PROVE  /\ ~ Typing /\ wire # <<>> /\ req.optr = optr /\ req.opnds = opnds
         /\ optr \in Known /\ Len(opnds) > 1 /\ i \in 1 .. Len(opnds)
         /\ Partial(optr, opnds, i, res) /\ res \in Ints
         /\ opnds \in Seq(Ints) /\ opnds # <<>> /\ Len(opnds) \in Nat
<1>1. /\ wire # <<>> /\ ~ Typing /\ req.optr = optr /\ req.opnds = opnds
      /\ optr \in Known /\ Len(opnds) > 1 /\ i \in 1 .. Len(opnds)
      /\ Partial(optr, opnds, i, res) /\ res \in Ints
  BY DEF CalcInv, ServerOK, TypingOK, TypeOK
<1>2. opnds \in Seq(Ints) /\ Len(opnds) \in Nat
  BY OpndsFacts, LenProperties DEF CalcInv
<1>3. opnds # <<>>
  BY <1>1, EmptySeq
<1> QED BY <1>1, <1>2, <1>3

LEMMA StepKeeps ==
  ASSUME CalcInv, Step
  PROVE  CalcInv'
<1> USE DEF Step
<1> DEFINE n == opnds[i + 1]
           w == Wrap(Round(optr, res, n))
<1>1. /\ ~ Typing /\ wire # <<>> /\ req.optr = optr /\ req.opnds = opnds
      /\ optr \in Known /\ Len(opnds) > 1 /\ i \in 1 .. Len(opnds)
      /\ Partial(optr, opnds, i, res) /\ res \in Ints
      /\ opnds \in Seq(Ints) /\ opnds # <<>> /\ Len(opnds) \in Nat
  BY InLoop
<1>2. i < Len(opnds) /\ Operand = n
  BY <1>1 DEF Operand
<1>3. i \in 1 .. Len(opnds) - 1 /\ i + 1 \in 1 .. Len(opnds) /\ i + 1 \in Nat
  BY <1>1, <1>2
<1>4. optr = "/" => n # 0 /\ ~ (res = MinInt /\ n = -1)
  BY <1>1, <1>2 DEF Traps
<1>5. w \in Ints /\ Partial(optr, opnds, i + 1, w)
  BY <1>1, <1>3, <1>4, PartialStep
<1>6. res' = w
  BY <1>1, <1>2 DEF Round
<1> HIDE DEF w
<1>7. /\ shown' = None /\ buf' \in Buffers
      /\ TypingOK' /\ BufferOK' /\ WireOK' /\ OwnResult'
  BY <1>1, ServerSteps
<1>8. TypeOK'
  <2>1. res' \in Ints /\ i' \in Nat
    BY <1>3, <1>5, <1>6
  <2> QED BY <1>7, <2>1, TypeNext DEF CalcInv, TypeOK
<1>9. ServerOK'
  <2>1. i' \in 1 .. Len(opnds) /\ Partial(optr, opnds, i', res')
    BY <1>3, <1>5, <1>6
  <2> QED BY <1>1, <2>1 DEF ServerOK
<1>10. TrapExplained'
  BY DEF TrapExplained
<1> QED BY <1>7, <1>8, <1>9, <1>10 DEF CalcInv

LEMMA LoopEndsKeeps ==
  ASSUME CalcInv, LoopEnds
  PROVE  CalcInv'
<1> USE DEF LoopEnds
<1>1. /\ ~ Typing /\ wire # <<>> /\ req.optr = optr /\ req.opnds = opnds
      /\ optr \in Known /\ Len(opnds) > 1 /\ i \in 1 .. Len(opnds)
      /\ Partial(optr, opnds, i, res) /\ opnds \in Seq(Ints) /\ Len(opnds) \in Nat
  BY InLoop
<1>2. i = Len(opnds)
  BY <1>1
<1>3. res = Expected(optr, opnds)
  BY <1>1, <1>2, PartialLast
<1>4. /\ shown' = None /\ buf' \in Buffers
      /\ TypingOK' /\ BufferOK' /\ WireOK' /\ OwnResult'
  BY <1>1, ServerSteps
<1>5. TypeOK'
  BY <1>4, TypeNext DEF CalcInv, TypeOK
<1>6. ServerOK'
  BY <1>1, <1>3 DEF ServerOK
<1>7. TrapExplained'
  BY DEF TrapExplained
<1> QED BY <1>4, <1>5, <1>6, <1>7 DEF CalcInv

LEMMA DieKeeps ==
  ASSUME CalcInv, Die
  PROVE  CalcInv'
<1> USE DEF Die
<1>1. /\ ~ Typing /\ wire # <<>> /\ req.optr = optr /\ req.opnds = opnds
      /\ i \in 1 .. Len(opnds) /\ Partial(optr, opnds, i, res) /\ res \in Ints
      /\ opnds \in Seq(Ints) /\ opnds # <<>> /\ Len(opnds) \in Nat
  BY InLoop
<1>2. /\ i \in 1 .. Len(opnds) - 1 /\ optr = "/"
      /\ opnds[i + 1] = 0 \/ (res = MinInt /\ opnds[i + 1] = -1)
  BY <1>1 DEF Traps, Operand
<1>3. Undefined(optr, opnds)
  BY <1>1, <1>2, TrapUndefined
<1>4. /\ shown' = None /\ buf' \in Buffers
      /\ TypingOK' /\ BufferOK' /\ WireOK' /\ OwnResult'
  BY <1>1, ServerSteps
<1>5. TypeOK'
  BY <1>4, TypeNext DEF CalcInv, TypeOK
<1>6. ServerOK' /\ TrapExplained'
  BY <1>3 DEF ServerOK, TrapExplained
<1> QED BY <1>4, <1>5, <1>6 DEF CalcInv

LEMMA ReplyKeeps ==
  ASSUME CalcInv, Reply
  PROVE  CalcInv'
<1> USE DEF Reply
<1>1. /\ wire # <<>> /\ ~ Typing /\ cpc # "done" /\ shown = None
      /\ optr # "?" \/ Len(opnds) < 2 => res = Expected(optr, opnds)
  BY DEF CalcInv, ServerOK, TypingOK
<1>2. buf' \in Buffers /\ res \in Ints
  BY BufferType DEF CalcInv, TypeOK
<1>3. TypeOK'
  BY <1>2, TypeNext DEF CalcInv, TypeOK
<1>4. TypingOK'
  BY <1>1 DEF CalcInv, TypingOK, Typing
<1>5. BufferOK' /\ WireOK'
  BY DEF CalcInv, BufferOK, WireOK
<1>6. ServerOK' /\ TrapExplained'
  BY DEF ServerOK, TrapExplained
<1>7. OwnResult'
  BY <1>1 DEF OwnResult
<1> QED BY <1>3, <1>4, <1>5, <1>6, <1>7 DEF CalcInv

LEMMA ShowNothingKeeps ==
  ASSUME CalcInv, ShowNothing
  PROVE  CalcInv'
<1> USE DEF ShowNothing
<1>1. buf' \in Buffers /\ 0 \in Ints
  BY BufferType, ModulusPositive DEF CalcInv, TypeOK
<1>2. TypeOK'
  BY <1>1, TypeNext DEF CalcInv, TypeOK
<1>3. TypingOK'
  BY DEF CalcInv, TypingOK, Typing
<1>4. BufferOK' /\ WireOK'
  BY DEF CalcInv, BufferOK, WireOK
<1>5. ServerOK' /\ TrapExplained' /\ OwnResult'
  BY DEF CalcInv, ServerOK, TrapExplained, OwnResult
<1> QED BY <1>2, <1>3, <1>4, <1>5 DEF CalcInv

\* Every step keeps the invariant.
LEMMA CalcNext ==
  ASSUME CalcInv, [Next]_vars
  PROVE  CalcInv'
<1>1. CASE UserTypes
  BY <1>1, TypeOptrKeeps, TypeCountKeeps, TypeOpndKeeps DEF UserTypes
<1>2. CASE Send \/ Vanish
  BY <1>2, SendKeeps, VanishKeeps
<1>3. CASE ServerStep
  BY <1>3, ReadHeadKeeps, ReadBodyKeeps, ReadGarbageKeeps, ReadMessageKeeps, DoCalKeeps,
     StepKeeps, LoopEndsKeeps, DieKeeps, ReplyKeeps DEF ServerStep
<1>4. CASE ShowNothing
  BY <1>4, ShowNothingKeeps
<1>5. CASE UNCHANGED vars
  <2> USE <1>5 DEF vars
  <2>1. TypeOK'
    BY DEF CalcInv, TypeOK
  <2>2. TypingOK' /\ BufferOK' /\ WireOK'
    BY DEF CalcInv, TypingOK, Typing, BufferOK, WireOK
  <2>3. ServerOK' /\ TrapExplained' /\ OwnResult'
    BY DEF CalcInv, ServerOK, TrapExplained, OwnResult
  <2> QED BY <2>1, <2>2, <2>3 DEF CalcInv
<1> QED BY <1>1, <1>2, <1>3, <1>4, <1>5 DEF Next

LEMMA CalcInvariant == Spec => []CalcInv
<1>1. Init => CalcInv
  BY CalcStart
<1>2. CalcInv /\ [Next]_vars => CalcInv'
  BY CalcNext
<1> QED BY <1>1, <1>2, PTL DEF Spec

-----------------------------------------------------------------------------
(* The theorems *)

\* Whatever is typed, as long as no more operands are announced than fit: the buffer
\* of the fixed layout holds the operator and bytes, what is sent is no longer than
\* it, and every result on the way is an int, for every size of an int and of the
\* buffer (do_input, do_read_buf, DoCal).
THEOREM TypeCorrect == Spec => []TypeOK
<1>1. CalcInv => TypeOK
  BY DEF CalcInv
<1> QED BY <1>1, CalcInvariant, PTL

\* The client prints the exact value of the whole expression, cut to an int once,
\* although DoCal cuts or rounds after every operation, and although the fixed
\* layout takes every number apart into bytes and together again.
THEOREM OwnResultAlways == Spec => []OwnResult
<1>1. CalcInv => OwnResult
  BY DEF CalcInv
<1> QED BY <1>1, CalcInvariant, PTL

\* A server that ends by SIGFPE was asked for a division by zero or for the least
\* int by minus one; no sum, difference or product ends it, and no quotient that
\* exists (DoCal of cal_server and cal_udp_server).
THEOREM TrapExplainedAlways == Spec => []TrapExplained
<1>1. CalcInv => TrapExplained
  BY DEF CalcInv
<1> QED BY <1>1, CalcInvariant, PTL

-----------------------------------------------------------------------------
(* The call that does not end, which CallEnds excepts *)

\* The server waits for bytes that have not been sent.
Starves ==
  \/ spc = "recvHead" /\ IF program = "fixed" THEN ~ (Len(wire) >= HeadSz) ELSE wire = <<>>
  \/ spc = "recvBody" /\ ~ (Len(wire) >= OpndAt(opnd_num + 1))

\* While a client waits for its result, the server waits for the client if and only
\* if the layout is the fixed one and the count is negative: a write() of fewer
\* bytes than a head, or none.  Then neither goes on; else the bytes io_read_n asks for
\* have all been sent (do_io_event of the client, do_read_buf of the server).
HangsOnNegative ==
  cpc = "wait" => (Starves <=> program = "fixed" /\ count < 0)

\* What a negative nsend cuts off (write() in the client).
LEMMA SentLength ==
  ASSUME CalcInv, program = "fixed", cpc = "wait" \/ wire # <<>>
  PROVE  /\ count >= 0 => Len(wire) = OpndAt(count + 1) /\ Len(wire) >= HeadSz
         /\ count < 0 => ~ (Len(wire) >= HeadSz)
<1> DEFINE m == OpndAt(count + 1)
           l == Len(wire)
<1>1. wire = SubSeq(buf, 1, m)
  BY DEF CalcInv, WireOK
<1>2. /\ count \in Int /\ count <= MaxOpnds /\ MaxOpnds \in Nat
      /\ WordSz \in Nat \ {0} /\ HeadSz = 1 + WordSz /\ HeadSz \in Nat /\ BufSz \in Nat /\ BufSz >= HeadSz
  BY OpndsFacts, CalculationAssumption, Layout DEF CalcInv
<1>3. m \in Int /\ (m >= HeadSz => count >= 0)
  BY <1>2, Layout
<1>4. count >= 0 => m \in HeadSz .. BufSz
  <2>1. count >= 0 => count \in 0 .. MaxOpnds
    BY <1>2
  <2> QED BY <2>1, Layout
<1>5. buf \in Buffers
  BY BufferType DEF CalcInv, TypeOK
<1> HIDE DEF m
<1>6. m \in 1 .. BufSz => l = m
  BY <1>1, <1>5, PrefixFacts
<1>7. m < 1 => l = 0
  <2>1. m < 1 => SubSeq(buf, 1, m) = <<>>
    BY <1>3, SubSeqEmpty
  <2> QED BY <1>1, <2>1, EmptySeq
<1> HIDE DEF l
<1>8. count >= 0 => l = m /\ l >= HeadSz
  BY <1>2, <1>3, <1>4, <1>6
<1>9. count < 0 => ~ (l >= HeadSz)
  BY <1>2, <1>3, <1>6, <1>7
<1> QED BY <1>8, <1>9 DEF l, m

\* A server does not leave a client that waits before its head is there.
HeldOK ==
  cpc = "wait" /\ program = "fixed" /\ ~ (Len(wire) >= HeadSz) => spc = "recvHead"

LEMMA HeldStart == Init => HeldOK
BY DEF Init, HeldOK

LEMMA HeldNext == CalcInv /\ HeldOK /\ [Next]_vars => HeldOK'
<1> SUFFICES ASSUME CalcInv, HeldOK, [Next]_vars PROVE HeldOK'
  OBVIOUS
<1> HIDE DEF HeadSz
<1>1. ASSUME program' = program, wire' = wire, cpc' = "wait" => cpc = "wait",
             spc' = spc \/ spc # "recvHead"
      PROVE  HeldOK'
  BY <1>1 DEF HeldOK
<1>2. CASE UserTypes
  BY <1>2 DEF UserTypes, TypeOptr, TypeCount, TypeOpnd, HeldOK
<1>3. CASE Send
  BY <1>3 DEF Send, CalcInv, TypingOK, Typing, HeldOK, serverVars
<1>4. CASE Vanish
  BY <1>4, <1>1 DEF Vanish, serverVars
<1>5. CASE ReadHead
  BY <1>5 DEF ReadHead, HeldOK
<1>6. CASE ReadGarbage
  BY <1>6 DEF ReadGarbage, HeldOK
<1>7. CASE ReadMessage
  BY <1>7 DEF ReadMessage, HeldOK
<1>8. CASE ReadBody
  BY <1>8, <1>1 DEF ReadBody
<1>9. CASE DoCal
  BY <1>9, <1>1 DEF DoCal
<1>10. CASE Step
  BY <1>10, <1>1 DEF Step
<1>11. CASE LoopEnds \/ Die
  BY <1>11, <1>1 DEF LoopEnds, Die
<1>12. CASE Reply
  BY <1>12, <1>1 DEF Reply
<1>13. CASE ShowNothing
  BY <1>13 DEF ShowNothing, HeldOK
<1>14. CASE UNCHANGED vars
  BY <1>14, <1>1 DEF vars, serverVars
<1> QED
  BY <1>2, <1>3, <1>4, <1>5, <1>6, <1>7, <1>8, <1>9, <1>10, <1>11, <1>12, <1>13, <1>14
  DEF Next, ServerStep

\* For every size of an int and of the buffer, and whatever is typed, only the count
\* decides whether a call of the fixed layout hangs (do_io_event, do_read_buf).
THEOREM HangsOnNegativeAlways == Spec => []HangsOnNegative
<1>1. ASSUME CalcInv, HeldOK, cpc = "wait"
      PROVE  Starves <=> program = "fixed" /\ count < 0
  <2>1. count \in Int /\ OpndAt(count + 1) \in Int /\ HeadSz \in Nat
    BY <1>1, OpndsFacts, Layout DEF CalcInv
  <2>2. CASE program = "fixed"
    <3>1. /\ count >= 0 => Len(wire) = OpndAt(count + 1) /\ Len(wire) >= HeadSz
          /\ count < 0 => ~ (Len(wire) >= HeadSz)
      BY <1>1, <2>2, SentLength
    <3>2. ASSUME count < 0
          PROVE  Starves
      <4>1. ~ (Len(wire) >= HeadSz)
        BY <3>1, <3>2
      <4>2. spc = "recvHead"
        BY <1>1, <2>2, <4>1 DEF HeldOK
      <4> QED BY <2>2, <3>1, <3>2, <4>2 DEF Starves
    <3>3. ASSUME Starves
          PROVE  count < 0
      <4> SUFFICES ASSUME count >= 0 PROVE FALSE
        BY <2>1
      <4> DEFINE l == Len(wire)
      <4>1. l = OpndAt(count + 1) /\ l >= HeadSz
        BY <3>1
      <4>2. spc = "recvBody" => opnd_num = count
        BY <1>1 DEF CalcInv, ServerOK
      <4>3. ~ (l >= HeadSz) \/ ~ (l >= OpndAt(count + 1))
        BY <2>2, <3>3, <4>2 DEF Starves
      <4> HIDE DEF l
      <4> QED BY <2>1, <4>1, <4>3
    <3> QED BY <2>2, <3>2, <3>3
  <2>3. CASE program # "fixed"
    <3>1. wire = <<optr>> \o opnds /\ opnds \in Seq(Ints)
      BY <1>1, <2>3, OpndsFacts DEF CalcInv, WireOK
    <3>2. wire # <<>>
      BY <3>1, MessageFacts
    <3>3. spc # "recvBody"
      BY <1>1, <2>3 DEF CalcInv, ServerOK
    <3> QED BY <2>3, <3>2, <3>3 DEF Starves
  <2> QED BY <2>2, <2>3
<1>2. CalcInv /\ HeldOK => HangsOnNegative
  BY <1>1 DEF HangsOnNegative
<1>3. Spec => []HeldOK
  BY HeldStart, HeldNext, CalcInvariant, PTL DEF Spec
<1> QED BY <1>2, <1>3, CalcInvariant, PTL

=============================================================================
