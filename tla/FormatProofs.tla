---------------------------- MODULE FormatProofs ----------------------------
(***************************************************************************)
(* Proofs about formatted output, for every word size, every argument and  *)
(* every directive of the grammar, whatever the width.                     *)
(***************************************************************************)
EXTENDS Format, SequenceTheorems, NaturalsInduction, WellFoundedInduction, TLAPS

-----------------------------------------------------------------------------
(***************************************************************************)
(* Numbers.                                                                *)
(***************************************************************************)

(***************************************************************************)
(* A set of naturals that is not empty has a least element.                *)
(***************************************************************************)
LEMMA NatMin ==
    ASSUME NEW T \in SUBSET Nat, T # {}
    PROVE  \E x \in T : \A y \in T : x <= y
<1> DEFINE R == OpToRel(<, Nat)
<1>1. IsWellFoundedOn(R, Nat)
  BY NatLessThanWellFounded
<1>2. \A x, y \in Nat : <<x, y>> \in R <=> x < y
  BY DEF OpToRel
<1> HIDE DEF R
<1>3. PICK x \in T : \A y \in T : ~(<<y, x>> \in R)
  BY <1>1, WFMin
<1>4. \A y \in T : x \in Nat /\ y \in Nat /\ ~(y < x)
  BY <1>2, <1>3
<1> QED
  BY <1>4

(***************************************************************************)
(* Induction over all naturals, for a set instead of a predicate: a number *)
(* is in D when all smaller ones are.                                      *)
(***************************************************************************)
LEMMA StrongInduction ==
    ASSUME NEW D, \A n \in Nat : (\A m \in Nat : m < n => m \in D) => n \in D
    PROVE  \A n \in Nat : n \in D
<1> DEFINE T == {n \in Nat : n \notin D}
<1>1. ASSUME T # {} PROVE FALSE
  <2>1. T \in SUBSET Nat
    OBVIOUS
  <2> HIDE DEF T
  <2>2. PICK n \in T : \A m \in T : n <= m
    BY <1>1, <2>1, NatMin
  <2>3. n \in Nat /\ n \notin D /\ \A m \in Nat : m \notin D => n <= m
    BY <2>2 DEF T
  <2>4. \A m \in Nat : m < n => m \in D
    BY <2>3
  <2> QED
    BY <2>3, <2>4
<1> QED
  BY <1>1

(***************************************************************************)
(* The same, from one number to the next.                                  *)
(***************************************************************************)
LEMMA Induction ==
    ASSUME NEW D, 0 \in D, \A n \in Nat : n \in D => n + 1 \in D
    PROVE  \A n \in Nat : n \in D
<1>1. ASSUME NEW n \in Nat, \A m \in Nat : m < n => m \in D
      PROVE  n \in D
  <2>1. CASE n = 0
    BY <2>1
  <2>2. CASE n # 0
    <3>1. n - 1 \in Nat /\ n - 1 < n /\ (n - 1) + 1 = n
      BY <2>2
    <3> QED
      BY <1>1, <3>1
  <2> QED
    BY <2>1, <2>2
<1> QED
  BY <1>1, StrongInduction

(***************************************************************************)
(* Quotient and remainder are what they are written as.                    *)
(***************************************************************************)
LEMMA Quotient ==
    ASSUME NEW b \in Nat \ {0}, NEW q \in Int, NEW r \in 0 .. b - 1, NEW a \in Int,
           a = q * b + r
    PROVE  a \div b = q /\ a % b = r
<1>1. PICK d \in Int, e \in 0 .. b - 1 : d = a \div b /\ e = a % b /\ a = b * d + e
  OBVIOUS
<1>2. PICK m \in Int : m = q - d
  OBVIOUS
<1>3. m * b = q * b - d * b
  BY <1>2
<1>4. m * b = e - r
  BY <1>1, <1>3
<1>5. CASE m >= 1
  <2>1. m * b >= b
    BY <1>5
  <2> QED
    BY <1>4, <2>1
<1>6. CASE m <= -1
  <2>1. m * b <= -b
    BY <1>6
  <2> QED
    BY <1>4, <2>1
<1>7. CASE m = 0
  BY <1>1, <1>2, <1>4, <1>7
<1> QED
  BY <1>5, <1>6, <1>7

(***************************************************************************)
(* Dividing by b and then by c is dividing by their product.               *)
(***************************************************************************)
LEMMA QuotientTwice ==
    ASSUME NEW a \in Nat, NEW b \in Nat \ {0}, NEW c \in Nat \ {0}
    PROVE  a \div (b * c) = (a \div b) \div c
<1>1. PICK d \in Nat, e \in 0 .. b - 1 : d = a \div b /\ a = d * b + e
  OBVIOUS
<1>2. PICK q \in Nat, r \in 0 .. c - 1 : q = d \div c /\ d = q * c + r
  OBVIOUS
<1>3. PICK bc \in Nat : bc = b * c
  OBVIOUS
<1>4. PICK s \in Nat : s = r * b + e
  OBVIOUS
<1>5. d * b = (q * c) * b + r * b
  BY <1>2
<1>6. (q * c) * b = q * bc
  BY <1>3
<1>7. a = q * bc + s
  BY <1>1, <1>4, <1>5, <1>6
<1>8. s < bc /\ bc # 0
  <2>1. (r + 1) * b <= c * b
    BY <1>2
  <2>2. (r + 1) * b = r * b + b /\ c * b = bc
    BY <1>3
  <2> QED
    BY <1>1, <1>4, <2>1, <2>2
<1>9. a \div bc = q
  BY <1>7, <1>8, Quotient
<1> QED
  BY <1>1, <1>2, <1>3, <1>9

(***************************************************************************)
(* What a recursive definition over the naturals needs: from a, and a step *)
(* for each n, there is a function that takes these steps.  (The library's *)
(* theorem says so for an operator, which no prover here can instantiate.) *)
(***************************************************************************)
LEMMA Recursion ==
    ASSUME NEW a \in Int, NEW s \in [Nat -> [Int -> Int]]
    PROVE  \E f \in [Nat -> Int] : /\ f[0] = a
                                   /\ \A n \in Nat : f[n + 1] = s[n + 1][f[n]]
<1> DEFINE Part(g, n) == /\ g \in [0 .. n -> Int] /\ g[0] = a
                         /\ \A k \in 0 .. n - 1 : g[k + 1] = s[k + 1][g[k]]
           Some == {n \in Nat : \E g : Part(g, n)}
           P == [n \in Nat |-> CHOOSE g : Part(g, n)]
           Same == {k \in Nat : \A n \in Nat : k <= n => P[n][k] = P[k][k]}
           f == [n \in Nat |-> P[n][n]]
<1>1. \A n \in Nat : n \in Some
  <2>1. 0 \in Some
    <3>1. Part([k \in 0 .. 0 |-> a], 0)
      OBVIOUS
    <3> QED
      BY <3>1
  <2>2. ASSUME NEW n \in Nat, n \in Some PROVE n + 1 \in Some
    <3>1. PICK g : Part(g, n)
      BY <2>2
    <3>2. PICK v \in Int : v = s[n + 1][g[n]]
      <4>1. n + 1 \in Nat /\ n \in 0 .. n
        OBVIOUS
      <4>2. g[n] \in Int
        BY <3>1, <4>1
      <4>3. s[n + 1] \in [Int -> Int]
        BY <4>1
      <4> QED
        BY <4>2, <4>3
    <3> DEFINE h == [k \in 0 .. n + 1 |-> IF k = n + 1 THEN v ELSE g[k]]
    <3>3. h \in [0 .. n + 1 -> Int] /\ h[0] = a
      BY <3>1, <3>2
    <3>4. ASSUME NEW k \in 0 .. (n + 1) - 1 PROVE h[k + 1] = s[k + 1][h[k]]
      <4>1. CASE k = n
        BY <3>2, <4>1
      <4>2. CASE k # n
        <5>1. /\ k \in 0 .. n - 1 /\ k # n + 1 /\ k + 1 # n + 1
              /\ k \in 0 .. n + 1 /\ k + 1 \in 0 .. n + 1
          BY <4>2
        <5>2. h[k] = g[k] /\ h[k + 1] = g[k + 1]
          BY <5>1
        <5> QED
          BY <3>1, <5>1, <5>2
      <4> QED
        BY <4>1, <4>2
    <3> HIDE DEF h
    <3>5. Part(h, n + 1)
      BY <3>3, <3>4
    <3> HIDE DEF Part
    <3>6. \E e : Part(e, n + 1)
      BY <3>5
    <3> QED
      BY <3>6
  <2> HIDE DEF Some
  <2> QED
    BY <2>1, <2>2, Induction
<1>2. \A n \in Nat : Part(P[n], n)
  BY <1>1
<1> HIDE DEF P, Some
<1>3. \A k \in Nat : k \in Same
  <2>1. 0 \in Same
    BY <1>2
  <2>2. ASSUME NEW k \in Nat, k \in Same PROVE k + 1 \in Same
    <3>1. ASSUME NEW n \in Nat, k + 1 <= n PROVE P[n][k + 1] = s[k + 1][P[k][k]]
      <4>1. k \in 0 .. n - 1 /\ k <= n
        BY <3>1
      <4>2. P[n][k] = P[k][k]
        BY <2>2, <4>1
      <4> QED
        BY <1>2, <4>1, <4>2
    <3>2. k + 1 \in Nat /\ k + 1 <= k + 1
      OBVIOUS
    <3>3. P[k + 1][k + 1] = s[k + 1][P[k][k]]
      BY <3>1, <3>2
    <3>4. \A n \in Nat : k + 1 <= n => P[n][k + 1] = P[k + 1][k + 1]
      BY <3>1, <3>3
    <3> QED
      BY <3>2, <3>4
  <2> HIDE DEF Same
  <2> QED
    BY <2>1, <2>2, Induction
<1>4. f \in [Nat -> Int] /\ f[0] = a
  <2>1. ASSUME NEW n \in Nat PROVE P[n][n] \in Int
    <3> HIDE DEF Part, Same, f
    <3>8. Part(P[n], n)
      BY <1>2
    <3>1. P[n] \in [0 .. n -> Int] /\ n \in 0 .. n
      BY <3>8 DEF Part
    <3>2. PICK p : p = P[n]
      OBVIOUS
    <3>3. p[n] \in Int
      BY <3>1, <3>2
    <3> QED
      BY <3>2, <3>3
  <2>2. P[0][0] = a
    BY <1>2
  <2> HIDE DEF Same
  <2> QED
    BY <2>1, <2>2
<1>5. ASSUME NEW n \in Nat PROVE f[n + 1] = s[n + 1][f[n]]
  <2>1. n \in 0 .. (n + 1) - 1 /\ n + 1 \in Nat /\ n <= n + 1
    OBVIOUS
  <2>2. P[n + 1][n + 1] = s[n + 1][P[n + 1][n]]
    BY <1>2, <2>1
  <2>3. P[n + 1][n] = P[n][n]
    BY <1>3, <2>1
  <2> QED
    BY <2>1, <2>2, <2>3
<1> HIDE DEF f
<1> QED
  BY <1>4, <1>5

(***************************************************************************)
(* The powers of a base are what they should be.                           *)
(***************************************************************************)
LEMMA PowerRec ==
    ASSUME NEW b \in Nat \ {0}
    PROVE  /\ Power(b) \in [Nat -> Nat \ {0}]
           /\ Power(b)[0] = 1
           /\ \A n \in Nat : Power(b)[n + 1] = b * Power(b)[n]
<1> DEFINE s == [n \in Nat |-> [v \in Int |-> b * v]]
           P == Power(b)
           Good == {n \in Nat : P[n] \in Nat \ {0}}
<1>1. s \in [Nat -> [Int -> Int]] /\ \A n \in Nat, v \in Int : s[n][v] = b * v
  OBVIOUS
<1> HIDE DEF s
<1>2. PICK f \in [Nat -> Int] : f[0] = 1 /\ \A n \in Nat : f[n + 1] = s[n + 1][f[n]]
  <2>1. 1 \in Int
    OBVIOUS
  <2> QED
    BY <1>1, <2>1, Recursion, Zenon
<1>3. f = [k \in Nat |-> IF k = 0 THEN 1 ELSE b * f[k - 1]]
  <2>1. ASSUME NEW k \in Nat, k # 0 PROVE f[k] = b * f[k - 1]
    <3>1. k - 1 \in Nat /\ (k - 1) + 1 = k
      BY <2>1
    <3> QED
      BY <1>1, <1>2, <3>1
  <2> QED
    BY <1>2, <2>1
<1>4. P = [k \in Nat |-> IF k = 0 THEN 1 ELSE b * P[k - 1]]
  BY <1>3 DEF Power
<1> HIDE DEF P
<1>5. P[0] = 1
  BY <1>4
<1>6. ASSUME NEW n \in Nat PROVE P[n + 1] = b * P[n]
  <2>1. n + 1 \in Nat /\ n + 1 # 0 /\ (n + 1) - 1 = n
    OBVIOUS
  <2> QED
    BY <1>4, <2>1
<1>7. \A n \in Nat : n \in Good
  <2>1. 0 \in Good
    BY <1>5
  <2>2. ASSUME NEW n \in Nat, n \in Good PROVE n + 1 \in Good
    <3>1. PICK p \in Nat \ {0} : p = P[n]
      BY <2>2
    <3>2. b * p \in Nat \ {0}
      OBVIOUS
    <3> QED
      BY <1>6, <3>1, <3>2
  <2> HIDE DEF Good
  <2> QED
    BY <2>1, <2>2, Induction
<1>8. P \in [Nat -> Nat \ {0}]
  BY <1>4, <1>7
<1> QED
  BY <1>5, <1>6, <1>8 DEF P

(***************************************************************************)
(* The powers of a base grow, and faster than the exponent.                *)
(***************************************************************************)
LEMMA PowerGrows ==
    ASSUME NEW b \in Nat, b > 1
    PROVE  /\ \A n \in Nat : Power(b)[n] > n
           /\ \A i, j \in Nat : i <= j => Power(b)[i] <= Power(b)[j]
<1> DEFINE P == Power(b)
           Big == {n \in Nat : P[n] > n}
           Up == {j \in Nat : \A i \in Nat : i <= j => P[i] <= P[j]}
<1>1. P \in [Nat -> Nat \ {0}] /\ P[0] = 1 /\ \A n \in Nat : P[n + 1] = b * P[n]
  BY PowerRec
<1> HIDE DEF P
<1>2. ASSUME NEW n \in Nat PROVE P[n + 1] >= P[n] + 1
  <2>1. PICK p \in Nat \ {0}, c \in Nat : p = P[n] /\ b = c + 2
    <3>1. b - 2 \in Nat /\ b = (b - 2) + 2
      OBVIOUS
    <3> QED
      BY <1>1, <3>1
  <2>2. PICK x \in Nat : x = c * p
    OBVIOUS
  <2>3. b * p = x + 2 * p
    BY <2>1, <2>2
  <2>4. P[n + 1] = b * p
    BY <1>1, <2>1
  <2> QED
    BY <2>1, <2>3, <2>4
<1>3. \A n \in Nat : n \in Big
  <2>1. 0 \in Big
    BY <1>1
  <2>2. ASSUME NEW n \in Nat, n \in Big PROVE n + 1 \in Big
    BY <1>1, <1>2, <2>2
  <2> HIDE DEF Big
  <2> QED
    BY <2>1, <2>2, Induction
<1>4. \A j \in Nat : j \in Up
  <2>1. 0 \in Up
    BY <1>1
  <2>2. ASSUME NEW j \in Nat, j \in Up PROVE j + 1 \in Up
    <3>1. ASSUME NEW i \in Nat, i <= j + 1 PROVE P[i] <= P[j + 1]
      <4>1. CASE i = j + 1
        BY <1>1, <4>1
      <4>2. CASE i # j + 1
        <5>1. P[i] <= P[j]
          BY <2>2, <3>1, <4>2
        <5> QED
          BY <1>1, <1>2, <5>1
      <4> QED
        BY <4>1, <4>2
    <3> QED
      BY <3>1
  <2> HIDE DEF Up
  <2> QED
    BY <2>1, <2>2, Induction
<1> QED
  BY <1>3, <1>4 DEF P

-----------------------------------------------------------------------------
(***************************************************************************)
(* Numerals.  num has k places in base b when k is the least exponent,     *)
(* from 1, whose power num does not reach.                                 *)
(***************************************************************************)
Places(num, b, k) ==
    /\ k \in Nat \ {0}
    /\ num < Power(b)[k]
    /\ k = 1 \/ num >= Power(b)[k - 1]

(* The i-th of the k digits of num. *)
DigitAt(num, b, k, i) == Glyph((num \div Power(b)[k - i]) % b)

Glyphic == {Glyph(m) : m \in Nat}

(* C's numeral in the digits of print_digit(), capitals from ten. *)
Printed(num, base) ==
    LET k == CHOOSE k \in 1 .. num + 1 :
                /\ num < Power(base)[k]
                /\ k = 1 \/ num >= Power(base)[k - 1]
    IN [i \in 1 .. k |-> DigitAt(num, base, k, i)]

(***************************************************************************)
(* Every natural has a number of places, which is at most num + 1: what    *)
(* the CHOOSE of a numeral looks for exists.                               *)
(***************************************************************************)
LEMMA PlacesExist ==
    ASSUME NEW num \in Nat, NEW b \in Nat, b > 1
    PROVE  \E k \in 1 .. num + 1 : Places(num, b, k)
<1> DEFINE P == Power(b)
           T == {k \in Nat : k >= 1 /\ num < P[k]}
<1>1. P \in [Nat -> Nat \ {0}]
  BY PowerRec
<1>2. num + 1 \in Nat /\ P[num + 1] > num + 1
  BY PowerGrows
<1> HIDE DEF P
<1>3. T \in SUBSET Nat /\ num + 1 \in T
  BY <1>1, <1>2
<1>4. PICK k \in T : \A j \in T : k <= j
  <2> HIDE DEF T
  <2> QED
    BY <1>3, NatMin
<1>5. k \in 1 .. num + 1 /\ num < P[k]
  BY <1>3, <1>4
<1>6. ASSUME k # 1 PROVE num >= P[k - 1]
  <2>1. k - 1 \in Nat /\ k - 1 >= 1 /\ k - 1 < k
    BY <1>5, <1>6
  <2>2. k - 1 \notin T
    <3> HIDE DEF T
    <3> QED
      BY <1>4, <1>5, <2>1
  <2> QED
    BY <1>1, <2>1, <2>2
<1>7. Places(num, b, k)
  BY <1>5, <1>6 DEF Places, P
<1> QED
  BY <1>5, <1>7

(***************************************************************************)
(* The number of places is unique.                                         *)
(***************************************************************************)
LEMMA PlacesUnique ==
    ASSUME NEW num \in Nat, NEW b \in Nat, b > 1, NEW j, NEW k,
           Places(num, b, j), Places(num, b, k)
    PROVE  j = k
<1> DEFINE P == Power(b)
<1>0. b \in Nat \ {0}
  OBVIOUS
<1>1. P \in [Nat -> Nat \ {0}] /\ \A i, n \in Nat : i <= n => P[i] <= P[n]
  BY <1>0, PowerRec, PowerGrows, Zenon
<1>2. /\ j \in Nat \ {0} /\ num < P[j] /\ (j = 1 \/ num >= P[j - 1])
      /\ k \in Nat \ {0} /\ num < P[k] /\ (k = 1 \/ num >= P[k - 1])
  BY DEF Places
<1> HIDE DEF P
<1>3. ASSUME NEW m \in Nat \ {0}, NEW n \in Nat \ {0}, m < n,
             num < P[m], n = 1 \/ num >= P[n - 1]
      PROVE  FALSE
  <2>1. n - 1 \in Nat /\ m <= n - 1 /\ n # 1
    BY <1>3
  <2>2. P[m] <= P[n - 1] /\ P[m] \in Nat /\ P[n - 1] \in Nat
    BY <1>1, <2>1
  <2> QED
    BY <1>3, <2>1, <2>2
<1> QED
  BY <1>2, <1>3

(***************************************************************************)
(* A numeral, when the number of places is known.                          *)
(***************************************************************************)
LEMMA PrintedIs ==
    ASSUME NEW num \in Nat, NEW b \in Nat, b > 1, NEW k, Places(num, b, k)
    PROVE  Printed(num, b) = [i \in 1 .. k |-> DigitAt(num, b, k, i)]
<1> DEFINE c == CHOOSE n \in 1 .. num + 1 :
                   /\ num < Power(b)[n]
                   /\ n = 1 \/ num >= Power(b)[n - 1]
<1>1. \E n \in 1 .. num + 1 : /\ num < Power(b)[n]
                              /\ n = 1 \/ num >= Power(b)[n - 1]
  BY PlacesExist DEF Places
<1>2. /\ c \in 1 .. num + 1
      /\ num < Power(b)[c]
      /\ c = 1 \/ num >= Power(b)[c - 1]
  BY <1>1
<1>3. Printed(num, b) = [i \in 1 .. c |-> DigitAt(num, b, c, i)]
  BY DEF Printed, DigitAt
<1> HIDE DEF c
<1>4. Places(num, b, c)
  BY <1>2 DEF Places
<1>5. c = k
  BY <1>4, PlacesUnique
<1> QED
  BY <1>3, <1>5

(***************************************************************************)
(* One place more than the quotient.                                       *)
(***************************************************************************)
LEMMA PlacesDivided ==
    ASSUME NEW num \in Nat, NEW b \in Nat, b > 1, num >= b,
           NEW k, Places(num \div b, b, k)
    PROVE  Places(num, b, k + 1)
<1> DEFINE P == Power(b)
<1>0. b \in Nat \ {0}
  OBVIOUS
<1>1. /\ P \in [Nat -> Nat \ {0}] /\ P[0] = 1
      /\ \A n \in Nat : P[n + 1] = b * P[n]
  BY <1>0, PowerRec, Zenon
<1>2. PICK q \in Nat, r \in 0 .. b - 1 : q = num \div b /\ num = q * b + r
  OBVIOUS
<1>3. k \in Nat \ {0} /\ q < P[k] /\ (k = 1 \/ q >= P[k - 1])
  BY <1>2 DEF Places
<1> HIDE DEF P
<1>4. PICK p \in Nat \ {0} : p = P[k]
  BY <1>1, <1>3
<1>5. num < P[k + 1]
  <2>1. P[k + 1] = p * b
    BY <1>1, <1>3, <1>4
  <2>2. (q + 1) * b <= p * b
    BY <1>3, <1>4
  <2>3. (q + 1) * b = q * b + b
    OBVIOUS
  <2> QED
    BY <1>2, <2>1, <2>2, <2>3
<1>6. num >= P[(k + 1) - 1]
  <2>1. (k + 1) - 1 = k
    BY <1>3
  <2>2. CASE k = 1
    <3>1. P[0 + 1] = b * 1 /\ 0 + 1 = k
      BY <1>1, <2>2
    <3>2. P[k] = b
      BY <3>1
    <3> QED
      BY <2>1, <3>2
  <2>3. CASE k # 1
    <3>1. k - 1 \in Nat /\ (k - 1) + 1 = k
      BY <1>3
    <3>2. PICK o \in Nat \ {0} : o = P[k - 1]
      BY <1>1, <3>1
    <3>3. P[k] = o * b
      BY <1>1, <3>1, <3>2
    <3>4. o * b <= q * b
      BY <1>3, <2>3, <3>2
    <3> QED
      BY <1>2, <2>1, <3>3, <3>4
  <2> QED
    BY <2>2, <2>3
<1> QED
  BY <1>3, <1>5, <1>6 DEF Places, P

(***************************************************************************)
(* A numeral is a sequence of glyphs, as long as it has places.            *)
(***************************************************************************)
LEMMA PrintedType ==
    ASSUME NEW num \in Nat, NEW b \in Nat, b > 1
    PROVE  /\ Printed(num, b) \in Seq(Glyphic)
           /\ Len(Printed(num, b)) \in Nat \ {0}
           /\ Places(num, b, Len(Printed(num, b)))
<1> DEFINE P == Power(b)
<1>0. b \in Nat \ {0}
  OBVIOUS
<1>1. P \in [Nat -> Nat \ {0}]
  BY <1>0, PowerRec, Zenon
<1>2. PICK k \in 1 .. num + 1 : Places(num, b, k)
  BY PlacesExist
<1>3. Printed(num, b) = [i \in 1 .. k |-> DigitAt(num, b, k, i)]
  BY <1>2, PrintedIs
<1> HIDE DEF P
<1>4. ASSUME NEW i \in 1 .. k PROVE DigitAt(num, b, k, i) \in Glyphic
  <2>1. PICK p \in Nat \ {0} : p = P[k - i]
    <3>1. k - i \in Nat
      OBVIOUS
    <3> QED
      BY <1>1, <3>1
  <2>2. PICK q \in Nat : q = num \div p
    OBVIOUS
  <2>3. q % b \in Nat
    OBVIOUS
  <2> QED
    BY <2>1, <2>2, <2>3 DEF DigitAt, Glyphic, P
<1>5. Printed(num, b) \in Seq(Glyphic) /\ Len(Printed(num, b)) = k
  <2>1. k \in Nat
    OBVIOUS
  <2> HIDE DEF P
  <2> QED
    BY <1>3, <1>4, <2>1
<1> QED
  BY <1>2, <1>5

(***************************************************************************)
(* A number below the base is one digit.                                   *)
(***************************************************************************)
LEMMA PrintedSmall ==
    ASSUME NEW num \in Nat, NEW b \in Nat, b > 1, num < b
    PROVE  Printed(num, b) = <<Glyph(num)>>
<1>0. b \in Nat \ {0}
  OBVIOUS
<1>1. Power(b)[0] = 1 /\ Power(b)[0 + 1] = b * Power(b)[0]
  BY <1>0, PowerRec
<1>2. Power(b)[0] = 1 /\ Power(b)[1] = b
  BY <1>1
<1>3. Places(num, b, 1)
  BY <1>2 DEF Places
<1>4. Printed(num, b) = [i \in 1 .. 1 |-> DigitAt(num, b, 1, i)]
  BY <1>3, PrintedIs
<1>5. DigitAt(num, b, 1, 1) = Glyph(num)
  <2>1. 1 - 1 = 0 /\ num \div 1 = num /\ num % b = num
    BY Quotient
  <2> QED
    BY <1>2, <2>1 DEF DigitAt
<1>6. \A i \in 1 .. 1 : DigitAt(num, b, 1, i) = Glyph(num)
  BY <1>5
<1> HIDE DEF DigitAt
<1>7. Printed(num, b) = [i \in 1 .. 1 |-> Glyph(num)]
  BY <1>4, <1>6
<1> QED
  BY <1>7

(***************************************************************************)
(* Any other is the quotient by the base followed by the remainder: what   *)
(* the three recursions of the code have in common.                        *)
(***************************************************************************)
LEMMA PrintedDivided ==
    ASSUME NEW num \in Nat, NEW b \in Nat, b > 1, num >= b
    PROVE  /\ num \div b \in Nat /\ num \div b < num
           /\ Printed(num, b) = Append(Printed(num \div b, b), Glyph(num % b))
           /\ Len(Printed(num, b)) = Len(Printed(num \div b, b)) + 1
<1> DEFINE P == Power(b)
<1>0. b \in Nat \ {0}
  OBVIOUS
<1>1. /\ P \in [Nat -> Nat \ {0}] /\ P[0] = 1
      /\ \A n \in Nat : P[n + 1] = b * P[n]
  BY <1>0, PowerRec, Zenon
<1>2. PICK q \in Nat, r \in 0 .. b - 1 : q = num \div b /\ r = num % b /\ num = q * b + r
  OBVIOUS
<1>3. q < num
  <2>1. q # 0
    BY <1>2
  <2>2. PICK c \in Nat : b = c + 2
    <3>1. b - 2 \in Nat /\ b = (b - 2) + 2
      OBVIOUS
    <3> QED
      BY <3>1
  <2>3. q * b = q * c + 2 * q /\ q * c \in Nat
    BY <2>2
  <2>4. PICK x \in Nat : x = q * c
    OBVIOUS
  <2> QED
    BY <1>2, <2>1, <2>3, <2>4
<1>4. PICK k \in 1 .. q + 1 : Places(q, b, k)
  BY PlacesExist
<1>5. Places(num, b, k + 1)
  BY <1>2, <1>4, PlacesDivided
<1>6. /\ Printed(q, b) = [i \in 1 .. k |-> DigitAt(q, b, k, i)]
      /\ Printed(num, b) = [i \in 1 .. k + 1 |-> DigitAt(num, b, k + 1, i)]
  BY <1>4, <1>5, PrintedIs
<1> HIDE DEF P
<1>7. ASSUME NEW i \in 1 .. k PROVE DigitAt(num, b, k + 1, i) = DigitAt(q, b, k, i)
  <2>1. k - i \in Nat /\ (k + 1) - i = (k - i) + 1
    OBVIOUS
  <2>2. PICK p \in Nat \ {0} : p = P[k - i]
    BY <1>1, <2>1
  <2>3. P[(k + 1) - i] = b * p
    BY <1>1, <2>1, <2>2
  <2>4. num \div (b * p) = q \div p
    BY <1>0, <1>2, QuotientTwice
  <2> QED
    BY <2>2, <2>3, <2>4 DEF DigitAt, P
<1>8. DigitAt(num, b, k + 1, k + 1) = Glyph(num % b)
  <2>1. (k + 1) - (k + 1) = 0 /\ num \div 1 = num
    BY Quotient
  <2> QED
    BY <1>1, <2>1 DEF DigitAt, P
<1>9. Printed(q, b) \in Seq(Glyphic) /\ Len(Printed(q, b)) = k
  <2>1. /\ Printed(q, b) \in Seq(Glyphic)
        /\ Places(q, b, Len(Printed(q, b)))
    BY PrintedType
  <2> QED
    BY <1>4, <2>1, PlacesUnique
<1>10. Printed(num, b) \in Seq(Glyphic) /\ Len(Printed(num, b)) = k + 1
  <2>1. /\ Printed(num, b) \in Seq(Glyphic)
        /\ Places(num, b, Len(Printed(num, b)))
    BY PrintedType
  <2> QED
    BY <1>5, <2>1, PlacesUnique
<1>11. Glyph(num % b) \in Glyphic
  <2>1. num % b \in Nat
    BY <1>2
  <2> QED
    BY <2>1 DEF Glyphic
<1>12. PICK g, s, t : g = Glyph(num % b) /\ s = Printed(q, b) /\ t = Printed(num, b)
  OBVIOUS
<1>13. /\ Append(s, g) \in Seq(Glyphic) /\ Len(Append(s, g)) = k + 1
       /\ \A i \in 1 .. k : Append(s, g)[i] = s[i]
       /\ Append(s, g)[k + 1] = g
  BY <1>9, <1>11, <1>12, AppendProperties
<1>14. /\ \A i \in 1 .. k : t[i] = s[i]
       /\ t[k + 1] = g
  BY <1>6, <1>7, <1>8, <1>12
<1>15. ASSUME NEW i \in 1 .. k + 1 PROVE Append(s, g)[i] = t[i]
  <2>1. i \in 1 .. k \/ i = k + 1
    OBVIOUS
  <2> QED
    BY <1>13, <1>14, <2>1
<1>16. t = Append(s, g)
  BY <1>10, <1>12, <1>13, <1>15, SeqEqual
<1> QED
  BY <1>2, <1>3, <1>9, <1>10, <1>12, <1>16

-----------------------------------------------------------------------------
(***************************************************************************)
(* The three recursions.  Each is defined as some function that satisfies  *)
(* an equation: the reference satisfies it, so there is one, and any that  *)
(* does agrees with the reference, by induction on the number.             *)
(***************************************************************************)

(***************************************************************************)
(* print_digit_no_pad() prints the numeral.                                *)
(***************************************************************************)
LEMMA NoPadIsPrinted ==
    ASSUME NEW num \in Nat, NEW b \in Nat, b > 1
    PROVE  PrintDigitNoPad(num, b) = Printed(num, b)
<1> DEFINE Equation(f) ==
              f = [m \in Nat |-> IF m >= b
                                 THEN Append(f[m \div b], Glyph(m % b))
                                 ELSE <<Glyph(m)>>]
           N == [m \in Nat |-> Printed(m, b)]
           print == CHOOSE f : Equation(f)
           D == {m \in Nat : print[m] = Printed(m, b)}
<1>1. Equation(N)
  <2>1. ASSUME NEW m \in Nat
        PROVE  N[m] = IF m >= b THEN Append(N[m \div b], Glyph(m % b)) ELSE <<Glyph(m)>>
    <3>1. CASE m >= b
      <4>1. m \div b \in Nat /\ Printed(m, b) = Append(Printed(m \div b, b), Glyph(m % b))
        BY <3>1, PrintedDivided
      <4> QED
        BY <3>1, <4>1
    <3>2. CASE ~(m >= b)
      <4>1. Printed(m, b) = <<Glyph(m)>>
        BY <3>2, PrintedSmall
      <4> QED
        BY <3>2, <4>1
    <3> QED
      BY <3>1, <3>2
  <2> QED
    BY <2>1
<1>2. Equation(print)
  <2> HIDE DEF N, Equation
  <2> QED
    BY <1>1
<1>3. PrintDigitNoPad(num, b) = print[num]
  BY DEF PrintDigitNoPad
<1> HIDE DEF print
<1>4. ASSUME NEW m \in Nat, \A n \in Nat : n < m => n \in D
      PROVE  m \in D
  <2>1. print[m] = IF m >= b THEN Append(print[m \div b], Glyph(m % b)) ELSE <<Glyph(m)>>
    BY <1>2
  <2>2. CASE m >= b
    <3>1. /\ m \div b \in Nat /\ m \div b < m
          /\ Printed(m, b) = Append(Printed(m \div b, b), Glyph(m % b))
      BY <2>2, PrintedDivided
    <3>2. print[m \div b] = Printed(m \div b, b)
      BY <1>4, <3>1
    <3> QED
      BY <2>1, <2>2, <3>1, <3>2
  <2>3. CASE ~(m >= b)
    <3>1. Printed(m, b) = <<Glyph(m)>>
      BY <2>3, PrintedSmall
    <3> QED
      BY <2>1, <2>3, <3>1
  <2> QED
    BY <2>2, <2>3
<1>5. \A m \in Nat : m \in D
  <2> HIDE DEF D
  <2> QED
    BY <1>4, StrongInduction
<1> QED
  BY <1>3, <1>5

(***************************************************************************)
(* get_num_digits() counts the digits of the numeral, the one of 0 too.    *)
(***************************************************************************)
LEMMA NumDigitsIsLength ==
    ASSUME NEW num \in Nat, NEW b \in Nat, b > 1
    PROVE  NumDigits(num, b) = Len(Printed(num, b))
<1> DEFINE Equation(f) ==
              f = [m \in Nat |-> IF m > 0 THEN 1 + f[m \div b] ELSE 0]
           L(m) == IF m = 0 THEN 0 ELSE Len(Printed(m, b))
           N == [m \in Nat |-> L(m)]
           digits == CHOOSE f : Equation(f)
           D == {m \in Nat : digits[m] = L(m)}
<1>1. ASSUME NEW m \in Nat
      PROVE  /\ m > 0 => m \div b \in Nat /\ m \div b < m /\ L(m) = 1 + L(m \div b)
             /\ ~(m > 0) => L(m) = 0
  <2>1. CASE m = 0
    BY <2>1
  <2>2. CASE m > 0 /\ m < b
    <3>1. Printed(m, b) = <<Glyph(m)>>
      BY <2>2, PrintedSmall
    <3>2. Len(Printed(m, b)) = 1
      BY <3>1
    <3>3. m \div b = 0
      BY <2>2, Quotient
    <3> QED
      BY <2>2, <3>2, <3>3
  <2>3. CASE m >= b
    <3>1. /\ m \div b \in Nat /\ m \div b < m
          /\ Len(Printed(m, b)) = Len(Printed(m \div b, b)) + 1
      BY <2>3, PrintedDivided
    <3>2. Len(Printed(m \div b, b)) \in Nat
      BY <3>1, PrintedType
    <3>3. m \div b # 0
      <4>1. PICK q \in Nat, r \in 0 .. b - 1 : q = m \div b /\ m = q * b + r
        OBVIOUS
      <4> QED
        BY <2>3, <4>1
    <3> QED
      BY <2>3, <3>1, <3>2, <3>3
  <2> QED
    BY <2>1, <2>2, <2>3
<1> HIDE DEF L
<1>2. Equation(N)
  BY <1>1
<1>3. Equation(digits)
  <2> HIDE DEF N, Equation
  <2> QED
    BY <1>2
<1>4. NumDigits(num, b) = IF num = 0 THEN 1 ELSE digits[num]
  BY DEF NumDigits
<1> HIDE DEF digits
<1>5. ASSUME NEW m \in Nat, \A n \in Nat : n < m => n \in D
      PROVE  m \in D
  <2>1. digits[m] = IF m > 0 THEN 1 + digits[m \div b] ELSE 0
    BY <1>3
  <2>2. CASE m > 0
    <3>1. digits[m \div b] = L(m \div b)
      BY <1>1, <1>5, <2>2
    <3> QED
      BY <1>1, <2>1, <2>2, <3>1
  <2>3. CASE ~(m > 0)
    BY <1>1, <2>1, <2>3
  <2> QED
    BY <2>2, <2>3
<1>6. digits[num] = L(num)
  <2>1. \A m \in Nat : m \in D
    <3> HIDE DEF D
    <3> QED
      BY <1>5, StrongInduction
  <2> QED
    BY <2>1
<1>7. CASE num = 0
  <2>1. Printed(num, b) = <<Glyph(num)>>
    BY <1>7, PrintedSmall
  <2>2. Len(Printed(num, b)) = 1
    BY <2>1
  <2> QED
    BY <1>4, <1>7, <2>2
<1>8. CASE num # 0
  BY <1>4, <1>6, <1>8 DEF L
<1> QED
  BY <1>7, <1>8

(***************************************************************************)
(* Padding, of whatever length is left, a negative one included.           *)
(***************************************************************************)
LEMMA TimesType ==
    ASSUME NEW S, NEW c \in S, NEW k \in Int
    PROVE  Times(c, k) \in Seq(S)
<1>1. CASE k >= 0
  BY <1>1 DEF Times
<1>2. CASE k < 0
  <2>1. 1 .. k = 1 .. 0
    BY <1>2
  <2> QED
    BY <2>1 DEF Times
<1> QED
  BY <1>1, <1>2

(***************************************************************************)
(* print_digit() prints the padding that its width leaves and then the     *)
(* numeral, although it prints the padding only when it has divided the    *)
(* number as often as it can.                                              *)
(***************************************************************************)
THEOREM PrintDigitIsPadded ==
    ASSUME NEW num \in Nat, NEW b \in Nat, b > 1, NEW w \in Int, NEW pad
    PROVE  PrintDigit(num, b, w, pad) =
               Times(pad, w - Len(Printed(num, b))) \o Printed(num, b)
<1> DEFINE Equation(f) ==
              f = [m \in Nat |->
                      [left \in Int |->
                          IF m >= b
                          THEN Append(f[m \div b][left - 1], Glyph(m % b))
                          ELSE Append(Times(pad, left - 1), Glyph(m))]]
           Padded(m, left) == Times(pad, left - Len(Printed(m, b))) \o Printed(m, b)
           N == [m \in Nat |-> [left \in Int |-> Padded(m, left)]]
           print == CHOOSE f : Equation(f)
           D == {m \in Nat : \A left \in Int : print[m][left] = Padded(m, left)}
           S == Glyphic \cup {pad}
<1>1. ASSUME NEW m \in Nat, NEW left \in Int, m >= b
      PROVE  /\ m \div b \in Nat /\ m \div b < m /\ left - 1 \in Int
             /\ Padded(m, left) = Append(Padded(m \div b, left - 1), Glyph(m % b))
  <2>1. /\ m \div b \in Nat /\ m \div b < m
        /\ Printed(m, b) = Append(Printed(m \div b, b), Glyph(m % b))
        /\ Len(Printed(m, b)) = Len(Printed(m \div b, b)) + 1
    BY <1>1, PrintedDivided
  <2>2. PICK s, g : s = Printed(m \div b, b) /\ g = Glyph(m % b)
    OBVIOUS
  <2>3. s \in Seq(S) /\ Len(s) \in Nat
    <3>1. s \in Seq(Glyphic) /\ Len(s) \in Nat
      BY <2>1, <2>2, PrintedType
    <3>2. Glyphic \subseteq S
      OBVIOUS
    <3> HIDE DEF S
    <3> QED
      BY <3>1, <3>2, SeqMonotonic
  <2>4. g \in S
    <3>1. m % b \in Nat
      OBVIOUS
    <3> QED
      BY <2>2, <3>1 DEF Glyphic
  <2>5. PICK k \in Int : k = left - Len(Printed(m, b)) /\ k = (left - 1) - Len(s)
    <3> HIDE DEF S
    <3>1. PICK l \in Nat : l = Len(s)
      BY <2>3
    <3>2. Len(Printed(m, b)) = l + 1
      BY <2>1, <2>2, <3>1
    <3>3. left - (l + 1) \in Int /\ left - (l + 1) = (left - 1) - l
      OBVIOUS
    <3> QED
      BY <3>1, <3>2, <3>3
  <2>6. pad \in S
    OBVIOUS
  <2> HIDE DEF S
  <2>7. PICK t : t = Times(pad, k) /\ t \in Seq(S)
    BY <2>6, TimesType
  <2>8. Padded(m, left) = t \o Append(s, g) /\ Padded(m \div b, left - 1) = t \o s
    BY <2>1, <2>2, <2>5, <2>7
  <2>9. <<g>> \in Seq(S) /\ Append(s, g) = s \o <<g>>
    BY <2>3, <2>4, AppendIsConcat
  <2>10. t \o s \in Seq(S)
    BY <2>3, <2>7, ConcatProperties
  <2>11. Append(t \o s, g) = (t \o s) \o <<g>>
    BY <2>4, <2>10, AppendIsConcat
  <2>12. (t \o s) \o <<g>> = t \o (s \o <<g>>)
    BY <2>3, <2>7, <2>9, ConcatAssociative
  <2>13. Padded(m, left) = Append(Padded(m \div b, left - 1), g)
    BY <2>8, <2>9, <2>11, <2>12
  <2> HIDE DEF Padded
  <2>14. Padded(m, left) = Append(Padded(m \div b, left - 1), Glyph(m % b))
    BY <2>2, <2>13
  <2>15. left - 1 \in Int
    OBVIOUS
  <2> QED
    BY <2>1, <2>14, <2>15
<1>2. ASSUME NEW m \in Nat, NEW left \in Int, ~(m >= b)
      PROVE  Padded(m, left) = Append(Times(pad, left - 1), Glyph(m))
  <2>1. Printed(m, b) = <<Glyph(m)>>
    BY <1>2, PrintedSmall
  <2>2. Len(Printed(m, b)) = 1
    BY <2>1
  <2>3. Glyph(m) \in S /\ pad \in S /\ left - 1 \in Int
    BY DEF Glyphic
  <2> HIDE DEF S
  <2>4. Times(pad, left - 1) \in Seq(S)
    BY <2>3, TimesType
  <2>5. Append(Times(pad, left - 1), Glyph(m)) = Times(pad, left - 1) \o <<Glyph(m)>>
    BY <2>3, <2>4, AppendIsConcat
  <2> QED
    BY <2>1, <2>2, <2>5
<1> HIDE DEF Padded
<1>3. Equation(N)
  <2>1. ASSUME NEW m \in Nat, NEW left \in Int
        PROVE  N[m][left] = IF m >= b
                            THEN Append(N[m \div b][left - 1], Glyph(m % b))
                            ELSE Append(Times(pad, left - 1), Glyph(m))
    BY <1>1, <1>2
  <2>2. ASSUME NEW m \in Nat
        PROVE  N[m] = [left \in Int |->
                          IF m >= b
                          THEN Append(N[m \div b][left - 1], Glyph(m % b))
                          ELSE Append(Times(pad, left - 1), Glyph(m))]
    <3>1. N[m] = [left \in Int |-> N[m][left]]
      OBVIOUS
    <3> HIDE DEF N
    <3> QED
      BY <2>1, <3>1
  <2> QED
    BY <2>2
<1>4. Equation(print)
  <2> HIDE DEF N, Equation
  <2> QED
    BY <1>3
<1>5. PrintDigit(num, b, w, pad) = print[num][w]
  BY DEF PrintDigit
<1> HIDE DEF print
<1>6. ASSUME NEW m \in Nat, \A n \in Nat : n < m => n \in D
      PROVE  m \in D
  <2>1. ASSUME NEW left \in Int PROVE print[m][left] = Padded(m, left)
    <3>1. print[m][left] = IF m >= b
                           THEN Append(print[m \div b][left - 1], Glyph(m % b))
                           ELSE Append(Times(pad, left - 1), Glyph(m))
      <4>1. print[m] = [l \in Int |->
                           IF m >= b
                           THEN Append(print[m \div b][l - 1], Glyph(m % b))
                           ELSE Append(Times(pad, l - 1), Glyph(m))]
        BY <1>4
      <4> QED
        BY <4>1
    <3>2. CASE m >= b
      <4>1. /\ m \div b \in Nat /\ m \div b < m /\ left - 1 \in Int
            /\ Padded(m, left) = Append(Padded(m \div b, left - 1), Glyph(m % b))
        BY <1>1, <3>2
      <4>2. print[m \div b][left - 1] = Padded(m \div b, left - 1)
        BY <1>6, <4>1
      <4> QED
        BY <3>1, <3>2, <4>1, <4>2
    <3>3. CASE ~(m >= b)
      BY <1>2, <3>1, <3>3
    <3> QED
      BY <3>2, <3>3
  <2> QED
    BY <2>1
<1>7. \A m \in Nat : m \in D
  <2> HIDE DEF D
  <2> QED
    BY <1>6, StrongInduction
<1> QED
  BY <1>5, <1>7 DEF Padded

-----------------------------------------------------------------------------
(***************************************************************************)
(* A field: sign and body in a field of width w, aligned to the left, or   *)
(* filled with zeros after the sign, or with blanks before it.             *)
(***************************************************************************)
Field(sign, body, w, minus, zero) ==
    LET text == sign \o body
        fill == w - Len(text)
    IN IF minus THEN text \o Times(Space, fill)
       ELSE IF zero THEN sign \o Times("0", fill) \o body
       ELSE Times(Space, fill) \o text

Pad(zero) == IF zero THEN "0" ELSE Space

SignOf(value) == IF value < 0 THEN <<"-">> ELSE <<>>

Abs(value) == IF value < 0 THEN -value ELSE value

(***************************************************************************)
(* print_num() prints the field of an unsigned number.                     *)
(***************************************************************************)
LEMMA PrintNumIsField ==
    ASSUME NEW num \in Nat, NEW b \in Nat, b > 1, NEW w \in Int,
           NEW left \in BOOLEAN, NEW zero \in BOOLEAN
    PROVE  PrintNum(num, b, w, Pad(zero), left) =
               Field(<<>>, Printed(num, b), w, left, zero)
<1>1. PICK s : s = Printed(num, b)
  OBVIOUS
<1>2. s \in Seq(Glyphic)
  BY <1>1, PrintedType
<1>3. <<>> \o s = s
  BY <1>2, ConcatEmptySeq
<1>4. /\ PrintDigitNoPad(num, b) = s
      /\ NumDigits(num, b) = Len(s)
      /\ PrintDigit(num, b, w, Pad(zero)) = Times(Pad(zero), w - Len(s)) \o s
  BY <1>1, NoPadIsPrinted, NumDigitsIsLength, PrintDigitIsPadded
<1>5. PrintNum(num, b, w, Pad(zero), left) =
          IF left THEN s \o Times(Space, w - Len(s))
          ELSE Times(Pad(zero), w - Len(s)) \o s
  BY <1>4 DEF PrintNum
<1>6. PICK k : k = w - Len(s)
  OBVIOUS
<1>7. Field(<<>>, s, w, left, zero) =
          IF left THEN s \o Times(Space, k)
          ELSE IF zero THEN <<>> \o Times("0", k) \o s
          ELSE Times(Space, k) \o s
  BY <1>3, <1>6 DEF Field
<1>8. <<>> \o Times("0", k) = Times("0", k)
  <2>1. k \in Int
    <3>1. PICK l \in Nat : l = Len(s)
      BY <1>2, LenProperties
    <3> QED
      BY <1>6, <3>1
  <2>2. PICK S : S = {"0"}
    OBVIOUS
  <2>3. Times("0", k) \in Seq(S)
    BY <2>1, <2>2, TimesType
  <2> QED
    BY <2>3, ConcatEmptySeq
<1> QED
  BY <1>1, <1>5, <1>6, <1>7, <1>8 DEF Pad

(***************************************************************************)
(* print_signed_num() prints the field of a signed number.                 *)
(***************************************************************************)
LEMMA PrintSignedNumIsField ==
    ASSUME NEW value \in Int, NEW b \in Nat, b > 1, NEW w \in Int,
           NEW left \in BOOLEAN, NEW zero \in BOOLEAN
    PROVE  PrintSignedNum(value, b, w, Pad(zero), left) =
               Field(SignOf(value), Printed(Abs(value), b), w, left, zero)
<1> DEFINE S == Glyphic \cup {"-", Space}
<1>1. Abs(value) \in Nat
  BY DEF Abs
<1>2. PICK s, g : s = Printed(Abs(value), b) /\ g = SignOf(value)
  OBVIOUS
<1>3. s \in Seq(S) /\ Len(s) \in Nat
  <2>1. s \in Seq(Glyphic) /\ Len(s) \in Nat
    BY <1>1, <1>2, PrintedType
  <2>2. Glyphic \subseteq S
    OBVIOUS
  <2> HIDE DEF S
  <2> QED
    BY <2>1, <2>2, SeqMonotonic
<1>4. g \in Seq(S) /\ Len(g) \in Nat
  <2>1. PICK d \in S : d = "-"
    OBVIOUS
  <2>2. g = <<d>> \/ g = <<>>
    BY <1>2, <2>1 DEF SignOf
  <2> HIDE DEF S
  <2>3. <<d>> \in Seq(S) /\ <<>> \in Seq(S)
    BY EmptySeq
  <2>4. g \in Seq(S)
    BY <2>2, <2>3
  <2> QED
    BY <2>4, LenProperties
<1>5. /\ PrintDigitNoPad(Abs(value), b) = s
      /\ NumDigits(Abs(value), b) = Len(s)
  BY <1>1, <1>2, NoPadIsPrinted, NumDigitsIsLength
<1>6. Space \in S
  OBVIOUS
<1> HIDE DEF S
<1>7. g \o s \in Seq(S) /\ Len(g \o s) = Len(g) + Len(s)
  BY <1>3, <1>4, ConcatProperties
<1>8. PICK k \in Int : k = w - (Len(s) + Len(g)) /\ k = w - Len(g \o s)
  <2>1. PICK i \in Nat, j \in Nat : i = Len(s) /\ j = Len(g)
    BY <1>3, <1>4
  <2>2. w - (i + j) \in Int /\ w - (i + j) = w - (j + i)
    OBVIOUS
  <2> QED
    BY <1>7, <2>1, <2>2
<1>9. PrintSignedNum(value, b, w, Pad(zero), left) =
          IF left THEN g \o s \o Times(Space, k)
          ELSE IF Pad(zero) = "0" THEN g \o Times("0", k) \o s
          ELSE Times(Pad(zero), k) \o g \o s
  BY <1>2, <1>5, <1>8 DEF PrintSignedNum, Abs, SignOf
<1>10. Field(g, s, w, left, zero) =
          IF left THEN (g \o s) \o Times(Space, k)
          ELSE IF zero THEN g \o Times("0", k) \o s
          ELSE Times(Space, k) \o (g \o s)
  BY <1>8 DEF Field
<1>11. Times(Space, k) \in Seq(S)
  BY <1>6, TimesType
<1>12. (Times(Space, k) \o g) \o s = Times(Space, k) \o (g \o s)
  <2>1. PICK t \in Seq(S) : t = Times(Space, k)
    BY <1>11
  <2>2. s \in Seq(S) /\ g \in Seq(S)
    BY <1>3, <1>4
  <2>3. (t \o g) \o s = t \o (g \o s)
    BY <2>2, ConcatAssociative
  <2> QED
    BY <2>1, <2>3
<1>13. Space # "0"
  BY Zenon DEF Space
<1> QED
  BY <1>2, <1>9, <1>10, <1>12, <1>13 DEF Pad

(***************************************************************************)
(* print_str() prints the field of a string, which is never zero-filled.   *)
(***************************************************************************)
LEMMA PrintStrIsField ==
    ASSUME NEW s \in Seq(STRING), NEW w \in Int, NEW left \in BOOLEAN
    PROVE  PrintStr(s, w, left) = Field(<<>>, s, w, left, FALSE)
<1>1. <<>> \o s = s
  BY ConcatEmptySeq
<1> QED
  BY <1>1 DEF PrintStr, Field

-----------------------------------------------------------------------------
(***************************************************************************)
(* C's numerals and the kernel's: the same digits below ten, capitals for  *)
(* small letters from ten.                                                 *)
(***************************************************************************)
LEMMA SameDigits ==
    /\ \A m \in 0 .. 9 : CDigits[m + 1] = Glyph(m)
    /\ \A m \in 0 .. 15 : Capital(CDigits[m + 1]) = Glyph(m)
<1>1. ASSUME NEW m \in 0 .. 9
      PROVE  CDigits[m + 1] = Glyph(m) /\ Capital(CDigits[m + 1]) = CDigits[m + 1]
  <2>1. m = 0 \/ m = 1 \/ m = 2 \/ m = 3 \/ m = 4 \/ m = 5 \/ m = 6 \/ m = 7 \/ m = 8 \/ m = 9
    OBVIOUS
  <2>2. /\ CDigits[m + 1] = Glyph(m)
        /\ CDigits[m + 1] \in {"0", "1", "2", "3", "4", "5", "6", "7", "8", "9"}
    BY <2>1 DEF CDigits, Glyph, Glyphs
  <2> QED
    BY <2>2 DEF Capital
<1>2. ASSUME NEW m \in 10 .. 15 PROVE Capital(CDigits[m + 1]) = Glyph(m)
  <2>1. m = 10 \/ m = 11 \/ m = 12 \/ m = 13 \/ m = 14 \/ m = 15
    OBVIOUS
  <2>2. <<CDigits[m + 1], Glyph(m)>> \in {<<"a", "A">>, <<"b", "B">>, <<"c", "C">>,
                                          <<"d", "D">>, <<"e", "E">>, <<"f", "F">>}
    BY <2>1 DEF CDigits, Glyph, Glyphs
  <2> QED
    BY <2>2 DEF Capital
<1> QED
  BY <1>1, <1>2

(***************************************************************************)
(* So what the kernel prints in base 10 is C's numeral, and in base 16 C's *)
(* numeral in capitals.                                                    *)
(***************************************************************************)
LEMMA PrintedIsNumeral ==
    ASSUME NEW num \in Nat
    PROVE  /\ Printed(num, 10) = Numeral(num, 10)
           /\ Printed(num, 16) = Capitals(Numeral(num, 16))
<1> DEFINE Mod(b, k, i) == (num \div Power(b)[k - i]) % b
<1>1. ASSUME NEW b \in {10, 16}
      PROVE  \E k \in Nat :
                /\ Numeral(num, b) = [i \in 1 .. k |-> CDigits[Mod(b, k, i) + 1]]
                /\ Printed(num, b) = [i \in 1 .. k |-> Glyph(Mod(b, k, i))]
                /\ \A i \in 1 .. k : Mod(b, k, i) \in 0 .. b - 1
  <2>1. b \in Nat /\ b > 1 /\ b \in Nat \ {0}
    OBVIOUS
  <2> DEFINE c == CHOOSE n \in 1 .. num + 1 :
                     /\ num < Power(b)[n]
                     /\ n = 1 \/ num >= Power(b)[n - 1]
  <2>2. \E n \in 1 .. num + 1 : /\ num < Power(b)[n]
                                /\ n = 1 \/ num >= Power(b)[n - 1]
    BY <2>1, PlacesExist DEF Places
  <2>3. c \in 1 .. num + 1
    BY <2>2
  <2>4. /\ Numeral(num, b) = [i \in 1 .. c |-> CDigits[Mod(b, c, i) + 1]]
        /\ Printed(num, b) = [i \in 1 .. c |-> Glyph(Mod(b, c, i))]
    BY DEF Numeral, Printed, DigitAt
  <2> HIDE DEF c
  <2>5. ASSUME NEW i \in 1 .. c PROVE Mod(b, c, i) \in 0 .. b - 1
    <3>1. c - i \in Nat
      BY <2>3
    <3>2. PICK p \in Nat \ {0} : p = Power(b)[c - i]
      BY <2>1, <3>1, PowerRec
    <3>3. PICK q \in Nat : q = num \div p
      OBVIOUS
    <3>4. q % b \in 0 .. b - 1
      BY <2>1
    <3> QED
      BY <3>2, <3>3, <3>4
  <2>6. c \in Nat
    BY <2>3
  <2> HIDE DEF Mod
  <2> QED
    BY <2>4, <2>5, <2>6
<1> HIDE DEF Mod
<1>2. Printed(num, 10) = Numeral(num, 10)
  <2>1. PICK k \in Nat :
          /\ Numeral(num, 10) = [i \in 1 .. k |-> CDigits[Mod(10, k, i) + 1]]
          /\ Printed(num, 10) = [i \in 1 .. k |-> Glyph(Mod(10, k, i))]
          /\ \A i \in 1 .. k : Mod(10, k, i) \in 0 .. 9
    <3>1. 10 \in {10, 16} /\ 10 - 1 = 9
      OBVIOUS
    <3> QED
      BY <1>1, <3>1
  <2>2. ASSUME NEW i \in 1 .. k PROVE CDigits[Mod(10, k, i) + 1] = Glyph(Mod(10, k, i))
    BY <2>1, SameDigits
  <2> QED
    BY <2>1, <2>2
<1>3. Printed(num, 16) = Capitals(Numeral(num, 16))
  <2>1. PICK k \in Nat :
          /\ Numeral(num, 16) = [i \in 1 .. k |-> CDigits[Mod(16, k, i) + 1]]
          /\ Printed(num, 16) = [i \in 1 .. k |-> Glyph(Mod(16, k, i))]
          /\ \A i \in 1 .. k : Mod(16, k, i) \in 0 .. 15
    <3>1. 16 \in {10, 16} /\ 16 - 1 = 15
      OBVIOUS
    <3> QED
      BY <1>1, <3>1
  <2>2. ASSUME NEW i \in 1 .. k
        PROVE  Capital(CDigits[Mod(16, k, i) + 1]) = Glyph(Mod(16, k, i))
    BY <2>1, SameDigits
  <2>3. PICK s : s = Numeral(num, 16)
    OBVIOUS
  <2>4. Len(s) = k /\ \A i \in 1 .. k : s[i] = CDigits[Mod(16, k, i) + 1]
    BY <2>1, <2>3
  <2>5. Capitals(s) = [i \in 1 .. k |-> Capital(s[i])]
    BY <2>4 DEF Capitals
  <2>6. Capitals(s) = [i \in 1 .. k |-> Glyph(Mod(16, k, i))]
    BY <2>2, <2>4, <2>5
  <2> QED
    BY <2>1, <2>3, <2>6
<1> QED
  BY <1>2, <1>3

-----------------------------------------------------------------------------
(***************************************************************************)
(* The width of a directive.                                               *)
(***************************************************************************)

(***************************************************************************)
(* A digit has a value.                                                    *)
(***************************************************************************)
LEMMA DigitValueType ==
    ASSUME NEW c \in Digits \cup {"0"}
    PROVE  DigitValue(c) \in Nat /\ (c = "0" => DigitValue(c) = 0)
<1> DEFINE I == {i \in 1 .. Len(Glyphs) : Glyphs[i] = c}
<1>1. Len(Glyphs) = 16
  BY DEF Glyphs
<1>2. PICK m \in 0 .. 9 : c = Glyphs[m + 1] /\ (c = "0" => m = 0)
  <2>1. CASE c = "0"
    <3>1. Glyphs[0 + 1] = "0" /\ 0 \in 0 .. 9
      BY DEF Glyphs
    <3> QED
      BY <2>1, <3>1
  <2>2. CASE c # "0"
    <3>1. PICK m \in 1 .. 9 : c = Glyphs[m + 1]
      BY <2>2, FormatAssumption DEF Glyph
    <3>2. m \in 0 .. 9
      OBVIOUS
    <3> QED
      BY <2>2, <3>1, <3>2
  <2> QED
    BY <2>1, <2>2
<1>3. m + 1 \in I
  <2>1. m + 1 \in 1 .. 16
    OBVIOUS
  <2> QED
    BY <1>1, <1>2, <2>1
<1>4. I \in SUBSET Nat /\ \A i \in I : i >= 1
  BY <1>1
<1>5. DigitValue(c) = (IF I # {} THEN Min(I) ELSE 0) - 1
  <2>1. DigitValue(c) = SelectInSeq(Glyphs, LAMBDA g : g = c) - 1
    BY DEF DigitValue
  <2> QED
    BY <2>1 DEF SelectInSeq
<1> HIDE DEF I
<1>6. Min(I) \in I
  <2>1. \E x \in I : \A y \in I : x <= y
    BY <1>3, <1>4, NatMin
  <2> QED
    BY <2>1 DEF Min
<1>7. PICK j \in Nat : j = Min(I) /\ j >= 1
  BY <1>4, <1>6
<1>8. c = "0" => j = 1
  <2>1. \A i \in I : j <= i
    <3>1. \E x \in I : \A y \in I : x <= y
      BY <1>3, <1>4, NatMin
    <3> QED
      BY <1>7, <3>1 DEF Min
  <2> QED
    BY <1>2, <1>3, <1>7, <2>1
<1> QED
  BY <1>3, <1>5, <1>7, <1>8

(* A set of digits, with or without the 0. *)
Numeric(digits) == digits \subseteq Digits \cup {"0"}

(* What FieldWidth computes for each prefix of a directive. *)
Upto(directive, digits) ==
    CHOOSE upto :
        upto = [n \in 0 .. Len(directive) |->
                   IF n = 0 THEN 0
                   ELSE IF directive[n] \in digits
                        THEN 10 * upto[n - 1] + DigitValue(directive[n])
                        ELSE upto[n - 1]]

(***************************************************************************)
(* It is a function on the prefixes that goes on from one to the next.     *)
(***************************************************************************)
LEMMA UptoRec ==
    ASSUME NEW D, Numeric(D), NEW S, NEW d \in Seq(S)
    PROVE  /\ Upto(d, D) \in [0 .. Len(d) -> Nat]
           /\ Upto(d, D)[0] = 0
           /\ \A n \in 0 .. Len(d) - 1 :
                 Upto(d, D)[n + 1] = IF d[n + 1] \in D
                                  THEN 10 * Upto(d, D)[n] + DigitValue(d[n + 1])
                                  ELSE Upto(d, D)[n]
<1> DEFINE Step(n, v) == IF n \in 1 .. Len(d) /\ d[n] \in D
                         THEN 10 * v + DigitValue(d[n]) ELSE v
           s == [n \in Nat |-> [v \in Int |-> Step(n, v)]]
           Equation(u) ==
              u = [n \in 0 .. Len(d) |->
                      IF n = 0 THEN 0
                      ELSE IF d[n] \in D
                           THEN 10 * u[n - 1] + DigitValue(d[n])
                           ELSE u[n - 1]]
           U == Upto(d, D)
           Good == {n \in Nat : n <= Len(d) => U[n] \in Nat}
<1>1. Len(d) \in Nat
  BY LenProperties
<1>2. s \in [Nat -> [Int -> Int]] /\ \A n \in Nat, v \in Int : s[n][v] = Step(n, v)
  <2>1. ASSUME NEW n \in Nat, NEW v \in Int PROVE Step(n, v) \in Int
    <3>1. CASE n \in 1 .. Len(d) /\ d[n] \in D
      <4>1. DigitValue(d[n]) \in Nat
        BY <3>1, DigitValueType DEF Numeric
      <4> QED
        BY <3>1, <4>1
    <3>2. CASE ~(n \in 1 .. Len(d) /\ d[n] \in D)
      BY <3>2
    <3> QED
      BY <3>1, <3>2
  <2> HIDE DEF Step
  <2> QED
    BY <2>1
<1> HIDE DEF s
<1>3. PICK f \in [Nat -> Int] : f[0] = 0 /\ \A n \in Nat : f[n + 1] = s[n + 1][f[n]]
  <2>1. 0 \in Int
    OBVIOUS
  <2> QED
    BY <1>2, <2>1, Recursion, Zenon
<1>4. Equation([n \in 0 .. Len(d) |-> f[n]])
  <2>1. ASSUME NEW n \in 0 .. Len(d), n # 0
        PROVE  f[n] = IF d[n] \in D THEN 10 * f[n - 1] + DigitValue(d[n]) ELSE f[n - 1]
    <3>1. n - 1 \in Nat /\ (n - 1) + 1 = n /\ n \in 1 .. Len(d) /\ n \in Nat
      BY <1>1, <2>1
    <3>2. f[n] = s[n][f[n - 1]] /\ f[n - 1] \in Int
      BY <1>3, <3>1
    <3>3. s[n][f[n - 1]] = Step(n, f[n - 1])
      BY <1>2, <3>1, <3>2
    <3> QED
      BY <3>1, <3>2, <3>3
  <2>2. ASSUME NEW n \in 0 .. Len(d), n # 0 PROVE n - 1 \in 0 .. Len(d)
    BY <1>1, <2>2
  <2> DEFINE g == [n \in 0 .. Len(d) |-> f[n]]
  <2>3. ASSUME NEW n \in 0 .. Len(d)
        PROVE  g[n] = IF n = 0 THEN 0
                      ELSE IF d[n] \in D
                           THEN 10 * g[n - 1] + DigitValue(d[n])
                           ELSE g[n - 1]
    BY <1>3, <2>1, <2>2
  <2>4. g = [n \in 0 .. Len(d) |-> g[n]]
    OBVIOUS
  <2> HIDE DEF g
  <2>5. Equation(g)
    BY <2>3, <2>4
  <2> QED
    BY <2>5 DEF g
<1>5. Equation(U)
  <2>1. U = CHOOSE u : Equation(u)
    BY DEF Upto
  <2> HIDE DEF U, Equation
  <2> QED
    BY <1>4, <2>1
<1> HIDE DEF U
<1>6. U[0] = 0
  BY <1>1, <1>5
<1>7. ASSUME NEW n \in 0 .. Len(d) - 1
      PROVE  U[n + 1] = IF d[n + 1] \in D
                        THEN 10 * U[n] + DigitValue(d[n + 1])
                        ELSE U[n]
  <2>1. n + 1 \in 0 .. Len(d) /\ n + 1 # 0 /\ (n + 1) - 1 = n
    BY <1>1
  <2> QED
    BY <1>5, <2>1
<1>8. \A n \in Nat : n \in Good
  <2>1. 0 \in Good
    BY <1>6
  <2>2. ASSUME NEW n \in Nat, n \in Good PROVE n + 1 \in Good
    <3>1. ASSUME n + 1 <= Len(d) PROVE U[n + 1] \in Nat
      <4>1. n \in 0 .. Len(d) - 1 /\ n <= Len(d)
        BY <1>1, <3>1
      <4>2. PICK v \in Nat : v = U[n]
        BY <2>2, <4>1
      <4>3. CASE d[n + 1] \in D
        <5>1. PICK x \in Nat : x = DigitValue(d[n + 1])
          BY <4>3, DigitValueType DEF Numeric
        <5>2. U[n + 1] = 10 * v + x
          BY <1>7, <4>1, <4>2, <4>3, <5>1
        <5> QED
          BY <5>2
      <4>4. CASE d[n + 1] \notin D
        BY <1>7, <4>1, <4>2, <4>4
      <4> QED
        BY <4>3, <4>4
    <3> QED
      BY <3>1
  <2> HIDE DEF Good
  <2> QED
    BY <2>1, <2>2, Induction
<1>9. U \in [0 .. Len(d) -> Nat]
  <2>1. ASSUME NEW n \in 0 .. Len(d) PROVE U[n] \in Nat
    BY <1>1, <1>8
  <2>2. U = [n \in 0 .. Len(d) |-> U[n]]
    BY <1>5
  <2> HIDE DEF Equation
  <2> QED
    BY <2>1, <2>2
<1> QED
  BY <1>6, <1>7, <1>9 DEF U

(***************************************************************************)
(* So the width grows with each character as cprintf() computes it.        *)
(***************************************************************************)
LEMMA FieldWidthRec ==
    ASSUME NEW D, Numeric(D), NEW S, NEW d \in Seq(S), NEW c \in S
    PROVE  /\ FieldWidth(d, D) \in Nat
           /\ d = <<>> => FieldWidth(d, D) = 0
           /\ FieldWidth(Append(d, c), D) = IF c \in D
                                         THEN 10 * FieldWidth(d, D) + DigitValue(c)
                                         ELSE FieldWidth(d, D)
<1>1. PICK e : e = Append(d, c)
  OBVIOUS
<1>2. PICK l \in Nat : l = Len(d)
  BY LenProperties
<1>3. /\ e \in Seq(S) /\ Len(e) = l + 1
      /\ \A i \in 1 .. l : e[i] = d[i]
      /\ e[l + 1] = c
  BY <1>1, <1>2, AppendProperties
<1>4. PICK u, v : u = Upto(d, D) /\ v = Upto(e, D)
  OBVIOUS
<1>5. FieldWidth(d, D) = u[l] /\ FieldWidth(e, D) = v[l + 1]
  BY <1>2, <1>3, <1>4 DEF FieldWidth, Upto
<1>6. /\ u \in [0 .. l -> Nat] /\ u[0] = 0
      /\ \A n \in 0 .. l - 1 : u[n + 1] = IF d[n + 1] \in D
                                          THEN 10 * u[n] + DigitValue(d[n + 1])
                                          ELSE u[n]
  <2>1. /\ Upto(d, D) \in [0 .. Len(d) -> Nat]
        /\ Upto(d, D)[0] = 0
        /\ \A n \in 0 .. Len(d) - 1 :
              Upto(d, D)[n + 1] = IF d[n + 1] \in D
                                  THEN 10 * Upto(d, D)[n] + DigitValue(d[n + 1])
                                  ELSE Upto(d, D)[n]
    BY UptoRec
  <2> QED
    BY <1>2, <1>4, <2>1
<1>7. /\ v \in [0 .. l + 1 -> Nat] /\ v[0] = 0
      /\ \A n \in 0 .. (l + 1) - 1 : v[n + 1] = IF e[n + 1] \in D
                                                THEN 10 * v[n] + DigitValue(e[n + 1])
                                                ELSE v[n]
  <2>0. e \in Seq(S)
    BY <1>3
  <2>1. /\ Upto(e, D) \in [0 .. Len(e) -> Nat]
        /\ Upto(e, D)[0] = 0
        /\ \A n \in 0 .. Len(e) - 1 :
              Upto(e, D)[n + 1] = IF e[n + 1] \in D
                                  THEN 10 * Upto(e, D)[n] + DigitValue(e[n + 1])
                                  ELSE Upto(e, D)[n]
    BY <2>0, UptoRec
  <2> QED
    BY <1>3, <1>4, <2>1
<1> DEFINE Same == {n \in Nat : n <= l => v[n] = u[n]}
<1>8. \A n \in Nat : n \in Same
  <2>1. 0 \in Same
    BY <1>6, <1>7
  <2>2. ASSUME NEW n \in Nat, n \in Same PROVE n + 1 \in Same
    <3>1. ASSUME n + 1 <= l PROVE v[n + 1] = u[n + 1]
      <4>1. /\ n \in 0 .. l - 1 /\ n \in 0 .. (l + 1) - 1
            /\ n + 1 \in 1 .. l /\ v[n] = u[n]
        BY <2>2, <3>1
      <4>2. e[n + 1] = d[n + 1]
        BY <1>3, <4>1
      <4> QED
        BY <1>6, <1>7, <4>1, <4>2
    <3> QED
      BY <3>1
  <2> HIDE DEF Same
  <2> QED
    BY <2>1, <2>2, Induction
<1>9. v[l] = u[l]
  BY <1>8
<1>10. v[l + 1] = IF c \in D THEN 10 * v[l] + DigitValue(c) ELSE v[l]
  <2>1. l \in 0 .. (l + 1) - 1
    OBVIOUS
  <2> QED
    BY <1>3, <1>7, <2>1
<1>11. u[l] \in Nat
  BY <1>6
<1>12. d = <<>> => l = 0
  BY <1>2, EmptySeq
<1> QED
  BY <1>1, <1>5, <1>6, <1>9, <1>10, <1>11, <1>12

-----------------------------------------------------------------------------
(***************************************************************************)
(* The inductive invariant.  PrintsAsC speaks of finished directives only; *)
(* DirectiveInv says what cprintf()'s variables hold while one is read:    *)
(* they spell the directive so far and nothing of an earlier one, and no   *)
(* argument has been taken for it.  The width is C's unless a 0 has been   *)
(* read in it; the flags before it spell nothing.                          *)
(***************************************************************************)
Letters == {"-", "0", "l", "d", "u", "x", "p", "s", "c"}

FTypeInv ==
    /\ status \in {"NONE", "TRANSFER"}
    /\ lflag \in BOOLEAN /\ left_align \in BOOLEAN
    /\ width \in Nat
    /\ args \in Seq(Args)
    /\ format \in Seq(Digits \cup Letters)

DirectiveInv ==
    status = "TRANSFER" =>
        /\ before = [args |-> args, out |-> out]
        /\ args # <<>>
        /\ lflag = Contains(format, "l") /\ left_align = Contains(format, "-")
        /\ padc = Pad(Contains(format, "0"))
        /\ width = FieldWidth(format, Digits)
        /\ ~ZeroInWidth(format) => CWidth(format) = width
        /\ ~InWidth(format) => CWidth(format) = 0

FInv == FTypeInv /\ DirectiveInv /\ PrintsAsC

(***************************************************************************)
(* What can stand in a directive besides digits is not a digit.            *)
(***************************************************************************)
LEMMA DigitsApart ==
    ASSUME NEW n \in Digits
    PROVE  n \notin Letters
<1>1. PICK m \in 1 .. 9 : n = Glyphs[m + 1]
  BY FormatAssumption DEF Glyph
<1>2. m = 1 \/ m = 2 \/ m = 3 \/ m = 4 \/ m = 5 \/ m = 6 \/ m = 7 \/ m = 8 \/ m = 9
  BY <1>1
<1>3. n \in {"1", "2", "3", "4", "5", "6", "7", "8", "9"}
  BY <1>1, <1>2 DEF Glyphs
<1> QED
  BY <1>3 DEF Letters

(***************************************************************************)
(* A character more in a directive.                                        *)
(***************************************************************************)
LEMMA ContainsAppend ==
    ASSUME NEW S, NEW d \in Seq(S), NEW c \in S, NEW x
    PROVE  /\ Contains(Append(d, c), x) <=> (Contains(d, x) \/ c = x)
           /\ ~Contains(<<>>, x)
<1>0. PICK l \in Nat : l = Len(d)
  BY LenProperties
<1>1. PICK e : e = Append(d, c) /\ l = Len(d)
  BY <1>0
<1>2. /\ Len(e) = l + 1
      /\ \A i \in 1 .. l : e[i] = d[i]
      /\ e[l + 1] = c
  BY <1>1, AppendProperties
<1>3. (\E i \in 1 .. l + 1 : e[i] = x) <=> ((\E i \in 1 .. l : d[i] = x) \/ c = x)
  <2>1. \A i \in 1 .. l + 1 : i \in 1 .. l \/ i = l + 1
    OBVIOUS
  <2>2. l + 1 \in 1 .. l + 1 /\ \A i \in 1 .. l : i \in 1 .. l + 1
    OBVIOUS
  <2> QED
    BY <1>2, <2>1, <2>2
<1>4. ~Contains(<<>>, x)
  BY DEF Contains
<1> QED
  BY <1>1, <1>2, <1>3, <1>4 DEF Contains

(***************************************************************************)
(* The same for what PrintsAsC tells apart about widths.                   *)
(***************************************************************************)
LEMMA WidthAppend ==
    ASSUME NEW S, NEW d \in Seq(S), NEW c \in S
    PROVE  /\ InWidth(Append(d, c)) <=> (InWidth(d) \/ c \in Digits)
           /\ ZeroInWidth(Append(d, c)) <=> (ZeroInWidth(d) \/ (InWidth(d) /\ c = "0"))
           /\ FieldWidth(Append(d, c), Digits) = IF c \in Digits
                                                THEN 10 * FieldWidth(d, Digits) + DigitValue(c)
                                                ELSE FieldWidth(d, Digits)
           /\ CWidth(Append(d, c)) = IF c \in Digits \cup {"0"}
                                    THEN 10 * CWidth(d) + DigitValue(c)
                                    ELSE CWidth(d)
           /\ FieldWidth(d, Digits) \in Nat /\ CWidth(d) \in Nat
           /\ d = <<>> => FieldWidth(d, Digits) = 0 /\ CWidth(d) = 0
<1>0. PICK l \in Nat : l = Len(d)
  BY LenProperties
<1>1. PICK e : e = Append(d, c) /\ l = Len(d)
  BY <1>0
<1>2. /\ Len(e) = l + 1
      /\ \A i \in 1 .. l : e[i] = d[i]
      /\ e[l + 1] = c
  BY <1>1, AppendProperties
<1>3. \A i \in 1 .. l + 1 : i \in 1 .. l \/ i = l + 1
  OBVIOUS
<1>4. l + 1 \in 1 .. l + 1 /\ \A i \in 1 .. l : i \in 1 .. l + 1 /\ i < l + 1 /\ ~(l + 1 < i)
  OBVIOUS
<1>5. InWidth(e) <=> (InWidth(d) \/ c \in Digits)
  BY <1>1, <1>2, <1>3, <1>4 DEF InWidth
<1>6. ZeroInWidth(e) <=> (ZeroInWidth(d) \/ (InWidth(d) /\ c = "0"))
  <2>1. ASSUME ZeroInWidth(e) PROVE ZeroInWidth(d) \/ (InWidth(d) /\ c = "0")
    <3>1. PICK i \in 1 .. l + 1, j \in 1 .. l + 1 : i < j /\ e[i] \in Digits /\ e[j] = "0"
      BY <1>2, <2>1 DEF ZeroInWidth
    <3>2. i \in 1 .. l
      BY <3>1
    <3>3. d[i] \in Digits
      BY <1>2, <3>1, <3>2
    <3>4. CASE j = l + 1
      BY <1>1, <1>2, <3>1, <3>2, <3>3, <3>4 DEF InWidth
    <3>5. CASE j \in 1 .. l
      BY <1>1, <1>2, <3>1, <3>2, <3>3, <3>5 DEF ZeroInWidth
    <3> QED
      BY <1>3, <3>4, <3>5
  <2>2. ASSUME ZeroInWidth(d) PROVE ZeroInWidth(e)
    <3>1. PICK i \in 1 .. l, j \in 1 .. l : i < j /\ d[i] \in Digits /\ d[j] = "0"
      BY <1>1, <2>2 DEF ZeroInWidth
    <3> QED
      BY <1>2, <1>4, <3>1 DEF ZeroInWidth
  <2>3. ASSUME InWidth(d), c = "0" PROVE ZeroInWidth(e)
    <3>1. PICK i \in 1 .. l : d[i] \in Digits
      BY <1>1, <2>3 DEF InWidth
    <3> QED
      BY <1>2, <1>4, <2>3, <3>1 DEF ZeroInWidth
  <2> QED
    BY <2>1, <2>2, <2>3
<1>7. Numeric(Digits) /\ Numeric(Digits \cup {"0"})
  BY DEF Numeric
<1>8. ASSUME NEW D, Numeric(D)
      PROVE  /\ FieldWidth(d, D) \in Nat
             /\ d = <<>> => FieldWidth(d, D) = 0
             /\ FieldWidth(Append(d, c), D) = IF c \in D
                                             THEN 10 * FieldWidth(d, D) + DigitValue(c)
                                             ELSE FieldWidth(d, D)
  BY <1>8, FieldWidthRec
<1>9. PICK F : F = Digits \cup {"0"}
  OBVIOUS
<1>10. /\ FieldWidth(d, F) \in Nat
       /\ d = <<>> => FieldWidth(d, F) = 0
       /\ FieldWidth(Append(d, c), F) = IF c \in F
                                       THEN 10 * FieldWidth(d, F) + DigitValue(c)
                                       ELSE FieldWidth(d, F)
  BY <1>7, <1>8, <1>9, Zenon
<1>11. /\ FieldWidth(d, Digits) \in Nat
       /\ d = <<>> => FieldWidth(d, Digits) = 0
       /\ FieldWidth(Append(d, c), Digits) = IF c \in Digits
                                            THEN 10 * FieldWidth(d, Digits) + DigitValue(c)
                                            ELSE FieldWidth(d, Digits)
  BY <1>7, <1>8, Zenon
<1>12. \A x : CWidth(x) = FieldWidth(x, F)
  BY <1>9 DEF CWidth
<1> QED
  BY <1>1, <1>5, <1>6, <1>9, <1>10, <1>11, <1>12

(***************************************************************************)
(* There is at least one value of a word.                                  *)
(***************************************************************************)
LEMMA WordSizeType ==
    WordSize \in Nat \ {0}
<1>1. 2 \in Nat \ {0}
  OBVIOUS
<1>2. Power(2) \in [Nat -> Nat \ {0}]
  BY <1>1, PowerRec
<1> QED
  BY <1>2, FormatAssumption DEF WordSize

(***************************************************************************)
(* What va_arg makes of the caller's words is a number, one or two words   *)
(* wide.                                                                   *)
(***************************************************************************)
LEMMA VaArgType ==
    ASSUME NEW a \in Seq(Args), NEW long \in BOOLEAN, Len(a) >= Size(long)
    PROVE  VaArg(a, long) \in Nat /\ Signed(VaArg(a, long), long) \in Int
<1>1. \A x \in Args : x.num \in Nat
  <2>1. \A n \in Words : n \in Nat
    BY FormatAssumption, WordSizeType
  <2>2. ASSUME NEW A, NEW B, NEW x \in [num : Words, str : A, ptr : B]
        PROVE  x.num \in Words
    OBVIOUS
  <2>3. ASSUME NEW A, NEW B, NEW x \in [num : {0}, str : A, ptr : B]
        PROVE  x.num = 0
    OBVIOUS
  <2>4. ASSUME NEW x \in Args PROVE x.num \in Words \/ x.num = 0
    BY <2>2, <2>3, Zenon DEF Args
  <2> QED
    BY <2>1, <2>4
<1>2. PICK z \in Nat \ {0} : z = WordSize
  BY WordSizeType
<1>3. Len(a) \in Nat
  BY LenProperties
<1>4. PICK m \in Nat : m = a[1].num
  <2>1. 1 \in 1 .. Len(a)
    BY <1>3 DEF Size
  <2> QED
    BY <1>1, <2>1, ElementOfSeq
<1>5. VaArg(a, long) \in Nat
  <2>1. CASE long
    <3>1. 2 \in 1 .. Len(a)
      BY <1>3, <2>1 DEF Size
    <3>2. PICK n \in Nat : n = a[2].num
      BY <1>1, <3>1, ElementOfSeq
    <3>3. PICK k \in Nat : k = n * z
      OBVIOUS
    <3>4. VaArg(a, long) = m + k
      BY <1>2, <1>4, <2>1, <3>2, <3>3 DEF VaArg
    <3> QED
      BY <3>4
  <2>2. CASE ~long
    BY <1>4, <2>2 DEF VaArg
  <2> QED
    BY <2>1, <2>2
<1>6. PICK v \in Nat : v = VaArg(a, long)
  BY <1>5
<1>7. PICK M \in Nat : M = Modulus(long)
  <2>1. z * z \in Nat
    OBVIOUS
  <2> QED
    BY <1>2, <2>1 DEF Modulus
<1>8. Signed(v, long) \in Int
  BY <1>7 DEF Signed
<1> QED
  BY <1>5, <1>6, <1>8

(***************************************************************************)
(* What a conversion character that ends the directive leaves of it.       *)
(***************************************************************************)
LEMMA LastCharacter ==
    ASSUME FTypeInv, NEW c \in Letters \ {"-", "0", "l"},
           format' = Append(format, c)
    PROVE  /\ Last(format') = c
           /\ Contains(format', "l") = Contains(format, "l")
           /\ Contains(format', "-") = Contains(format, "-")
           /\ Contains(format', "0") = Contains(format, "0")
           /\ ZeroInWidth(format)' <=> ZeroInWidth(format)
           /\ FieldWidth(format, Digits)' = FieldWidth(format, Digits)
           /\ CWidth(format)' = CWidth(format)
           /\ format' # <<>>
<1> DEFINE S == Digits \cup Letters
<1>1. format \in Seq(S) /\ c \in S
  BY DEF FTypeInv
<1>2. c \notin Digits
  BY DigitsApart
<1> HIDE DEF S
<1>3. Len(format') = Len(format) + 1 /\ format'[Len(format) + 1] = c /\ format' # <<>>
  BY <1>1, AppendProperties
<1>4. Last(format') = c
  BY <1>3 DEF Last
<1>5. c # "l" /\ c # "-" /\ c # "0"
  OBVIOUS
<1>6. \A x : Contains(format', x) <=> (Contains(format, x) \/ c = x)
  BY <1>1, ContainsAppend
<1>7. /\ ZeroInWidth(format') <=> ZeroInWidth(format)
      /\ FieldWidth(format', Digits) = FieldWidth(format, Digits)
      /\ CWidth(format') = CWidth(format)
  BY <1>1, <1>2, <1>5, WidthAppend
<1>8. \A x : Contains(format', x) \in BOOLEAN /\ Contains(format, x) \in BOOLEAN
  BY DEF Contains
<1>9. \A x : x # c => Contains(format', x) = Contains(format, x)
  BY <1>6, <1>8
<1> QED
  BY <1>3, <1>4, <1>5, <1>7, <1>9

(***************************************************************************)
(* The reference for each kind of conversion, as a field.                  *)
(***************************************************************************)
LEMMA ReferenceNumber ==
    ASSUME NEW d, NEW a, NEW w, NEW c \in {"x", "p", "u", "d"}, Last(d) = c,
           NEW raw \in Nat, raw = VaArg(a, Contains(d, "l")),
           NEW value \in Int,
           value = IF c = "d" THEN Signed(raw, Contains(d, "l")) ELSE raw
    PROVE  Reference(d, a, w) =
               Field(IF c = "d" THEN SignOf(value) ELSE <<>>,
                     Printed(Abs(value), IF c \in {"x", "p"} THEN 16 ELSE 10),
                     w, Contains(d, "-"), Contains(d, "0"))
<1>1. c # "s" /\ c # "c"
  OBVIOUS
<1> DEFINE sign == IF c = "d" THEN SignOf(value) ELSE <<>>
           base == IF c \in {"x", "p"} THEN 16 ELSE 10
           body == Printed(Abs(value), base)
<1>2. sign = IF c = "d" /\ value < 0 THEN <<"-">> ELSE <<>>
  BY DEF SignOf
<1>3. body = IF c \in {"x", "p"} THEN Capitals(Numeral(value, 16))
             ELSE Numeral(IF value < 0 THEN -value ELSE value, 10)
  <2>1. PICK n \in Nat : n = Abs(value) /\ n = (IF value < 0 THEN -value ELSE value)
    BY DEF Abs
  <2>2. CASE c \in {"x", "p"}
    <3>1. c # "d" /\ n = value
      BY <2>1, <2>2
    <3> QED
      BY <2>1, <2>2, <3>1, PrintedIsNumeral
  <2>3. CASE c \notin {"x", "p"}
    BY <2>1, <2>3, PrintedIsNumeral
  <2> QED
    BY <2>2, <2>3
<1> HIDE DEF sign, body
<1>4. Reference(d, a, w) =
          LET text == sign \o body
              fill == w - Len(text)
          IN IF Contains(d, "-") THEN text \o Times(Space, fill)
             ELSE IF Contains(d, "0") THEN sign \o Times("0", fill) \o body
             ELSE Times(Space, fill) \o text
  BY <1>1, <1>2, <1>3 DEF Reference
<1> QED
  BY <1>4 DEF Field, sign, body

(***************************************************************************)
(* The reference of %s: the string in its field, whatever the 0 flag says. *)
(***************************************************************************)
LEMMA ReferenceString ==
    ASSUME NEW d, NEW a, NEW w, Last(d) = "s"
    PROVE  Reference(d, a, w) = Field(<<>>, a[1].str, w, Contains(d, "-"), FALSE)
BY DEF Reference, Field

(***************************************************************************)
(* The reference of %c: the character alone, as the kernel gives it no     *)
(* flag and no width.                                                      *)
(***************************************************************************)
LEMMA ReferenceChar ==
    ASSUME NEW d, NEW a, Last(d) = "c", ~Contains(d, "-"), ~Contains(d, "0")
    PROVE  Reference(d, a, 0) = <<Glyph(a[1].num)>>
<1>1. PICK g : g = Glyph(a[1].num)
  OBVIOUS
<1>2. <<>> \o <<g>> = <<g>> /\ Len(<<g>>) = 1
  OBVIOUS
<1>3. Times(Space, 0 - 1) = <<>>
  BY DEF Times
<1>4. "c" # "s" /\ "c" # "d" /\ "c" \notin {"x", "p"}
  OBVIOUS
<1>5. Reference(d, a, 0) = Times(Space, 0 - Len(<<>> \o <<g>>)) \o (<<>> \o <<g>>)
  BY <1>1, <1>4 DEF Reference
<1> QED
  BY <1>1, <1>2, <1>3, <1>5

-----------------------------------------------------------------------------
(***************************************************************************)
(* The steps of cprintf().                                                 *)
(***************************************************************************)

(***************************************************************************)
(* A conversion's bookkeeping: what is left to show of each is its text.   *)
(***************************************************************************)
LEMMA ConvertKeepsFInv ==
    ASSUME FInv, status = "TRANSFER",
           NEW c \in Letters \ {"-", "0", "l"}, NEW k, k = Size(lflag),
           NEW text, Convert(c, k, text), text = Reference(format', args, width)
    PROVE  FInv'
<1>1. /\ FTypeInv /\ before = [args |-> args, out |-> out] /\ lflag = Contains(format, "l")
      /\ width = IF ZeroInWidth(format) THEN FieldWidth(format, Digits) ELSE CWidth(format)
  BY DEF FInv, DirectiveInv
<1>2. /\ format' = Append(format, c) /\ out' = out \o text
      /\ args' = SubSeq(args, k + 1, Len(args)) /\ status' = "NONE"
      /\ UNCHANGED <<lflag, width, padc, left_align, before>>
  BY DEF Convert
<1>3. /\ Contains(format', "l") = Contains(format, "l") /\ format' # <<>>
      /\ width = IF ZeroInWidth(format') THEN FieldWidth(format', Digits) ELSE CWidth(format')
  BY <1>1, <1>2, LastCharacter
<1>4. FTypeInv'
  <2>1. args' \in Seq(Args)
    <3>1. PICK n \in Nat, j \in {1, 2} : n = Len(args) /\ j = k
      BY <1>1, LenProperties DEF FTypeInv, Size
    <3>2. \A i \in j + 1 .. n : args[i] \in Args
      BY <1>1, <3>1 DEF FTypeInv
    <3>3. SubSeq(args, j + 1, n) \in Seq(Args)
      <4>1. PICK m \in Int : m = j + 1
        OBVIOUS
      <4>2. \A i \in m .. n : args[i] \in Args
        BY <3>2, <4>1
      <4>3. SubSeq(args, m, n) \in Seq(Args)
        BY <4>2, SubSeqProperties
      <4> QED
        BY <4>1, <4>3
    <3> QED
      BY <1>2, <3>1, <3>3
  <2>2. format' \in Seq(Digits \cup Letters)
    <3> DEFINE S == Digits \cup Letters
    <3>1. format \in Seq(S) /\ c \in S
      BY <1>1 DEF FTypeInv
    <3> HIDE DEF S
    <3>2. format' \in Seq(S)
      BY <1>2, <3>1, AppendProperties
    <3> QED
      BY <3>2 DEF S
  <2> QED
    BY <1>1, <1>2, <2>1, <2>2 DEF FTypeInv
<1>5. PrintsAsC'
  <2>1. before' = before /\ before.out = out /\ before.args = args
    BY <1>1, <1>2
  <2>2. Size(Contains(format, "l"))' = k
    BY <1>1, <1>3 DEF Size
  <2> QED
    BY <1>2, <1>3, <2>1, <2>2 DEF PrintsAsC
<1>6. DirectiveInv'
  BY <1>2 DEF DirectiveInv
<1> QED
  BY <1>4, <1>5, <1>6 DEF FInv

(***************************************************************************)
(* %d, %u, %x and %p.                                                      *)
(***************************************************************************)
LEMMA NumberKeepsFInv ==
    ASSUME FInv, NEW c \in {"d", "u", "x", "p"}, ConvertNumber(c)
    PROVE  FInv'
<1>1. status = "TRANSFER" /\ Len(args) >= Size(lflag)
  BY DEF ConvertNumber, NumbersNext
<1>2. /\ FTypeInv /\ before = [args |-> args, out |-> out]
      /\ lflag = Contains(format, "l") /\ left_align = Contains(format, "-")
      /\ padc = Pad(Contains(format, "0"))
      /\ Contains(format, "0") \in BOOLEAN
  BY <1>1 DEF FInv, DirectiveInv, Contains
<1>3. PICK raw \in Nat : raw = VaArg(args, lflag) /\ Signed(raw, lflag) \in Int
  BY <1>1, <1>2, VaArgType DEF FTypeInv
<1>4. PICK value \in Int : value = IF c = "d" THEN Signed(raw, lflag) ELSE raw
  BY <1>3
<1> DEFINE text == CASE c \in {"x", "p"} -> PrintNum(raw, 16, width, padc, left_align)
                     [] c = "u" -> PrintNum(raw, 10, width, padc, left_align)
                     [] c = "d" -> PrintSignedNum(Signed(raw, lflag), 10, width, padc,
                                                  left_align)
<1>5. Convert(c, Size(lflag), text)
  BY <1>3 DEF ConvertNumber
<1>6. format' = Append(format, c) /\ before' = before
  BY <1>5 DEF Convert
<1> DEFINE sign == IF c = "d" THEN SignOf(value) ELSE <<>>
           base == IF c \in {"x", "p"} THEN 16 ELSE 10
           field == Field(sign, Printed(Abs(value), base), width, left_align,
                          Contains(format, "0"))
<1>7. Reference(format', args, width) = field
  <2>1. c \in Letters \ {"-", "0", "l"}
    BY DEF Letters
  <2>2. /\ Last(format') = c
        /\ Contains(format', "l") = lflag
        /\ Contains(format', "-") = left_align
        /\ Contains(format', "0") = Contains(format, "0")
    BY <1>2, <1>6, <2>1, LastCharacter
  <2>3. PICK d : d = format'
    OBVIOUS
  <2>4. /\ raw = VaArg(args, Contains(d, "l"))
        /\ value = IF c = "d" THEN Signed(raw, Contains(d, "l")) ELSE raw
    BY <1>3, <1>4, <2>2, <2>3
  <2> QED
    BY <2>2, <2>3, <2>4, ReferenceNumber
<1>8. text = field
  <2>1. width \in Int /\ left_align \in BOOLEAN
    BY <1>2 DEF FTypeInv
  <2>2. ASSUME NEW b \in {10, 16}
        PROVE  /\ PrintNum(raw, b, width, padc, left_align) =
                      Field(<<>>, Printed(raw, b), width, left_align, Contains(format, "0"))
               /\ PrintSignedNum(value, b, width, padc, left_align) =
                      Field(SignOf(value), Printed(Abs(value), b), width, left_align,
                            Contains(format, "0"))
    <3>1. b \in Nat /\ b > 1
      OBVIOUS
    <3> QED
      BY <1>2, <2>1, <3>1, PrintNumIsField, PrintSignedNumIsField
  <2>3. CASE c = "d"
    BY <1>4, <2>2, <2>3
  <2>4. CASE c # "d"
    <3>1. Abs(value) = raw /\ sign = <<>>
      BY <1>4, <2>4 DEF Abs
    <3> QED
      BY <2>2, <2>4, <3>1
  <2> QED
    BY <2>3, <2>4
<1>9. c \in Letters \ {"-", "0", "l"}
  BY DEF Letters
<1> HIDE DEF text, field
<1> QED
  BY <1>1, <1>5, <1>7, <1>8, <1>9, ConvertKeepsFInv

(***************************************************************************)
(* %s.                                                                     *)
(***************************************************************************)
LEMMA StringKeepsFInv ==
    ASSUME FInv, ConvertString
    PROVE  FInv'
<1>1. /\ status = "TRANSFER" /\ ~lflag /\ args[1].ptr
      /\ Convert("s", 1, PrintStr(args[1].str, width, left_align))
  BY DEF ConvertString
<1>2. /\ FTypeInv /\ before = [args |-> args, out |-> out] /\ args # <<>>
      /\ left_align = Contains(format, "-")
  BY <1>1 DEF FInv, DirectiveInv
<1>3. format' = Append(format, "s") /\ before' = before
  BY <1>1 DEF Convert
<1>4. args[1].str \in Seq(STRING)
  <2>1. args[1] \in Args
    <3>1. args \in Seq(Args) /\ Len(args) \in Nat \ {0}
      BY <1>2, EmptySeq DEF FTypeInv
    <3>2. 1 \in 1 .. Len(args)
      BY <3>1
    <3> QED
      BY <3>1, <3>2, ElementOfSeq
  <2>2. ASSUME NEW N, NEW A, NEW x \in [num : N, str : A, ptr : {FALSE}]
        PROVE  ~x.ptr
    OBVIOUS
  <2>3. ASSUME NEW N, NEW A, NEW x \in [num : N, str : A, ptr : {TRUE}]
        PROVE  x.str \in A
    OBVIOUS
  <2>4. args[1].str \in Strings
    BY <1>1, <2>1, <2>2, <2>3, Zenon DEF Args
  <2> QED
    BY <2>4, FormatAssumption
<1>5. width \in Int /\ left_align \in BOOLEAN
  BY <1>2 DEF FTypeInv
<1>6. PrintStr(args[1].str, width, left_align) =
          Field(<<>>, args[1].str, width, left_align, FALSE)
  BY <1>4, <1>5, PrintStrIsField
<1>7. "s" \in Letters \ {"-", "0", "l"} /\ Size(lflag) = 1
  BY <1>1 DEF Letters, Size
<1>8. Last(format') = "s" /\ Contains(format', "-") = left_align
  BY <1>2, <1>3, <1>7, LastCharacter
<1>9. Reference(format', args, width) = Field(<<>>, args[1].str, width, left_align, FALSE)
  <2>1. PICK d : d = format'
    OBVIOUS
  <2> QED
    BY <1>8, <2>1, ReferenceString
<1>10. PrintStr(args[1].str, width, left_align) = Reference(format', args, width)
  BY <1>6, <1>9
<1> QED
  BY <1>1, <1>7, <1>10, ConvertKeepsFInv

(***************************************************************************)
(* %c, which cprintf() prints without a field.                             *)
(***************************************************************************)
LEMMA CharKeepsFInv ==
    ASSUME FInv, ConvertChar
    PROVE  FInv'
<1>1. /\ status = "TRANSFER" /\ format = <<>>
      /\ Convert("c", 1, <<Glyph(args[1].num)>>)
  BY DEF ConvertChar
<1>2. /\ FTypeInv /\ before = [args |-> args, out |-> out] /\ lflag = Contains(format, "l")
      /\ width = FieldWidth(format, Digits)
  BY <1>1 DEF FInv, DirectiveInv
<1>3. format' = Append(format, "c") /\ before' = before
  BY <1>1 DEF Convert
<1>4. "c" \in Letters \ {"-", "0", "l"}
  BY DEF Letters
<1>5. width = 0
  <2> DEFINE S == Digits \cup Letters
  <2>1. format \in Seq(S) /\ "c" \in S
    BY <1>2, <1>4 DEF FTypeInv
  <2> HIDE DEF S
  <2> QED
    BY <1>1, <1>2, <2>1, WidthAppend
<1>6. <<Glyph(args[1].num)>> = Reference(format', args, width)
  <2>1. /\ Last(format') = "c"
        /\ Contains(format', "-") = Contains(format, "-")
        /\ Contains(format', "0") = Contains(format, "0")
    BY <1>2, <1>3, <1>4, LastCharacter
  <2>2. ~Contains(format, "-") /\ ~Contains(format, "0")
    BY <1>1 DEF Contains
  <2>3. PICK d : d = format'
    OBVIOUS
  <2> QED
    BY <1>5, <2>1, <2>2, <2>3, ReferenceChar
<1>7. Size(lflag) = 1
  <2>1. ~lflag
    BY <1>1, <1>2 DEF Contains
  <2> QED
    BY <2>1 DEF Size
<1> QED
  BY <1>1, <1>4, <1>6, <1>7, ConvertKeepsFInv

(***************************************************************************)
(* Flags, digits and l, each of which sets its own variable.               *)
(***************************************************************************)
LEMMA ReadKeepsFInv ==
    ASSUME FInv, Minus \/ Zero \/ Long \/ \E n \in Digits : Digit(n)
    PROVE  FInv'
<1> DEFINE S == Digits \cup Letters
<1>1. PICK c \in S : Read(c)
  <2>1. CASE Minus \/ Zero \/ Long
    BY <2>1 DEF Minus, Zero, Long, Letters
  <2>2. CASE \E n \in Digits : Digit(n)
    BY <2>2 DEF Digit
  <2> QED
    BY <2>1, <2>2
<1>2. /\ status = "TRANSFER" /\ status' = status /\ args' = args /\ out' = out
      /\ before' = before /\ format' = Append(format, c)
  BY <1>1 DEF Read, Minus, Zero, Long, Digit
<1>3. /\ FTypeInv /\ before = [args |-> args, out |-> out] /\ args # <<>>
      /\ lflag = Contains(format, "l") /\ left_align = Contains(format, "-")
      /\ padc = Pad(Contains(format, "0")) /\ width = FieldWidth(format, Digits)
      /\ ~ZeroInWidth(format) => CWidth(format) = width
      /\ ~InWidth(format) => CWidth(format) = 0
  BY <1>2 DEF FInv, DirectiveInv
<1>4. format \in Seq(S) /\ c \in S
  BY <1>1, <1>3 DEF FTypeInv
<1> HIDE DEF S
<1>5. format' \in Seq(S)
  BY <1>2, <1>4, AppendProperties
<1>6. \A x : /\ Contains(format', x) <=> (Contains(format, x) \/ c = x)
             /\ Contains(format', x) \in BOOLEAN /\ Contains(format, x) \in BOOLEAN
  <2>1. \A x : Contains(format', x) <=> (Contains(format, x) \/ c = x)
    BY <1>2, <1>4, ContainsAppend
  <2> QED
    BY <2>1 DEF Contains
<1>7. \A x : Contains(format', x) = IF c = x THEN TRUE ELSE Contains(format, x)
  BY <1>6
<1>8. /\ InWidth(format') <=> (InWidth(format) \/ c \in Digits)
      /\ ZeroInWidth(format') <=> (ZeroInWidth(format) \/ (InWidth(format) /\ c = "0"))
      /\ FieldWidth(format', Digits) = IF c \in Digits
                                      THEN 10 * FieldWidth(format, Digits) + DigitValue(c)
                                      ELSE FieldWidth(format, Digits)
      /\ CWidth(format') = IF c \in Digits \cup {"0"}
                          THEN 10 * CWidth(format) + DigitValue(c)
                          ELSE CWidth(format)
      /\ CWidth(format) \in Nat
  BY <1>2, <1>4, WidthAppend
<1>9. /\ Contains(format', "l") = IF c = "l" THEN TRUE ELSE Contains(format, "l")
      /\ Contains(format', "-") = IF c = "-" THEN TRUE ELSE Contains(format, "-")
      /\ Contains(format', "0") = IF c = "0" THEN TRUE ELSE Contains(format, "0")
  BY <1>7
<1>10. Append(format, c)[Len(format) + 1] = c /\ Len(format) \in Nat
  BY <1>4, AppendProperties, LenProperties
<1>11. ASSUME NEW e \in S, Read(e) PROVE c = e
  <2>1. Append(format, e)[Len(format) + 1] = e
    BY <1>4, <1>11, AppendProperties
  <2> QED
    BY <1>2, <1>10, <1>11, <2>1 DEF Read
<1>12. \A e \in Letters : e \in S /\ e \notin Digits
  BY DigitsApart DEF S
<1>13. CASE Minus
  <2>1. c = "-" /\ c \notin Digits
    BY <1>11, <1>12, <1>13 DEF Minus, Letters
  <2>2. lflag' = lflag /\ left_align' = TRUE /\ padc' = padc /\ width' = width
    BY <1>13 DEF Minus
  <2>3. FTypeInv'
    BY <1>2, <1>3, <1>5, <2>2 DEF FTypeInv, S
  <2>4. DirectiveInv'
    BY <1>2, <1>3, <1>8, <1>9, <2>1, <2>2 DEF DirectiveInv
  <2> QED
    BY <1>2, <2>3, <2>4 DEF FInv, PrintsAsC
<1>14. CASE Zero
  <2>1. c = "0" /\ c \notin Digits
    BY <1>11, <1>12, <1>14 DEF Zero, Letters
  <2>2. lflag' = lflag /\ left_align' = left_align /\ padc' = "0" /\ width' = width
    BY <1>14 DEF Zero
  <2>3. FTypeInv'
    BY <1>2, <1>3, <1>5, <2>2 DEF FTypeInv, S
  <2>4. /\ ~ZeroInWidth(format') => CWidth(format') = width'
        /\ ~InWidth(format') => CWidth(format') = 0
        /\ width' = FieldWidth(format', Digits)
    <3>1. PICK v \in Nat : v = CWidth(format)
      BY <1>8
    <3>2. c \in Digits \cup {"0"} /\ DigitValue(c) = 0
      BY <2>1, DigitValueType
    <3>3. CWidth(format') = 10 * v + 0
      BY <1>8, <3>1, <3>2
    <3> QED
      BY <1>3, <1>8, <2>1, <2>2, <3>1, <3>3
  <2>5. DirectiveInv'
    BY <1>2, <1>3, <1>9, <2>1, <2>2, <2>4 DEF DirectiveInv, Pad
  <2> QED
    BY <1>2, <2>3, <2>5 DEF FInv, PrintsAsC
<1>15. CASE Long
  <2>1. c = "l" /\ c \notin Digits
    BY <1>11, <1>12, <1>15 DEF Long, Letters
  <2>2. lflag' = TRUE /\ left_align' = left_align /\ padc' = padc /\ width' = width
    BY <1>15 DEF Long
  <2>3. FTypeInv'
    BY <1>2, <1>3, <1>5, <2>2 DEF FTypeInv, S
  <2>4. DirectiveInv'
    BY <1>2, <1>3, <1>8, <1>9, <2>1, <2>2 DEF DirectiveInv
  <2> QED
    BY <1>2, <2>3, <2>4 DEF FInv, PrintsAsC
<1>16. CASE \E n \in Digits : Digit(n)
  <2>1. PICK n \in Digits : Digit(n)
    BY <1>16
  <2>2. Read(n) /\ n \in S
    BY <2>1 DEF Digit, S
  <2>3. c = n /\ c \notin Letters
    BY <1>11, <2>1, <2>2, DigitsApart
  <2>4. c # "l" /\ c # "-" /\ c # "0"
    BY <2>3 DEF Letters
  <2>5. /\ lflag' = lflag /\ left_align' = left_align /\ padc' = padc
        /\ width' = width * 10 + DigitValue(c)
    BY <2>1, <2>3 DEF Digit
  <2>6. PICK v \in Nat, x \in Nat : v = width /\ x = DigitValue(c)
    BY <1>3, <2>1, <2>3, DigitValueType DEF FTypeInv
  <2>7. width' = 10 * v + x
    BY <2>5, <2>6
  <2>8. FTypeInv'
    <3>1. width' \in Nat
      BY <2>7
    <3> QED
      BY <1>2, <1>3, <1>5, <2>5, <3>1 DEF FTypeInv, S
  <2>9. DirectiveInv'
    <3>1. /\ width' = FieldWidth(format', Digits)
          /\ ~ZeroInWidth(format') => CWidth(format') = width'
          /\ InWidth(format')
      BY <1>3, <1>8, <2>1, <2>3, <2>4, <2>6, <2>7
    <3> QED
      BY <1>2, <1>3, <1>9, <2>4, <2>5, <3>1 DEF DirectiveInv
  <2> QED
    BY <1>2, <2>8, <2>9 DEF FInv, PrintsAsC
<1> QED
  BY <1>13, <1>14, <1>15, <1>16

(***************************************************************************)
(* A new directive starts with the flags cleared, whatever the one before  *)
(* it left.                                                                *)
(***************************************************************************)
LEMMA ResetKeepsFInv ==
    ASSUME FInv, Percent \/ Plain
    PROVE  FInv'
<1>1. FTypeInv
  BY DEF FInv
<1>2. /\ padc' = Space /\ lflag' = FALSE /\ width' = 0 /\ left_align' = FALSE
      /\ format' = <<>> /\ args' = args
      /\ status' \in {"NONE", "TRANSFER"}
  BY <1>1 DEF Percent, Plain, FTypeInv
<1>3. <<>> \in Seq(Digits \cup Letters)
  BY EmptySeq
<1>4. FTypeInv'
  BY <1>1, <1>2, <1>3 DEF FTypeInv
<1>5. PrintsAsC'
  BY <1>2 DEF PrintsAsC
<1>6. DirectiveInv'
  <2>1. CASE Percent
    <3>1. /\ before' = [args |-> args, out |-> out] /\ args # <<>> /\ out' = out
      BY <2>1 DEF Percent
    <3>2. \A x : Contains(<<>>, x) = FALSE
      BY DEF Contains
    <3>3. Contains(format', "l") = FALSE /\ Contains(format', "-") = FALSE /\ Contains(format', "0") = FALSE
      BY <1>2, <3>2
    <3>4. FieldWidth(format', Digits) = 0 /\ CWidth(format') = 0
      <4> DEFINE S == {"l"}
      <4>1. "l" \in S
        OBVIOUS
      <4>2. <<>> \in Seq(S)
        BY EmptySeq
      <4> HIDE DEF S
      <4>3. FieldWidth(<<>>, Digits) = 0 /\ CWidth(<<>>) = 0
        BY <4>1, <4>2, WidthAppend
      <4> QED
        BY <1>2, <4>3
    <3> QED
      BY <1>2, <3>1, <3>3, <3>4 DEF DirectiveInv, Pad
  <2>2. CASE Plain
    <3>1. status' = "NONE"
      BY <2>2 DEF Plain
    <3> QED
      BY <3>1 DEF DirectiveInv
  <2> QED
    BY <2>1, <2>2
<1> QED
  BY <1>4, <1>5, <1>6 DEF FInv

(***************************************************************************)
(* Every directive prints what the C library prints for it, hexadecimal    *)
(* digits as capitals, and takes its own arguments; with zeros in its      *)
(* width it prints what C prints when they are taken for the flag.         *)
(***************************************************************************)
THEOREM AlwaysPrintsAsC ==
    Spec => []PrintsAsC
<1>1. Init => FInv
  <2> SUFFICES ASSUME Init PROVE FInv
    OBVIOUS
  <2>1. args \in Seq(Args)
    BY FormatAssumption DEF Init
  <2>2. <<>> \in Seq(Digits \cup Letters)
    BY EmptySeq
  <2> QED
    BY <2>1, <2>2 DEF Init, FInv, FTypeInv, DirectiveInv, PrintsAsC
<1>2. FInv /\ [Next]_vars => FInv'
  <2> SUFFICES ASSUME FInv, [Next]_vars PROVE FInv'
    OBVIOUS
  <2>1. CASE Percent \/ Plain
    BY <2>1, ResetKeepsFInv
  <2>2. CASE Minus \/ Zero \/ Long \/ \E n \in Digits : Digit(n)
    BY <2>2, ReadKeepsFInv
  <2>3. CASE \E c \in {"d", "u", "x", "p"} : ConvertNumber(c)
    BY <2>3, NumberKeepsFInv
  <2>4. CASE ConvertString
    BY <2>4, StringKeepsFInv
  <2>5. CASE ConvertChar
    BY <2>5, CharKeepsFInv
  <2>6. CASE UNCHANGED vars
    BY <2>6 DEF vars, FInv, FTypeInv, DirectiveInv, PrintsAsC
  <2> QED
    BY <2>1, <2>2, <2>3, <2>4, <2>5, <2>6 DEF Next
<1>3. FInv => PrintsAsC
  BY DEF FInv
<1> QED
  BY <1>1, <1>2, <1>3, PTL DEF Spec
=============================================================================
