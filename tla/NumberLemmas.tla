---------------------------- MODULE NumberLemmas ----------------------------
(***************************************************************************)
(* Quotient and remainder with a divisor that is a constant of a model (a  *)
(* number of beats, the length of a minute, the size of a memory), and     *)
(* induction over the natural numbers in a form that the provers can use:  *)
(* about a set of numbers instead of a predicate.                          *)
(***************************************************************************)
EXTENDS Integers, WellFoundedInduction, TLAPS

(* The quotient and the remainder are a decomposition ... *)
LEMMA DivMod ==
  ASSUME NEW a \in Int, NEW b \in Nat \ {0}
  PROVE  a \div b \in Int /\ a % b \in 0..b-1 /\ a = b * (a \div b) + (a % b)
OBVIOUS

(* A multiple of the divisor is at least as large. *)
LEMMA TimesPositive ==
  ASSUME NEW a \in Int, NEW b \in Nat \ {0}, a >= 1 PROVE a * b >= b
OBVIOUS

(* ... and the only one with a small remainder. *)
LEMMA DivUnique ==
  ASSUME NEW a \in Int, NEW b \in Nat \ {0}, NEW q \in Int, NEW rem \in 0..b-1, a = q * b + rem
  PROVE  a \div b = q /\ a % b = rem
<1> DEFINE d == a \div b
           m == a % b
<1>1. d \in Int /\ m \in 0..b-1 /\ a = b * d + m
  BY DivMod
<1> HIDE DEF d, m
<1>2. (q - d) * b = m - rem /\ (d - q) * b = rem - m
  <2>1. (q - d) * b = q * b - b * d /\ (d - q) * b = b * d - q * b /\ q * b \in Int /\ b * d \in Int
    BY <1>1
  <2>2. q * b + rem = b * d + m
    BY <1>1
  <2> QED BY <1>1, <2>1, <2>2
<1>3. ~(q - d >= 1) /\ ~(d - q >= 1)
  BY <1>1, <1>2, TimesPositive
<1>4. d = q
  BY <1>1, <1>3
<1>5. m = rem
  <2>1. (q - d) * b = 0
    BY <1>1, <1>4
  <2> QED BY <1>1, <1>2, <2>1
<1> QED BY <1>4, <1>5 DEF d, m

(* Dividing by a product is dividing by its factors in turn. *)
LEMMA DivTwice ==
  ASSUME NEW t \in Int, NEW s \in Nat \ {0}, NEW m \in Nat \ {0}
  PROVE  t \div (m * s) = (t \div s) \div m
<1> DEFINE q == t \div s
           rem == t % s
           p == q \div m
           k == q % m
<1>1. q \in Int /\ rem \in 0..s-1 /\ t = s * q + rem
  BY DivMod
<1> HIDE DEF q, rem
<1>2. p \in Int /\ k \in 0..m-1 /\ q = m * p + k
  BY <1>1, DivMod
<1> HIDE DEF p, k
<1>3. t = p * (m * s) + (k * s + rem)
  BY <1>1, <1>2
<1>4. k * s + rem \in 0..(m*s)-1
  <2>1. (m - k) * s >= s
    BY <1>2, TimesPositive
  <2>2. (m - k) * s = m * s - k * s /\ k * s \in Nat
    BY <1>2
  <2> QED BY <1>1, <2>1, <2>2
<1>5. m * s \in Nat \ {0}
  OBVIOUS
<1> QED BY <1>2, <1>3, <1>4, <1>5, DivUnique DEF p, q

(* Numbers less than the divisor apart have different remainders. *)
LEMMA Apart ==
  ASSUME NEW a \in Int, NEW c \in Int, NEW b \in Nat \ {0}, a < c, c < a + b
  PROVE  a % b # c % b
<1> DEFINE p == a \div b
           q == c \div b
           m == a % b
<1>1. p \in Int /\ m \in Int /\ a = b * p + m
  BY DivMod
<1>2. q \in Int /\ c % b \in Int /\ c = b * q + (c % b)
  BY DivMod
<1> HIDE DEF p, q, m
<1>3. ASSUME c % b = m PROVE FALSE
  <2>1. (q - p) * b = c - a
    <3>1. (q - p) * b = b * q - b * p /\ b * q \in Int /\ b * p \in Int
      BY <1>1, <1>2
    <3> QED BY <1>1, <1>2, <1>3, <3>1
  <2>2. ~(q - p >= 1)
    BY <1>1, <1>2, <2>1, TimesPositive
  <2>3. (p - q) * b = a - c
    <3>1. (p - q) * b = b * p - b * q /\ b * q \in Int /\ b * p \in Int
      BY <1>1, <1>2
    <3> QED BY <1>1, <1>2, <1>3, <3>1
  <2>4. ~(p - q >= 1)
    BY <1>1, <1>2, <2>3, TimesPositive
  <2>5. q - p = 0
    BY <1>1, <1>2, <2>2, <2>4
  <2>6. (q - p) * b = 0
    BY <2>5
  <2> QED BY <2>1, <2>6
<1> QED BY <1>3 DEF m

----------------------------------------------------------------------------
(* A set of natural numbers has a least element ... *)
LEMMA Least == ASSUME NEW T, T \subseteq Nat, T # {} PROVE \E x \in T : \A y \in T : x <= y
<1>1. \E x \in T : \A y \in T : ~(<<y, x>> \in OpToRel(<, Nat))
  BY WFMin, NatLessThanWellFounded, Zenon
<1>2. \A x, y \in Nat : y < x => <<y, x>> \in OpToRel(<, Nat)
  BY Zenon DEF OpToRel
<1> HIDE DEF OpToRel
<1>3. PICK x \in T : \A y \in T : ~(<<y, x>> \in OpToRel(<, Nat))
  BY <1>1, Zenon
<1>4. \A y \in T : ~(y < x)
  BY <1>2, <1>3, Zenon
<1>5. \A y \in T : x <= y
  BY <1>4
<1> QED BY <1>5

(* ... which is induction, for a predicate given as a set. *)
LEMMA Inductive ==
  ASSUME NEW T, T \subseteq Nat, 0 \in T, \A n \in T : n + 1 \in T
  PROVE  T = Nat
<1>1. ASSUME NEW m \in Nat, m \notin T PROVE FALSE
  <2> DEFINE U == Nat \ T
  <2>1. U \subseteq Nat /\ U # {}
    BY <1>1
  <2>2. PICK x \in U : \A y \in U : x <= y
    <3> HIDE DEF U
    <3> QED BY <2>1, Least, Zenon
  <2>3. x \in Nat /\ x # 0
    OBVIOUS
  <2>4. x - 1 \in Nat /\ x - 1 \notin U
    BY <2>2, <2>3
  <2>5. x - 1 \in T /\ (x - 1) + 1 = x
    BY <2>4
  <2> QED BY <2>5
<1> QED BY <1>1

(* Division keeps the order. *)
LEMMA DivMonotone ==
  ASSUME NEW a \in Int, NEW c \in Int, NEW b \in Nat \ {0}, a <= c
  PROVE  a \div b <= c \div b
<1> DEFINE p == a \div b
           q == c \div b
           m == a % b
           k == c % b
<1>1. p \in Int /\ m \in 0..b-1 /\ a = b * p + m
  BY DivMod
<1>2. q \in Int /\ k \in 0..b-1 /\ c = b * q + k
  BY DivMod
<1> HIDE DEF p, q, m, k
<1>3. ASSUME p - q >= 1 PROVE FALSE
  <2>1. (p - q) * b >= b
    BY <1>1, <1>2, <1>3, TimesPositive
  <2>2. (p - q) * b = b * p - b * q /\ b * q \in Int /\ b * p \in Int
    BY <1>1, <1>2
  <2> QED BY <1>1, <1>2, <2>1, <2>2
<1>4. p <= q
  BY <1>1, <1>2, <1>3
<1> QED BY <1>4 DEF p, q
============================================================================
