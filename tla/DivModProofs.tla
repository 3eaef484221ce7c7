----------------------------- MODULE DivModProofs -----------------------------
(* Division and remainder, for the modules whose proofs take words apart.      *)
EXTENDS Integers, TLAPS

-----------------------------------------------------------------------------
\* Products preserve the order of their factors.
LEMMA MulMono ==
  ASSUME NEW d \in Nat, NEW a \in Int, NEW b \in Int, a <= b
  PROVE  d * a <= d * b
OBVIOUS

\* What \div and % are.
LEMMA DivMod ==
  ASSUME NEW n \in Int, NEW d \in Nat \ {0}
  PROVE  /\ n \div d \in Int /\ n % d \in Nat
         /\ n \in Nat => n \div d \in Nat
         /\ n % d < d
         /\ n = d * (n \div d) + (n % d)
OBVIOUS

\* No other quotient and remainder are.
LEMMA DivUnique ==
  ASSUME NEW n \in Int, NEW d \in Nat \ {0}, NEW q \in Int, NEW r \in Nat,
         r < d, n = d * q + r
  PROVE  n \div d = q /\ n % d = r
<1> DEFINE p == n \div d
           s == n % d
<1>1. /\ p \in Int /\ s \in Nat /\ s < d /\ n = d * p + s
  BY DivMod
<1>2. ~ p + 1 <= q
  <2>1. SUFFICES ASSUME p + 1 <= q PROVE FALSE
    OBVIOUS
  <2>2. d * (p + 1) <= d * q
    BY <1>1, <2>1, MulMono
  <2>3. d * (p + 1) = d * p + d
    BY <1>1
  <2> QED
    BY <1>1, <2>2, <2>3
<1>3. ~ q + 1 <= p
  <2>1. SUFFICES ASSUME q + 1 <= p PROVE FALSE
    OBVIOUS
  <2>2. d * (q + 1) <= d * p
    BY <1>1, <2>1, MulMono
  <2>3. d * (q + 1) = d * q + d
    BY <1>1
  <2> QED
    BY <1>1, <2>2, <2>3
<1>4. p = q
  BY <1>1, <1>2, <1>3
<1> QED
  BY <1>1, <1>4

\* Division by a product is division by its factors in turn.
LEMMA DivDiv ==
  ASSUME NEW n \in Int, NEW a \in Nat \ {0}, NEW b \in Nat \ {0}
  PROVE  n \div (a * b) = (n \div a) \div b
<1> DEFINE q == n \div a
           r == n % a
           s == q \div b
           t == q % b
<1>1. /\ q \in Int /\ r \in Nat /\ r < a /\ n = a * q + r
  BY DivMod
<1>2. /\ s \in Int /\ t \in Nat /\ t + 1 <= b /\ q = b * s + t
  BY <1>1, DivMod
<1> HIDE DEF q, r, s, t
<1>3. n = (a * b) * s + (a * t + r)
  <2>1. a * (b * s + t) = (a * b) * s + a * t
    BY <1>2
  <2> QED
    BY <1>1, <1>2, <2>1
<1>4. a * (t + 1) <= a * b
  BY <1>2, MulMono
<1>5. a * (t + 1) = a * t + a
  BY <1>2
<1>6. /\ a * t + r \in Nat /\ a * t + r < a * b /\ a * b \in Nat \ {0}
  BY <1>1, <1>2, <1>4, <1>5
<1>7. n \div (a * b) = s
  BY <1>2, <1>3, <1>6, DivUnique
<1> QED
  BY <1>7 DEF s, q

\* The remainder of a product keeps what its factors need.
LEMMA ModOfProduct ==
  ASSUME NEW n \in Int, NEW a \in Nat \ {0}, NEW b \in Nat \ {0}
  PROVE  /\ (n % (a * b)) % a = n % a
         /\ (n % (a * b)) \div a = (n \div a) % b
<1> DEFINE k == n \div (a * b)
           m == n % (a * b)
           u == m \div a
           v == m % a
<1>0. a * b \in Nat \ {0}
  OBVIOUS
<1>1. /\ k \in Int /\ m \in Nat /\ m < a * b /\ n = (a * b) * k + m
  BY <1>0, DivMod
<1>2. /\ u \in Int /\ v \in Nat /\ v < a /\ m = a * u + v
  BY <1>1, DivMod
<1> HIDE DEF k, m, u, v
<1>3. n = a * (b * k + u) + v /\ b * k + u \in Int
  BY <1>1, <1>2
<1>4. n \div a = b * k + u /\ n % a = v
  BY <1>2, <1>3, DivUnique
<1>5. u < b
  <2>1. SUFFICES ASSUME b <= u PROVE FALSE
    BY <1>2
  <2>2. a * b <= a * u
    BY <1>2, <2>1, MulMono
  <2> QED
    BY <1>1, <1>2, <2>2
<1>6. (b * k + u) % b = u
  BY <1>1, <1>2, <1>3, <1>5, DivUnique
<1> QED
  BY <1>4, <1>6 DEF u, v, m

\* A sum may be reduced before or after its first summand.
LEMMA ModAdd ==
  ASSUME NEW x \in Int, NEW c \in Int, NEW w \in Nat \ {0}
  PROVE  ((x % w) + c) % w = (x + c) % w
<1> DEFINE q == x \div w
           r == x % w
           s == (r + c) \div w
           t == (r + c) % w
<1>1. /\ q \in Int /\ r \in Nat /\ x = w * q + r
  BY DivMod
<1>2. /\ s \in Int /\ t \in Nat /\ t < w /\ r + c = w * s + t
  BY <1>1, DivMod
<1> HIDE DEF q, r, s, t
<1>3. x + c = w * (q + s) + t /\ q + s \in Int /\ x + c \in Int
  BY <1>1, <1>2
<1>4. (x + c) % w = t
  <2> DEFINE p == q + s
             y == x + c
  <2>1. /\ p \in Int /\ y \in Int /\ y = w * p + t
    BY <1>3
  <2> HIDE DEF p, y
  <2>2. y % w = t
    BY <1>2, <2>1, DivUnique
  <2> QED
    BY <2>2 DEF y
<1> QED
  BY <1>4 DEF t, r
=============================================================================
