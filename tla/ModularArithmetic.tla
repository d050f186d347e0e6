------------------------- MODULE ModularArithmetic --------------------------
(***************************************************************************)
(* Facts about % used in the proofs: slots are sequence numbers modulo the *)
(* window, and sequence numbers are positions modulo SEQ_MOD.              *)
(***************************************************************************)
EXTENDS Integers, TLAPS

\* A number below the modulus is its own remainder.
LEMMA ModSmall ==
  ASSUME NEW W \in Nat \ {0}, NEW x \in 0 .. W - 1
  PROVE  x % W = x
OBVIOUS

\* A remainder is below the modulus.
LEMMA ModRange ==
  ASSUME NEW W \in Nat \ {0}, NEW x \in Int
  PROVE  x % W \in 0 .. W - 1
OBVIOUS

\* A remainder is at most the number.
LEMMA ModAtMost ==
  ASSUME NEW W \in Nat \ {0}, NEW x \in Nat
  PROVE  x % W <= x
OBVIOUS

\* Euclidean division.
LEMMA ModQuotient ==
  ASSUME NEW W \in Nat \ {0}, NEW x \in Int
  PROVE  /\ x \div W \in Int
         /\ x = W * (x \div W) + (x % W)
OBVIOUS

\* Quotient and remainder are unique.
LEMMA ModUnique ==
  ASSUME NEW W \in Nat \ {0}, NEW q1 \in Int, NEW q2 \in Int,
         NEW r1 \in 0 .. W - 1, NEW r2 \in 0 .. W - 1,
         W * q1 + r1 = W * q2 + r2
  PROVE  r1 = r2 /\ q1 = q2
OBVIOUS

\* Numbers that differ by a multiple of the modulus have the same remainder.
LEMMA ModMultiple ==
  ASSUME NEW W \in Nat \ {0}, NEW x \in Int, NEW y \in Int, NEW q \in Int,
         x = W * q + y
  PROVE  x % W = y % W
<1>1. /\ x \div W \in Int /\ x = W * (x \div W) + (x % W)
      /\ y \div W \in Int /\ y = W * (y \div W) + (y % W)
  BY ModQuotient
<1>2. x % W \in 0 .. W - 1 /\ y % W \in 0 .. W - 1
  BY ModRange
<1> DEFINE qx == x \div W
           qy == y \div W
           rx == x % W
           ry == y % W
<1> HIDE DEF qx, qy, rx, ry
<1>3. qx \in Int /\ qy \in Int /\ rx \in 0 .. W - 1 /\ ry \in 0 .. W - 1
  BY <1>1, <1>2 DEF qx, qy, rx, ry
<1>4. x = W * qx + rx /\ y = W * qy + ry
  BY <1>1 DEF qx, qy, rx, ry
<1>5. W * qx + rx = W * (q + qy) + ry
  BY <1>3, <1>4
<1>6. q + qy \in Int
  BY <1>3
<1>7. rx = ry
  BY <1>3, <1>5, <1>6, ModUnique
<1> QED
  BY <1>7 DEF rx, ry

\* A number less than a modulus away from a remainder.
LEMMA ModAcross ==
  ASSUME NEW W \in Nat \ {0}, NEW x \in Int, NEW y \in 0 .. W - 1,
         x = y \/ x + W = y \/ x - W = y
  PROVE  x % W = y
<1>1. y \in Int /\ y % W = y
  BY ModSmall
<1>2. CASE x = y
  BY <1>1, <1>2
<1>3. CASE x + W = y
  <2>1. x = W * (-1) + y
    BY <1>1, <1>3
  <2> QED
    BY <1>1, <2>1, ModMultiple
<1>4. CASE x - W = y
  <2>1. x = W * 1 + y
    BY <1>1, <1>4
  <2> QED
    BY <1>1, <2>1, ModMultiple
<1> QED
  BY <1>2, <1>3, <1>4

\* A remainder may be taken before an addition as well as after.
LEMMA ModAdd ==
  ASSUME NEW W \in Nat \ {0}, NEW a \in Int, NEW b \in Int
  PROVE  ((a % W) + b) % W = (a + b) % W
<1> DEFINE q == a \div W
           r == a % W
<1> HIDE DEF q, r
<1>1. q \in Int /\ a = W * q + r /\ r \in 0 .. W - 1
  BY ModQuotient, ModRange DEF q, r
<1>2. /\ a + b = W * q + (r + b)
      /\ a + b \in Int /\ r + b \in Int
  BY <1>1
<1>3. (a + b) % W = (r + b) % W
  BY <1>1, <1>2, ModMultiple
<1> QED
  BY <1>3 DEF r

\* Within one modulus of each other, two numbers with the same remainder are
\* the same.
LEMMA ModClose ==
  ASSUME NEW W \in Nat \ {0}, NEW a \in Int, NEW b \in Int,
         a % W = b % W, b <= a, a < b + W
  PROVE  a = b
<1> DEFINE qa == a \div W
           qb == b \div W
           ra == a % W
           rb == b % W
<1> HIDE DEF qa, qb, ra, rb
<1>1. /\ qa \in Int /\ a = W * qa + ra /\ ra \in 0 .. W - 1
      /\ qb \in Int /\ b = W * qb + rb /\ rb \in 0 .. W - 1
  BY ModQuotient, ModRange DEF qa, qb, ra, rb
<1>2. ra = rb
  BY DEF ra, rb
<1>3. W * (qa - qb) = a - b
  BY <1>1, <1>2
<1>4. a - b \in 0 .. W - 1 /\ qa - qb \in Int
  BY <1>1
<1>5. W * (qa - qb) + 0 = W * 0 + (a - b)
  BY <1>3, <1>4
<1>6. 0 = a - b
  BY <1>4, <1>5, ModUnique
<1> QED
  BY <1>6
=============================================================================
