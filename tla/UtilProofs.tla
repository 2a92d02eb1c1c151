----------------------------- MODULE UtilProofs -----------------------------
(***************************************************************************)
(* Proofs about the helpers of util.h: gcd and the angles for all          *)
(* integers, every width of an int and every grid of angles; the arrays    *)
(* for every caller and all sizes.                                         *)
(***************************************************************************)
EXTENDS NumericUtil, Arrays, SequenceTheorems, WellFoundedInduction, TLAPS

USE DEF list, grid

-----------------------------------------------------------------------------
(* Division.                                                               *)
LEMMA Euclid ==
  ASSUME NEW n \in Int, NEW e \in Nat \ {0}
  PROVE  /\ n \div e \in Int /\ n % e \in 0..(e - 1)
         /\ n = e * (n \div e) + (n % e)
  OBVIOUS

LEMMA MultipleGrows ==
  ASSUME NEW q \in Int, NEW d \in Int, d # 0
  PROVE  q \in -Abs(q * d)..Abs(q * d)
<1>1. q * d \in Int
  OBVIOUS
<1>2. CASE q = 0
  BY <1>2 DEF Abs
<1>3. CASE q > 0 /\ d > 0
  <2>1. q * d >= q
    BY <1>3
  <2>. QED
    BY <1>1, <1>3, <2>1 DEF Abs
<1>4. CASE q > 0 /\ d < 0
  <2>1. q * d <= -q
    BY <1>4
  <2>. QED
    BY <1>1, <1>4, <2>1 DEF Abs
<1>5. CASE q < 0 /\ d > 0
  <2>1. q * d <= q
    BY <1>5
  <2>. QED
    BY <1>1, <1>5, <2>1 DEF Abs
<1>6. CASE q < 0 /\ d < 0
  <2>1. q * d >= -q
    BY <1>6
  <2>. QED
    BY <1>1, <1>6, <2>1 DEF Abs
<1>. QED
  BY <1>2, <1>3, <1>4, <1>5, <1>6

LEMMA SmallMultiple ==
  ASSUME NEW q \in Int, NEW d \in Int, d # 0, Abs(q * d) < Abs(d)
  PROVE  q = 0
<1>1. SUFFICES ASSUME q # 0 PROVE FALSE
  OBVIOUS
<1>2. q * d \in Int
  OBVIOUS
<1>3. d * q = q * d
  OBVIOUS
<1>4. d \in -Abs(d * q)..Abs(d * q)
  BY <1>1, MultipleGrows
<1>. QED
  BY <1>2, <1>3, <1>4 DEF Abs

LEMMA DividesIff ==
  ASSUME NEW d \in Int, NEW n \in Int
  PROVE  Divides(d, n) <=> \E q \in Int : q * d = n
<1>1. ASSUME Divides(d, n) PROVE \E q \in Int : q * d = n
  <2>1. PICK q \in -Abs(n)..Abs(n) : q * d = n
    BY <1>1 DEF Divides
  <2>2. q \in Int
    BY DEF Abs
  <2>. QED
    BY <2>1, <2>2
<1>2. ASSUME NEW q \in Int, q * d = n PROVE Divides(d, n)
  <2>1. CASE d = 0
    <3>1. n = 0 /\ 0 * d = n /\ 0 \in -Abs(n)..Abs(n)
      BY <1>2, <2>1 DEF Abs
    <3>. QED
      BY <3>1 DEF Divides
  <2>2. CASE d # 0
    <3>1. q \in -Abs(n)..Abs(n)
      BY <1>2, <2>2, MultipleGrows
    <3>. QED
      BY <1>2, <3>1 DEF Divides
  <2>. QED
    BY <2>1, <2>2
<1>. QED
  BY <1>1, <1>2

(* C's division rounds towards 0, so the remainder has the sign of the     *)
(* dividend and is less than the divisor.                                  *)
LEMMA QuotRem ==
  ASSUME NEW n \in Int, NEW d \in Int, d # 0
  PROVE  /\ Quot(n, d) \in Int /\ Rem(n, d) \in Int
         /\ n = d * Quot(n, d) + Rem(n, d)
         /\ Abs(Rem(n, d)) < Abs(d)
         /\ n >= 0 => Rem(n, d) >= 0
         /\ n <= 0 => Rem(n, d) <= 0
<1> DEFINE m == Abs(n)
           e == Abs(d)
           q == m \div e
           r == m % e
<1>1. m \in Nat /\ e \in Nat \ {0}
  BY DEF Abs
<1>2. q \in Int /\ r \in 0..(e - 1) /\ m = e * q + r
  <2>1. m \in Int
    BY <1>1
  <2>. QED
    BY <1>1, <2>1, Euclid, Zenon
<1>z. m = 0 => r = 0
  BY <1>1
<1>3. Quot(n, d) = IF (n < 0) = (d < 0) THEN q ELSE -q
  BY DEF Quot
<1>4. m = (IF n < 0 THEN -n ELSE n) /\ e = (IF d < 0 THEN -d ELSE d)
  BY DEF Abs
<1> HIDE DEF q, r, m, e
<1>5. Quot(n, d) \in Int /\ d * Quot(n, d) = IF n < 0 THEN -(e * q) ELSE e * q
  <2>1. CASE n < 0 /\ d < 0
    BY <1>1, <1>2, <1>3, <1>4, <2>1
  <2>2. CASE n < 0 /\ ~(d < 0)
    BY <1>1, <1>2, <1>3, <1>4, <2>2
  <2>3. CASE ~(n < 0) /\ d < 0
    BY <1>1, <1>2, <1>3, <1>4, <2>3
  <2>4. CASE ~(n < 0) /\ ~(d < 0)
    BY <1>1, <1>2, <1>3, <1>4, <2>4
  <2>. QED
    BY <2>1, <2>2, <2>3, <2>4
<1> DEFINE p == e * q
<1>6. p \in Int /\ m = p + r
  BY <1>1, <1>2
<1>7. Rem(n, d) = n - (IF n < 0 THEN -p ELSE p)
  BY <1>5 DEF Rem
<1> HIDE DEF p
<1>8. Rem(n, d) = IF n < 0 THEN -r ELSE r
  BY <1>1, <1>2, <1>4, <1>6, <1>7
<1>9. d * Quot(n, d) \in Int /\ Rem(n, d) = n - d * Quot(n, d)
  BY <1>5 DEF Rem
<1>10. Rem(n, d) \in Int /\ n = d * Quot(n, d) + Rem(n, d)
  BY <1>1, <1>2, <1>8, <1>9
<1>11. Abs(Rem(n, d)) = r
  BY <1>1, <1>2, <1>8 DEF Abs
<1>12. r < e /\ r >= 0
  BY <1>1, <1>2
<1>13. Abs(Rem(n, d)) < Abs(d)
  BY <1>11, <1>12 DEF e
<1>14. (n >= 0 => Rem(n, d) >= 0) /\ (n <= 0 => Rem(n, d) <= 0)
  <2>1. n = 0 => r = 0
    BY <1>4, <1>z
  <2>. QED
    BY <1>1, <1>2, <1>8, <2>1
<1>. QED
  BY <1>5, <1>10, <1>13, <1>14
-----------------------------------------------------------------------------
(* gcd.                                                                    *)

(* n is a sum of multiples of a and b.                                     *)
Combines(n) == \E s, t \in Int : s * a + t * b = n

(* While the second argument fits an int no remainder is cut; whatever     *)
(* divides x and y divides a and b, and both are sums of multiples of a    *)
(* and b.                                                                  *)
GcdInv ==
  /\ a \in Int /\ b \in Int /\ x \in Int /\ y \in Int
  /\ IsInt(b) =>
       /\ IsInt(y)
       /\ \A d \in Int : Divides(d, x) /\ Divides(d, y) => CommonDivisor(d)
       /\ Combines(x) /\ Combines(y)

(* What an int holds.                                                      *)
LEMMA IntRange ==
  ASSUME NEW n \in Int
  PROVE  /\ ToInt(n) \in Int
         /\ IsInt(n) <=> /\ n >= -(IntModulus \div 2)
                         /\ n < IntModulus - (IntModulus \div 2)
<1> DEFINE half == IntModulus \div 2
           v == n + half
           low == v % IntModulus
<1>1. half \in Int /\ IntModulus \in Nat \ {0} /\ v \in Int
  BY NumericAssumption
<1>2. low \in 0..(IntModulus - 1)
  BY <1>1, Euclid
<1>3. ToInt(n) = low - half
  BY DEF ToInt
<1>4. v \in 0..(IntModulus - 1) => low = v
  BY <1>1
<1>5. v = n + half
  OBVIOUS
<1> HIDE DEF low, v, half
<1>6. ToInt(n) = n <=> low = v
  BY <1>1, <1>2, <1>3, <1>5
<1>7. low = v <=> v \in 0..(IntModulus - 1)
  BY <1>2, <1>4
<1>8. v \in 0..(IntModulus - 1) <=> n >= -half /\ n < IntModulus - half
  BY <1>1, <1>5
<1>. QED
  BY <1>1, <1>2, <1>3, <1>6, <1>7, <1>8 DEF IsInt, half

(* A remainder by an int fits an int.                                      *)
LEMMA SmallerFits ==
  ASSUME NEW n \in Int, NEW m \in Int, IsInt(m), Abs(n) < Abs(m)
  PROVE  IsInt(n)
<1> DEFINE half == IntModulus \div 2
<1>1. IntModulus \in Nat \ {0} /\ half \in Int
  BY NumericAssumption
<1>2. 2 * half <= IntModulus /\ IntModulus <= 2 * half + 1
  BY <1>1
<1>3. m >= -half /\ m < IntModulus - half
  BY IntRange
<1> HIDE DEF half
<1>4. n >= -half /\ n < IntModulus - half
  BY <1>1, <1>2, <1>3 DEF Abs
<1>. QED
  BY <1>4, IntRange DEF half

LEMMA InitGcdInv == InitNumbers => GcdInv
<1> SUFFICES ASSUME InitNumbers PROVE GcdInv
  OBVIOUS
<1>1. a \in Int /\ b \in Int /\ x = a /\ y = b
  BY NumericAssumption DEF InitNumbers
<1>2. Combines(a)
  <2>1. 1 * a + 0 * b = a
    BY <1>1
  <2>. QED
    BY <2>1 DEF Combines
<1>3. Combines(b)
  <2>1. 0 * a + 1 * b = b
    BY <1>1
  <2>. QED
    BY <2>1 DEF Combines
<1>. QED
  BY <1>1, <1>2, <1>3 DEF GcdInv, CommonDivisor

LEMMA CombineMore ==
  ASSUME a \in Int, b \in Int, NEW q \in Int, NEW m \in Int, NEW n \in Int,
         Combines(m), Combines(n)
  PROVE  Combines(m - n * q)
<1>1. PICK s1 \in Int, t1 \in Int : s1 * a + t1 * b = m
  BY DEF Combines
<1>2. PICK s2 \in Int, t2 \in Int : s2 * a + t2 * b = n
  BY DEF Combines
<1> DEFINE s == s1 - s2 * q
           t == t1 - t2 * q
<1>3. s \in Int /\ t \in Int
  OBVIOUS
<1>4. s * a + t * b = (s1 * a + t1 * b) - (s2 * a + t2 * b) * q
  OBVIOUS
<1> HIDE DEF s, t
<1>5. s * a + t * b = m - n * q
  BY <1>1, <1>2, <1>4
<1>. QED
  BY <1>3, <1>5 DEF Combines

LEMMA DividesMore ==
  ASSUME NEW d \in Int, NEW q \in Int, NEW m \in Int, NEW n \in Int,
         Divides(d, m), Divides(d, n)
  PROVE  Divides(d, m * q + n)
<1>1. PICK u \in Int : u * d = m
  BY DividesIff
<1>2. PICK v \in Int : v * d = n
  BY DividesIff
<1>3. (u * q + v) * d = (u * d) * q + (v * d)
  OBVIOUS
<1>4. (u * q + v) * d = m * q + n
  BY <1>1, <1>2, <1>3
<1>5. u * q + v \in Int /\ m * q + n \in Int
  OBVIOUS
<1>. QED
  BY <1>4, <1>5, DividesIff

LEMMA StepGcdInv == GcdInv /\ [GcdStep]_numbers => GcdInv'
<1> SUFFICES ASSUME GcdInv, [GcdStep]_numbers PROVE GcdInv'
  OBVIOUS
<1>1. CASE UNCHANGED numbers
  BY <1>1 DEF numbers, GcdInv, Combines, CommonDivisor
<1>2. CASE GcdStep
  <2> DEFINE r == Rem(x, y)
             q == Quot(x, y)
  <2>1. /\ y # 0 /\ x' = y /\ y' = ToInt(r) /\ a' = a /\ b' = b
    BY <1>2 DEF GcdStep
  <2>2. a \in Int /\ b \in Int /\ x \in Int /\ y \in Int
    BY DEF GcdInv
  <2>3. q \in Int /\ r \in Int /\ x = y * q + r /\ Abs(r) < Abs(y)
    BY <2>1, <2>2, QuotRem
  <2> HIDE DEF r, q
  <2>4. y' \in Int
    BY <2>1, <2>3, IntRange
  <2>5. ASSUME IsInt(b)
        PROVE  /\ IsInt(r)
               /\ \A d \in Int : Divides(d, y) /\ Divides(d, r) => CommonDivisor(d)
               /\ Combines(y) /\ Combines(r)
    <3>1. /\ IsInt(y)
          /\ \A d \in Int : Divides(d, x) /\ Divides(d, y) => CommonDivisor(d)
          /\ Combines(x) /\ Combines(y)
      BY <2>5 DEF GcdInv
    <3>2. IsInt(r)
      BY <2>2, <2>3, <3>1, SmallerFits
    <3>3. \A d \in Int : Divides(d, y) /\ Divides(d, r) => Divides(d, x)
      BY <2>2, <2>3, DividesMore
    <3>4. r = x - y * q
      BY <2>2, <2>3
    <3>5. Combines(r)
      BY <2>2, <2>3, <3>1, <3>4, CombineMore
    <3>. QED
      BY <3>1, <3>2, <3>3, <3>5
  <2>6. IsInt(b) => y' = r
    BY <2>1, <2>5 DEF IsInt
  <2>. QED
    BY <2>1, <2>2, <2>4, <2>5, <2>6 DEF GcdInv, Combines, CommonDivisor
<1>. QED
  BY <1>1, <1>2

(* gcd returns a common divisor that no common divisor exceeds, for all    *)
(* integers of which the second fits an int.                               *)
THEOREM GcdReturnsGreatest == NumbersSpec => []GcdIsGreatest
<1>1. GcdInv => GcdIsGreatest
  <2> SUFFICES ASSUME GcdInv, GcdReturns, IsInt(b)
               PROVE  /\ CommonDivisor(x)
                      /\ \A d \in 1..(Abs(a) + Abs(b)) : CommonDivisor(d) => d <= Abs(x)
    BY Zenon DEF GcdIsGreatest
  <2>1. /\ a \in Int /\ b \in Int /\ x \in Int /\ y = 0
        /\ \A d \in Int : Divides(d, x) /\ Divides(d, y) => CommonDivisor(d)
        /\ Combines(x)
    BY DEF GcdInv, GcdReturns
  <2>2. CommonDivisor(x)
    <3>1. 1 * x = x /\ 0 * x = 0
      BY <2>1
    <3>2. Divides(x, x) /\ Divides(x, y)
      BY <2>1, <3>1, DividesIff
    <3>. QED
      BY <2>1, <3>2
  <2>3. ASSUME NEW d \in 1..(Abs(a) + Abs(b)), CommonDivisor(d)
        PROVE  d <= Abs(x)
    <3>1. d \in Int /\ d >= 1
      BY <2>1 DEF Abs
    <3>2. Divides(d, x)
      <4>1. PICK s \in Int, t \in Int : s * a + t * b = x
        BY <2>1 DEF Combines
      <4>2. PICK p \in Int : p * d = a
        BY <2>1, <2>3, <3>1, DividesIff DEF CommonDivisor
      <4>3. PICK r \in Int : r * d = b
        BY <2>1, <2>3, <3>1, DividesIff DEF CommonDivisor
      <4>4. (s * p + t * r) * d = s * (p * d) + t * (r * d)
        BY <3>1
      <4>5. (s * p + t * r) * d = x /\ s * p + t * r \in Int
        BY <4>1, <4>2, <4>3, <4>4
      <4>. QED
        BY <2>1, <3>1, <4>5, DividesIff
    <3>3. x # 0
      <4>1. ASSUME x = 0 PROVE FALSE
        <5>1. Divides(0, a) /\ Divides(0, b)
          BY <2>2, <4>1 DEF CommonDivisor
        <5>2. a = 0 /\ b = 0
          BY <2>1, <5>1, DividesIff
        <5>. QED
          BY <5>2 DEF Abs
      <4>. QED
        BY <4>1
    <3>4. PICK k \in Int : k * d = x
      BY <2>1, <3>1, <3>2, DividesIff
    <3>5. k # 0
      BY <3>1, <3>3, <3>4
    <3>6. d \in -Abs(d * k)..Abs(d * k)
      BY <3>1, <3>5, MultipleGrows
    <3>7. d * k = x
      BY <3>1, <3>4
    <3>. QED
      BY <2>1, <3>1, <3>6, <3>7 DEF Abs
  <2>. QED
    BY <2>2, <2>3
<1>. QED
  BY <1>1, InitGcdInv, StepGcdInv, PTL DEF NumbersSpec
-----------------------------------------------------------------------------
(* Angles.                                                                 *)
LEMMA CircleType == Circle \in Nat \ {0} /\ Circle \in Int /\ Circle # 0 /\ Circle > 0
  BY NumericAssumption

(* angle_mod subtracts full turns until half a turn is left at most.       *)
LEMMA ModNear ==
  ASSUME NEW n \in Int
  PROVE  /\ angle_mod(n) \in Int
         /\ -Circle <= 2 * angle_mod(n) /\ 2 * angle_mod(n) <= Circle
         /\ \E k \in Int : angle_mod(n) = n - k * Circle
<1> DEFINE e == 2 * Circle
           v == 2 * n + Circle
           q == v \div e
           r == v % e
           k == Rint(n, Circle)
<1>1. v \in Int /\ e \in Nat \ {0} /\ Circle \in Int /\ Circle > 0
  BY CircleType
<1>2. q \in Int /\ r \in 0..(e - 1) /\ v = e * q + r
  BY <1>1, Euclid, Zenon
<1>3. k = IF r = 0 /\ q % 2 = 1 THEN q - 1 ELSE q
  BY DEF Rint
<1>4. angle_mod(n) = n - Circle * k
  BY DEF angle_mod
<1>5. e = 2 * Circle /\ v = 2 * n + Circle
  OBVIOUS
<1> HIDE DEF e, v, q, r, k
<1> DEFINE p == Circle * q
           f == Circle * k
<1>6. e * q = 2 * p /\ p \in Int
  BY <1>1, <1>2, <1>5
<1>7. k \in Int /\ (f = p \/ (r = 0 /\ f = p - Circle))
  BY <1>1, <1>2, <1>3
<1>8. f \in Int /\ angle_mod(n) = n - f
  BY <1>1, <1>4, <1>7
<1>9. f = k * Circle
  BY <1>1, <1>7
<1> HIDE DEF p, f
<1>10. 2 * n = 2 * p + r - Circle /\ r \in Int /\ r >= 0 /\ r < 2 * Circle
  BY <1>1, <1>2, <1>5, <1>6
<1>11. -Circle <= 2 * (n - f) /\ 2 * (n - f) <= Circle
  BY <1>1, <1>6, <1>7, <1>8, <1>10
<1>. QED
  BY <1>7, <1>8, <1>9, <1>11

(* Less than half a turn from 0 no direction has two angles.               *)
LEMMA OneAngle ==
  ASSUME NEW u \in Int, NEW v \in Int, NEW k \in Int, u = v + k * Circle,
         -Circle <= 2 * u, 2 * u <= Circle, -Circle < 2 * v, 2 * v < Circle
  PROVE  u = v
<1> DEFINE p == k * Circle
<1>1. p \in Int /\ u = v + p
  BY CircleType
<1>2. Abs(p) < Abs(Circle)
  <2> HIDE DEF p
  <2>. QED
    BY <1>1, CircleType DEF Abs
<1>3. k = 0
  BY <1>2, CircleType, SmallMultiple
<1>. QED
  BY <1>1, <1>3, CircleType

LEMMA TurnsSame ==
  ASSUME NEW n \in Int, NEW m \in Int, NEW k \in Int, n = m + k * Circle
  PROVE  SameAngle(n, m)
<1>1. n - m = k * Circle /\ n - m \in Int
  BY CircleType
<1>. QED
  BY <1>1, CircleType, DividesIff DEF SameAngle

LEMMA AngleModSame ==
  ASSUME NEW n \in Int
  PROVE  2 * Abs(angle_mod(n)) <= Circle /\ SameAngle(angle_mod(n), n)
<1>1. PICK k \in Int : angle_mod(n) = n - k * Circle
  BY ModNear
<1>2. angle_mod(n) = n + (-k) * Circle
  BY <1>1, CircleType
<1>3. angle_mod(n) \in Int /\ -Circle <= 2 * angle_mod(n) /\ 2 * angle_mod(n) <= Circle
  BY ModNear
<1>4. 2 * Abs(angle_mod(n)) <= Circle
  BY <1>3, CircleType DEF Abs
<1>5. SameAngle(angle_mod(n), n)
  BY <1>2, <1>3, TurnsSame
<1>. QED
  BY <1>4, <1>5

LEMMA AnglePosSame ==
  ASSUME NEW n \in Int
  PROVE  /\ SameAngle(angle_pos(n), n)
         /\ n >= -Circle => angle_pos(n) \in 0..Circle
<1> DEFINE m == n + Circle
           q == Quot(m, Circle)
           r == angle_pos(n)
           k == 1 - q
<1>1. m \in Int /\ m = n + Circle
  BY CircleType
<1>2. /\ q \in Int /\ r \in Int /\ m = Circle * q + r /\ Abs(r) < Abs(Circle)
      /\ m >= 0 => r >= 0
      /\ m <= 0 => r <= 0
  BY <1>1, CircleType, QuotRem, Zenon DEF angle_pos
<1> HIDE DEF m, q, r
<1>3. k \in Int /\ r = n + k * Circle
  BY <1>1, <1>2, CircleType
<1>4. SameAngle(r, n)
  BY <1>2, <1>3, TurnsSame
<1>5. r < Circle
  BY <1>2, CircleType DEF Abs
<1>6. n >= -Circle => r \in 0..Circle
  BY <1>1, <1>2, <1>5, CircleType
<1>. QED
  BY <1>4, <1>6 DEF r

LEMMA BoundedAngle ==
  ASSUME NEW n \in Int, NEW m \in Int, NEW tolerance \in 0..((Circle \div 2) - 1)
  PROVE  LET r == abs_bound_angle(n, tolerance, m)
         IN  /\ angle_dist(r, n) <= tolerance
             /\ angle_dist(n, m) <= tolerance => SameAngle(r, m)
             /\ 2 * Abs(r) <= Circle
<1> DEFINE away == angle_mod(m - n)
           v == abs_bound(away, tolerance)
           f == v + n
           r == angle_mod(f)
           z == angle_mod(n - m)
           d == angle_mod(r - n)
<1>t. tolerance \in Int /\ tolerance >= 0 /\ 2 * tolerance < Circle
  BY CircleType
<1>1. away \in Int /\ -Circle <= 2 * away /\ 2 * away <= Circle
  BY ModNear
<1>2. PICK k1 \in Int : away = m - n - k1 * Circle
  BY ModNear
<1>3. z \in Int
  BY ModNear
<1>4. PICK k2 \in Int : z = n - m - k2 * Circle
  BY ModNear
<1>w. v = IF away < -tolerance THEN -tolerance ELSE IF away > tolerance THEN tolerance ELSE away
  BY DEF abs_bound
<1> HIDE DEF away, v, z
<1>5. v \in Int /\ -tolerance <= v /\ v <= tolerance
      /\ (-tolerance <= away /\ away <= tolerance => v = away)
  BY <1>t, <1>1, <1>w
<1>s. f \in Int /\ f = v + n
  BY <1>5
<1> HIDE DEF f
<1>6. r \in Int
  BY <1>s, ModNear
<1>7. PICK k3 \in Int : r = f - k3 * Circle
  BY <1>s, ModNear
<1>8. 2 * Abs(r) <= Circle
  BY <1>s, AngleModSame
<1> HIDE DEF r
<1>9. d \in Int /\ -Circle <= 2 * d /\ 2 * d <= Circle
  BY <1>6, ModNear
<1>10. PICK k4 \in Int : d = r - n - k4 * Circle
  BY <1>6, ModNear
<1> HIDE DEF d
<1>11. d = v
  <2> DEFINE k == -k3 - k4
  <2>1. k \in Int /\ d = v + k * Circle
    BY <1>5, <1>6, <1>s, <1>7, <1>9, <1>10, CircleType
  <2>2. -Circle < 2 * v /\ 2 * v < Circle
    BY <1>5, <1>t, CircleType
  <2> HIDE DEF k
  <2>. QED
    BY <1>5, <1>9, <2>1, <2>2, OneAngle
<1>12. Abs(d) <= tolerance
  BY <1>5, <1>11, <1>t DEF Abs
<1>13. ASSUME Abs(z) <= tolerance PROVE SameAngle(r, m)
  <2> DEFINE k == -k1 - k2
             l == -k1 - k3
             nz == -z
  <2>1. -tolerance <= z /\ z <= tolerance
    BY <1>3, <1>13, <1>t DEF Abs
  <2>2. k \in Int /\ away = nz + k * Circle
    BY <1>1, <1>2, <1>3, <1>4, CircleType
  <2>3. nz \in Int /\ -Circle < 2 * nz /\ 2 * nz < Circle /\ -tolerance <= nz /\ nz <= tolerance
    BY <1>3, <1>t, <2>1, CircleType
  <2> HIDE DEF k, nz
  <2>4. away = nz
    BY <1>1, <2>2, <2>3, OneAngle
  <2>5. v = away
    BY <1>5, <2>3, <2>4
  <2>6. l \in Int /\ r = m + l * Circle
    BY <1>2, <1>5, <1>6, <1>s, <1>7, <2>5, CircleType
  <2> HIDE DEF l
  <2>. QED
    BY <1>6, <2>6, TurnsSame
<1>14. /\ r = abs_bound_angle(n, tolerance, m)
       /\ angle_dist(r, n) = Abs(d) /\ angle_dist(n, m) = Abs(z)
  BY DEF abs_bound_angle, angle_dist, r, f, v, away, d, z
<1> HIDE DEF d, z
<1>. QED
  BY <1>8, <1>12, <1>13, <1>14

LEMMA ArgumentsAreInts == NumbersSpec => [](a \in Int /\ b \in Int)
<1>1. GcdInv => a \in Int /\ b \in Int
  BY DEF GcdInv
<1>. QED
  BY <1>1, InitGcdInv, StepGcdInv, PTL DEF NumbersSpec

(* The angle functions keep the direction and normalize, on every grid and *)
(* for all angles; abs_bound_angle stays within its tolerance.             *)
THEOREM AnglesAreNormalized == NumbersSpec => []AnglesNormalized
<1>1. a \in Int /\ b \in Int => AnglesNormalized
  BY AngleModSame, AnglePosSame, BoundedAngle, Zenon DEF AnglesNormalized
<1>. QED
  BY <1>1, ArgumentsAreInts, PTL

(* Angles of two half units, a full turn of which is 2 * Circle.           *)
LEMMA TwiceModulo ==
  ASSUME NEW n \in Int, NEW m \in Int, NEW e \in Nat \ {0}, n \in 0..(e - 1),
         m = n \/ m = n + e \/ m = n - e
  PROVE  m % e = n
<1>1. e \in Int /\ e > 0 /\ n >= 0 /\ n < e
  OBVIOUS
<1>2. ASSUME NEW q \in Int, m = e * q + n PROVE m % e = n
  BY <1>1, <1>2
<1>3. m = e * 0 + n \/ m = e * 1 + n \/ m = e * (-1) + n
  BY <1>1
<1>. QED
  BY <1>2, <1>3

LEMMA Halfway ==
  ASSUME NEW left \in Int, NEW right \in Int,
         -Circle <= 2 * left, 2 * left <= Circle,
         -Circle <= 2 * right, 2 * right <= Circle
  PROVE  LET r == avg_angle2(left, right)
         IN  /\ Abs(r) <= Circle
             /\ 2 * ((r - 2 * right) % (2 * Circle)) = (2 * (left - right)) % (2 * Circle)
                  <=> left - right < Circle
<1> DEFINE r == avg_angle2(left, right)
           sum == IF left < right THEN left + Circle + right ELSE left + right
           e == 2 * Circle
           d == left - right
           n == r - 2 * right
           m == 2 * d
<1>c. Circle \in Int /\ Circle > 0
  BY CircleType
<1>1. r = IF sum > Circle THEN sum - 2 * Circle ELSE sum
  BY DEF avg_angle2
<1>2. sum \in Int /\ sum = IF left < right THEN left + Circle + right ELSE left + right
  BY <1>c
<1> HIDE DEF r, sum
<1>3. r \in Int /\ -Circle <= r /\ r <= Circle
  BY <1>1, <1>2, <1>c
<1>4. /\ n \in Int /\ d \in Int /\ m \in Int /\ e \in Nat \ {0} /\ m = 2 * d
      /\ e = 2 * Circle
  BY <1>3, <1>c
<1>5. /\ left < right => /\ n = d + Circle \/ n = d + Circle - e
                         /\ -Circle <= d /\ d < 0
      /\ left >= right => /\ n = d \/ n = d - e
                          /\ 0 <= d /\ d <= Circle
  BY <1>1, <1>2, <1>3, <1>c
<1> HIDE DEF e, d, n, m
<1>6. 2 * (n % e) = m % e <=> d < Circle
  <2>1. CASE left < right
    <3> DEFINE p == d + Circle
    <3>1. p \in Int /\ p \in 0..(e - 1) /\ (n = p \/ n = p + e \/ n = p - e)
      BY <1>4, <1>5, <1>c, <2>1
    <3>2. n % e = p
      BY <1>4, <3>1, TwiceModulo
    <3>3. 2 * p \in Int /\ 2 * p \in 0..(e - 1) /\ m = 2 * p - e
      BY <1>4, <1>5, <1>c, <2>1
    <3>4. m % e = 2 * p
      BY <1>4, <3>3, TwiceModulo
    <3>5. d < Circle
      BY <1>4, <1>5, <1>c, <2>1
    <3>. QED
      BY <3>2, <3>4, <3>5
  <2>2. CASE left >= right
    <3>1. d \in 0..(e - 1) /\ (n = d \/ n = d + e \/ n = d - e)
      BY <1>4, <1>5, <1>c, <2>2
    <3>2. n % e = d
      BY <1>4, <3>1, TwiceModulo
    <3>3. CASE d < Circle
      <4>1. m \in 0..(e - 1)
        BY <1>4, <1>5, <1>c, <2>2, <3>3
      <4>2. m % e = m
        BY <1>4, <4>1, TwiceModulo
      <4>. QED
        BY <1>4, <3>2, <3>3, <4>2
    <3>4. CASE d = Circle
      <4>1. 0 \in 0..(e - 1) /\ m = 0 + e
        BY <1>4, <1>c, <3>4
      <4>2. m % e = 0
        BY <1>4, <4>1, TwiceModulo
      <4>. QED
        BY <1>4, <1>c, <3>2, <3>4, <4>2
    <3>. QED
      BY <1>4, <1>5, <1>c, <2>2, <3>3, <3>4
  <2>. QED
    BY <2>1, <2>2
<1>7. Abs(r) <= Circle
  BY <1>3, <1>c DEF Abs
<1>. QED
  BY <1>6, <1>7, Zenon DEF r, e, d, n, m

(* avg_angle of any two angles that angle_mod returns is halfway between   *)
(* them, but for the one pair that is a full turn apart.                   *)
THEOREM AverageIsHalfway == NumbersSpec => []AverageHalfway
<1>1. a \in Int /\ b \in Int => AverageHalfway
  BY ModNear, Halfway, Zenon DEF AverageHalfway
<1>. QED
  BY <1>1, ArgumentsAreInts, PTL
-----------------------------------------------------------------------------
(* The arrays.                                                             *)
Cells == Values \cup {Junk}

(* The list's array has size elements, the first of which are the items.   *)
ListInv ==
  /\ size \in Nat /\ items \in Seq(Values) /\ Used <= size
  /\ arr = NULL => size = 0
  /\ arr # NULL => arr \in [1..size -> Cells]
  /\ \A i \in 1..Used : arr[i] = items[i]

(* The table's array has w * h elements, as many as were asked for.        *)
TableInv ==
  /\ w \in Nat /\ h \in Nat /\ asked \in Nat \X Nat
  /\ w * h = asked[1] * asked[2]
  /\ table = NULL => w * h = 0
  /\ table # NULL => table \in [1..(w * h) -> Cells]

ArraysInv == ListInv /\ TableInv

LEMMA CellSeq ==
  ASSUME NEW n \in Nat, NEW f \in [1..n -> Cells]
  PROVE  f \in Seq(Cells) /\ Len(f) = n /\ f # NULL
<1>1. f \in Seq(Cells)
  BY SeqDef
<1>2. DOMAIN f = 1..n /\ DOMAIN f = 1..Len(f) /\ Len(f) \in Nat
  BY <1>1, LenProperties
<1>3. Len(f) = n
  BY <1>2
<1>4. f # NULL
  BY <1>1, ArraysAssumption DEF Cells
<1>. QED
  BY <1>1, <1>3, <1>4

LEMMA NewArray ==
  ASSUME NEW n \in Nat
  PROVE  New(n) \in [1..n -> Cells] /\ New(n) # NULL
<1>1. New(n) \in [1..n -> Cells]
  BY DEF New, Cells
<1>. QED
  BY <1>1, CellSeq

LEMMA ItemsType ==
  ASSUME ListInv
  PROVE  /\ Used \in Nat /\ \A i \in 1..Used : items[i] \in Values
         /\ arr = NULL => Used = 0
<1>1. Used \in Nat /\ \A i \in 1..Used : items[i] \in Values
  BY ElementOfSeq, LenProperties DEF ListInv, Used
<1>. QED
  BY <1>1 DEF ListInv

(* The first num elements of one array and the others of another.          *)
LEMMA Copied ==
  ASSUME NEW n \in Nat, NEW m \in Nat, NEW dest \in [1..n -> Cells],
         NEW src \in [1..m -> Cells], NEW num \in Nat, num <= n, num <= m
  PROVE  /\ mcopy(dest, src, num) \in [1..n -> Cells]
         /\ \A i \in 1..num : mcopy(dest, src, num)[i] = src[i]
<1> DEFINE s == SubSeq(src, 1, num)
           t == SubSeq(dest, num + 1, n)
<1>1. /\ s \in Seq(Cells) /\ Len(s) = num
      /\ \A i \in 1..num : s[i] = src[i]
  <2>1. \A i \in 1..num : src[i] \in Cells
    OBVIOUS
  <2>2. /\ s \in Seq(Cells) /\ Len(s) = IF 1 <= num THEN num - 1 + 1 ELSE 0
        /\ \A i \in 1..(num - 1 + 1) : s[i] = src[1 + i - 1]
    BY <2>1, SubSeqProperties
  <2> HIDE DEF s
  <2>3. Len(s) = num
    BY <2>2
  <2>4. \A i \in 1..num : i \in 1..(num - 1 + 1) /\ 1 + i - 1 = i
    OBVIOUS
  <2>. QED
    BY <2>2, <2>3, <2>4
<1>2. t \in Seq(Cells) /\ Len(t) = n - num
  <2>1. \A i \in (num + 1)..n : dest[i] \in Cells
    OBVIOUS
  <2>2. t \in Seq(Cells) /\ Len(t) = IF num + 1 <= n THEN n - (num + 1) + 1 ELSE 0
    BY <2>1, SubSeqProperties
  <2> HIDE DEF t
  <2>. QED
    BY <2>2
<1>3. mcopy(dest, src, num) = s \o t
  BY CellSeq DEF mcopy
<1> HIDE DEF s, t
<1> DEFINE c == s \o t
<1>4. /\ c \in Seq(Cells) /\ Len(c) = Len(s) + Len(t)
      /\ \A i \in 1..(Len(s) + Len(t)) :
           c[i] = IF i <= Len(s) THEN s[i] ELSE t[i - Len(s)]
  BY <1>1, <1>2, ConcatProperties
<1> HIDE DEF c
<1>5. Len(c) = n
  BY <1>1, <1>2, <1>4
<1>6. c \in [1..n -> Cells]
  BY <1>4, <1>5, LenProperties
<1>7. \A i \in 1..num : c[i] = src[i]
  <2>1. \A i \in 1..num : i \in 1..(Len(s) + Len(t)) /\ i <= Len(s)
    BY <1>1, <1>2
  <2>. QED
    BY <1>1, <1>4, <2>1
<1>. QED
  BY <1>3, <1>6, <1>7 DEF c

LEMMA InitArraysInv == InitArrays => ArraysInv
<1> SUFFICES ASSUME InitArrays PROVE ArraysInv
  OBVIOUS
<1>1. /\ arr = NULL /\ size = 0 /\ items = <<>> /\ table = NULL
      /\ w = 0 /\ h = 0 /\ asked = <<0, 0>>
  BY DEF InitArrays
<1>2. items \in Seq(Values) /\ Used = 0
  BY <1>1 DEF Used
<1>3. ListInv
  BY <1>1, <1>2 DEF ListInv
<1>4. TableInv
  BY <1>1 DEF TableInv
<1>. QED
  BY <1>3, <1>4 DEF ArraysInv

LEMMA AllocStep ==
  ASSUME ListInv, NEW n \in Nat, alloc_array(n)
  PROVE  ListInv'
<1>1. items' = <<>> /\ Len(<<>>) = 0 /\ <<>> \in Seq(Values)
  BY DEF alloc_array
<1>2. Used' = 0
  BY <1>1 DEF Used
<1>3. CASE UNCHANGED <<arr, size>>
  BY <1>1, <1>2, <1>3 DEF ListInv
<1>4. CASE arr' = New(n) /\ size' = n
  BY <1>1, <1>2, <1>4, NewArray DEF ListInv
<1>. QED
  BY <1>3, <1>4 DEF alloc_array

LEMMA ResizeStep ==
  ASSUME ListInv, NEW n \in Nat, resize_array(n)
  PROVE  ListInv'
<1>1. Used <= n /\ items' = items
  BY DEF resize_array
<1>2. Used' = Used
  BY <1>1 DEF Used
<1>t. Used \in Nat /\ (arr = NULL => Used = 0)
  BY ItemsType
<1>3. CASE UNCHANGED <<arr, size>>
  BY <1>1, <1>2, <1>3 DEF ListInv
<1>4. CASE arr = NULL /\ arr' = New(n) /\ size' = n
  BY <1>1, <1>2, <1>t, <1>4, NewArray DEF ListInv
<1>5. CASE arr # NULL /\ arr' = mcopy(New(n), arr, Used) /\ size' = n
  <2>1. /\ arr \in [1..size -> Cells] /\ size \in Nat /\ Used <= size
        /\ \A i \in 1..Used : arr[i] = items[i]
    BY <1>5 DEF ListInv
  <2>2. New(n) \in [1..n -> Cells]
    BY NewArray
  <2>3. arr' \in [1..n -> Cells] /\ \A i \in 1..Used : arr'[i] = arr[i]
    BY <1>1, <1>t, <1>5, <2>1, <2>2, Copied
  <2>4. arr' # NULL
    BY <2>3, CellSeq
  <2>. QED
    BY <1>1, <1>2, <1>5, <2>1, <2>3, <2>4 DEF ListInv
<1>. QED
  BY <1>3, <1>4, <1>5 DEF resize_array

LEMMA FreeStep ==
  ASSUME ListInv, free_array
  PROVE  ListInv'
<1>1. arr' = NULL /\ size' = 0 /\ items' = <<>> /\ Len(<<>>) = 0 /\ <<>> \in Seq(Values)
  BY DEF free_array
<1>2. Used' = 0
  BY <1>1 DEF Used
<1>. QED
  BY <1>1, <1>2 DEF ListInv

LEMMA AppendStep ==
  ASSUME ListInv, NEW v \in Values, Append1(v)
  PROVE  ListInv'
<1>1. /\ Used < size /\ arr' = [arr EXCEPT ![Used + 1] = v]
      /\ items' = Append(items, v) /\ size' = size
  BY DEF Append1
<1>t. Used \in Nat /\ size \in Nat
  BY ItemsType DEF ListInv
<1>2. arr \in [1..size -> Cells] /\ arr # NULL
  BY <1>1, <1>t DEF ListInv
<1>3. /\ items' \in Seq(Values) /\ Len(items') = Used + 1
      /\ \A i \in 1..Used : items'[i] = items[i]
      /\ items'[Used + 1] = v
  <2>1. items \in Seq(Values)
    BY DEF ListInv
  <2>. QED
    BY <1>1, <2>1, AppendProperties DEF Used
<1>4. Used + 1 \in 1..size /\ v \in Cells
  BY <1>1, <1>t DEF Cells
<1>5. /\ arr' \in [1..size -> Cells] /\ arr'[Used + 1] = v
      /\ \A i \in 1..size : i # Used + 1 => arr'[i] = arr[i]
  BY <1>1, <1>2, <1>4
<1>6. arr' # NULL
  BY <1>t, <1>5, CellSeq
<1>7. Used' = Used + 1
  BY <1>3 DEF Used
<1>8. \A i \in 1..Used' : arr'[i] = items'[i]
  <2>1. ASSUME NEW i \in 1..Used PROVE arr'[i] = items'[i]
    <3>1. i \in 1..size /\ i # Used + 1
      BY <1>1, <1>t, <2>1
    <3>. QED
      BY <1>3, <1>5, <2>1, <3>1 DEF ListInv
  <2>2. \A i \in 1..Used' : i \in 1..Used \/ i = Used + 1
    BY <1>t, <1>7
  <2>. QED
    BY <1>3, <1>5, <2>1, <2>2
<1>9. Used' <= size
  BY <1>1, <1>t, <1>7
<1>. QED
  BY <1>1, <1>t, <1>3, <1>5, <1>6, <1>8, <1>9 DEF ListInv

LEMMA DropStep ==
  ASSUME ListInv, DropLast
  PROVE  ListInv'
<1>1. /\ items # <<>> /\ items' = SubSeq(items, 1, Used - 1)
      /\ UNCHANGED <<arr, size>>
  BY DEF DropLast
<1>t. Used \in Nat /\ size \in Nat /\ Used <= size /\ \A i \in 1..Used : items[i] \in Values
  BY ItemsType DEF ListInv
<1>u. Used >= 1
  BY <1>1, <1>t, EmptySeq DEF ListInv, Used
<1>2. /\ items' \in Seq(Values) /\ Len(items') = Used - 1
      /\ \A i \in 1..(Used - 1) : items'[i] = items[i]
  <2> DEFINE s == SubSeq(items, 1, Used - 1)
             n == Used - 1
  <2>1. n \in Nat /\ \A i \in 1..n : items[i] \in Values
    BY <1>t, <1>u
  <2>2. /\ s \in Seq(Values) /\ Len(s) = IF 1 <= n THEN n - 1 + 1 ELSE 0
        /\ \A i \in 1..(n - 1 + 1) : s[i] = items[1 + i - 1]
    BY <2>1, SubSeqProperties
  <2>3. items' = s
    BY <1>1
  <2> HIDE DEF s, n
  <2>4. Len(s) = n /\ \A i \in 1..n : i \in 1..(n - 1 + 1) /\ 1 + i - 1 = i
    BY <2>1, <2>2
  <2>5. \A i \in 1..n : s[i] = items[i]
    BY <2>2, <2>4
  <2>. QED
    BY <2>2, <2>3, <2>4, <2>5 DEF n
<1>3. Used' = Used - 1
  BY <1>2 DEF Used
<1>4. Used' <= size /\ \A i \in 1..Used' : i \in 1..Used
  BY <1>t, <1>3
<1>. QED
  BY <1>1, <1>t, <1>2, <1>3, <1>4 DEF ListInv

LEMMA ItemsSlice ==
  ASSUME ListInv, NEW m \in Nat, NEW n \in Int, m >= 1, n <= Used, m <= n + 1
  PROVE  LET s == SubSeq(items, m, n)
         IN  /\ s \in Seq(Values) /\ Len(s) = n - m + 1
             /\ \A i \in 1..(n - m + 1) : s[i] = items[m + i - 1]
<1> DEFINE s == SubSeq(items, m, n)
<1>t. Used \in Nat /\ \A i \in 1..Used : items[i] \in Values
  BY ItemsType
<1>1. \A i \in m..n : items[i] \in Values
  BY <1>t
<1>2. /\ s \in Seq(Values) /\ Len(s) = IF m <= n THEN n - m + 1 ELSE 0
      /\ \A i \in 1..(n - m + 1) : s[i] = items[m + i - 1]
  BY <1>1, SubSeqProperties
<1> HIDE DEF s
<1>3. Len(s) = n - m + 1
  BY <1>2
<1>. QED
  BY <1>2, <1>3 DEF s

LEMMA SetRangeStep ==
  ASSUME ListInv, NEW start \in Nat, NEW num \in Nat, NEW v \in Values,
         set_range(start, num, v)
  PROVE  ListInv'
<1> DEFINE inside(i) == i > start /\ i <= start + num
           s1 == SubSeq(items, 1, start)
           s2 == [i \in 1..num |-> v]
           s3 == SubSeq(items, start + num + 1, Used)
           s12 == s1 \o s2
           s123 == s12 \o s3
<1>1. /\ arr # NULL /\ start + num <= Used /\ size' = size /\ items' = s123
      /\ arr' = [i \in 1..size |-> IF i - 1 \in start..(start + num - 1) THEN v ELSE arr[i]]
  BY DEF set_range
<1>t. /\ Used \in Nat /\ size \in Nat /\ Used <= size
      /\ arr \in [1..size -> Cells] /\ v \in Cells
      /\ \A i \in 1..Used : arr[i] = items[i]
  BY <1>1, ItemsType DEF ListInv, Cells
<1>2. /\ s1 \in Seq(Values) /\ Len(s1) = start
      /\ \A i \in 1..start : s1[i] = items[i]
  <2>1. /\ s1 \in Seq(Values) /\ Len(s1) = start - 1 + 1
        /\ \A i \in 1..(start - 1 + 1) : s1[i] = items[1 + i - 1]
    <3>1. start <= Used /\ 1 <= start + 1
      BY <1>1, <1>t
    <3>. QED
      BY <3>1, ItemsSlice
  <2> HIDE DEF s1
  <2>2. start - 1 + 1 = start /\ \A i \in 1..start : 1 + i - 1 = i
    OBVIOUS
  <2>. QED
    BY <2>1, <2>2
<1>3. s2 \in Seq(Values) /\ Len(s2) = num /\ \A i \in 1..num : s2[i] = v
  <2>1. s2 \in [1..num -> Values] /\ DOMAIN s2 = 1..num
    OBVIOUS
  <2>2. s2 \in Seq(Values)
    BY <2>1, SeqDef
  <2>3. DOMAIN s2 = 1..Len(s2) /\ Len(s2) \in Nat
    BY <2>2, LenProperties
  <2>4. \A i \in 1..num : s2[i] = v
    OBVIOUS
  <2> HIDE DEF s2
  <2>. QED
    BY <2>1, <2>2, <2>3, <2>4
<1>4. /\ s3 \in Seq(Values) /\ Len(s3) = Used - (start + num)
      /\ \A i \in 1..(Used - (start + num)) : s3[i] = items[start + num + i]
  <2> DEFINE m == start + num + 1
  <2>1. m \in Nat /\ m >= 1 /\ m <= Used + 1 /\ Used \in Int
    BY <1>1, <1>t
  <2>2. m = start + num + 1
    OBVIOUS
  <2>d. s3 = SubSeq(items, m, Used)
    OBVIOUS
  <2> HIDE DEF m, s3
  <2>3. /\ s3 \in Seq(Values) /\ Len(s3) = Used - m + 1
        /\ \A i \in 1..(Used - m + 1) : s3[i] = items[m + i - 1]
    BY <2>1, <2>d, ItemsSlice
  <2>4. /\ Used - m + 1 = Used - (start + num)
        /\ \A i \in 1..(Used - (start + num)) : m + i - 1 = start + num + i
    BY <1>t, <2>2
  <2>. QED
    BY <2>3, <2>4
<1> HIDE DEF s1, s2, s3
<1>5. /\ s12 \in Seq(Values) /\ Len(s12) = Len(s1) + Len(s2)
      /\ \A i \in 1..(Len(s1) + Len(s2)) :
           s12[i] = IF i <= Len(s1) THEN s1[i] ELSE s2[i - Len(s1)]
  BY <1>2, <1>3, ConcatProperties
<1> HIDE DEF s12
<1>6. /\ s123 \in Seq(Values) /\ Len(s123) = Len(s12) + Len(s3)
      /\ \A i \in 1..(Len(s12) + Len(s3)) :
           s123[i] = IF i <= Len(s12) THEN s12[i] ELSE s3[i - Len(s12)]
  BY <1>4, <1>5, ConcatProperties
<1> HIDE DEF s123
<1>7. Len(s12) = start + num /\ Len(s123) = Used
  BY <1>1, <1>2, <1>3, <1>4, <1>5, <1>6, <1>t
<1>8. \A i \in 1..Used : s123[i] = IF inside(i) THEN v ELSE items[i]
  <2> SUFFICES ASSUME NEW i \in 1..Used
               PROVE  s123[i] = IF inside(i) THEN v ELSE items[i]
    OBVIOUS
  <2>1. CASE i <= start
    <3>1. i \in 1..start /\ i <= start + num /\ i \in 1..(start + num) /\ ~inside(i)
      BY <1>t, <2>1
    <3>2. s123[i] = s12[i]
      BY <1>4, <1>6, <1>7, <1>t, <3>1
    <3>3. s12[i] = s1[i]
      BY <1>2, <1>3, <1>5, <3>1, <2>1
    <3>. QED
      BY <1>2, <3>1, <3>2, <3>3
  <2>2. CASE inside(i)
    <3>1. i <= start + num /\ i \in 1..(start + num) /\ ~(i <= start) /\ i - start \in 1..num
      BY <1>t, <2>2
    <3>2. s123[i] = s12[i]
      BY <1>4, <1>6, <1>7, <1>t, <3>1
    <3>3. s12[i] = s2[i - start]
      BY <1>2, <1>3, <1>5, <3>1
    <3>. QED
      BY <1>3, <2>2, <3>1, <3>2, <3>3
  <2>3. CASE i > start + num
    <3> DEFINE n == i - (start + num)
    <3>1. /\ ~(i <= start + num) /\ ~inside(i) /\ n \in 1..(Used - (start + num))
          /\ start + num + n = i
      BY <1>t, <2>3
    <3>d. n = i - (start + num)
      OBVIOUS
    <3> HIDE DEF n
    <3>2. s123[i] = s3[n]
      BY <1>4, <1>6, <1>7, <1>t, <3>1, <3>d
    <3>3. s3[n] = items[start + num + n]
      BY <1>4, <3>1
    <3>. QED
      BY <3>1, <3>2, <3>3
  <2>. QED
    BY <1>t, <2>1, <2>2, <2>3
<1>9. Used' = Used
  BY <1>1, <1>7 DEF Used
<1>10. arr' \in [1..size -> Cells]
  BY <1>1, <1>t
<1>11. arr' # NULL
  BY <1>t, <1>10, CellSeq
<1>12. \A i \in 1..Used : arr'[i] = items'[i]
  <2> SUFFICES ASSUME NEW i \in 1..Used PROVE arr'[i] = items'[i]
    OBVIOUS
  <2>1. i \in 1..size /\ (i - 1 \in start..(start + num - 1) <=> inside(i))
    BY <1>t
  <2>2. arr'[i] = IF inside(i) THEN v ELSE arr[i]
    BY <1>1, <2>1
  <2>. QED
    BY <1>1, <1>8, <1>t, <2>2
<1>. QED
  BY <1>1, <1>t, <1>6, <1>9, <1>10, <1>11, <1>12 DEF ListInv

LEMMA TableStep ==
  ASSUME TableInv, NEW new_w \in Nat, NEW new_h \in Nat, alloc_array2(new_w, new_h)
  PROVE  TableInv'
<1> DEFINE area == new_w * new_h
<1>1. area \in Nat
  OBVIOUS
<1>2. asked' = <<new_w, new_h>>
  BY DEF alloc_array2
<1>3. asked' \in Nat \X Nat /\ asked'[1] * asked'[2] = area
  BY <1>2
<1>4. CASE Returns(table, w * h, area) /\ UNCHANGED <<table, w, h>>
  <2> DEFINE have == w * h
  <2>1. have = area
    BY <1>4 DEF Returns, TableInv
  <2>2. /\ w \in Nat /\ h \in Nat /\ (table = NULL => have = 0)
        /\ table # NULL => table \in [1..have -> Cells]
    BY DEF TableInv
  <2>3. have' = have
    BY <1>4
  <2> HIDE DEF area
  <2>. QED
    BY <1>3, <1>4, <2>1, <2>2, <2>3 DEF TableInv
<1>5. CASE table' = New(area) /\ w' = new_w /\ h' = new_h
  <2>1. table' \in [1..area -> Cells] /\ table' # NULL
    BY <1>1, <1>5, NewArray
  <2>2. w' * h' = area /\ w' \in Nat /\ h' \in Nat
    BY <1>5
  <2> HIDE DEF area
  <2>. QED
    BY <1>3, <2>1, <2>2 DEF TableInv
<1>. QED
  BY <1>4, <1>5 DEF alloc_array2

LEMMA StepArraysInv == ArraysInv /\ [NextArrays]_arrays => ArraysInv'
<1> SUFFICES ASSUME ArraysInv, [NextArrays]_arrays PROVE ArraysInv'
  OBVIOUS
<1>s. 0..MaxSize \subseteq Nat /\ 1..MaxSize \subseteq Nat
  BY ArraysAssumption
<1>l. UNCHANGED list => (ListInv => ListInv')
  BY DEF ListInv, Used
<1>g. UNCHANGED grid => (TableInv => TableInv')
  BY DEF TableInv
<1>1. CASE \E n \in 0..MaxSize : alloc_array(n)
  BY <1>1, <1>s, <1>g, AllocStep DEF ArraysInv, alloc_array
<1>2. CASE \E n \in 0..MaxSize : resize_array(n)
  BY <1>2, <1>s, <1>g, ResizeStep DEF ArraysInv, resize_array
<1>3. CASE free_array
  BY <1>3, <1>g, FreeStep DEF ArraysInv, free_array
<1>4. CASE \E v \in Values : Append1(v)
  BY <1>4, <1>g, AppendStep DEF ArraysInv, Append1
<1>5. CASE DropLast
  BY <1>5, <1>g, DropStep DEF ArraysInv, DropLast
<1>6. CASE \E start \in 0..MaxSize, num \in 1..MaxSize, v \in Values : set_range(start, num, v)
  BY <1>6, <1>s, <1>g, SetRangeStep DEF ArraysInv, set_range
<1>7. CASE \E new_w \in 0..MaxSize, new_h \in 0..MaxSize : alloc_array2(new_w, new_h)
  BY <1>7, <1>s, <1>l, TableStep DEF ArraysInv, alloc_array2
<1>8. CASE UNCHANGED arrays
  BY <1>8, <1>l, <1>g DEF ArraysInv, arrays
<1>. QED
  BY <1>1, <1>2, <1>3, <1>4, <1>5, <1>6, <1>7, <1>8 DEF NextArrays

(* A set of natural numbers has a least one.                               *)
LEMMA LeastNumber ==
  ASSUME NEW S, S \subseteq Nat, S # {}
  PROVE  \E n \in S : \A m \in S : n <= m
<1>1. PICK n \in S : \A m \in S : <<m, n>> \notin OpToRel(<, Nat)
  BY WFMin, NatLessThanWellFounded, Zenon
<1>2. \A m \in S : ~(m < n)
  BY <1>1, Zenon DEF OpToRel
<1>. QED
  BY <1>2

(* find_item of a key returns its first index, or num if there is none.    *)
LEMMA FindsFirst ==
  ASSUME NEW num \in Nat, NEW key
  PROVE  LET i == find_item(num, key)
         IN  /\ i \in 0..num
             /\ \A j \in 1..i : arr[j] # key
             /\ i < num => arr[i + 1] = key
<1>1. CASE \E i \in 1..num : arr[i] = key
  <2> DEFINE S == { i \in Nat : i < num /\ arr[i + 1] = key }
             First(i) == arr[i + 1] = key /\ \A j \in 1..i : arr[j] # key
  <2>1. S # {}
    <3>1. PICK i \in 1..num : arr[i] = key
      BY <1>1
    <3>2. i - 1 \in Nat /\ i - 1 < num /\ (i - 1) + 1 = i
      OBVIOUS
    <3>3. arr[(i - 1) + 1] = key
      BY <3>1, <3>2
    <3>4. i - 1 \in S
      BY <3>2, <3>3
    <3>. QED
      BY <3>4
  <2>2. S \subseteq Nat
    OBVIOUS
  <2>d. \A i : i \in S <=> i \in Nat /\ i < num /\ arr[i + 1] = key
    OBVIOUS
  <2> HIDE DEF S
  <2>3. PICK i \in S : \A m \in S : i <= m
    BY <2>1, <2>2, LeastNumber
  <2>4. i \in 0..(num - 1) /\ arr[i + 1] = key /\ i \in Nat
    BY <2>d, <2>3
  <2>5. \A j \in 1..i : arr[j] # key
    <3> SUFFICES ASSUME NEW j \in 1..i, arr[j] = key PROVE FALSE
      OBVIOUS
    <3>1. j - 1 \in Nat /\ j - 1 < num /\ (j - 1) + 1 = j /\ ~(i <= j - 1)
      BY <2>4
    <3>2. j - 1 \in S
      BY <2>d, <3>1
    <3>. QED
      BY <2>3, <3>1, <3>2
  <2>6. \E n \in 0..(num - 1) : First(n)
    BY <2>4, <2>5
  <2> DEFINE f == CHOOSE n \in 0..(num - 1) : First(n)
  <2>7. f \in 0..(num - 1) /\ First(f)
    BY <2>6, Zenon
  <2>8. find_item(num, key) = f
    BY <1>1, Zenon DEF find_item
  <2> HIDE DEF f
  <2>9. f \in 0..num
    BY <2>7
  <2>. QED
    BY <2>7, <2>8, <2>9
<1>2. CASE ~ \E i \in 1..num : arr[i] = key
  <2>1. find_item(num, key) = num
    BY <1>2 DEF find_item
  <2>. QED
    BY <1>2, <2>1
<1>. QED
  BY <1>1, <1>2

(* However a caller allocates, grows, fills and shrinks its arrays, their  *)
(* size variables are right, its items stay where they are and find_item   *)
(* finds the first of equal ones; for all sizes and any contents of new    *)
(* arrays.                                                                 *)
THEOREM ItemsAreKept == ArraysSpec => []KeepsItems
<1>1. ArraysInv => KeepsItems
  <2> SUFFICES ASSUME ArraysInv PROVE KeepsItems
    OBVIOUS
  <2>t. Used \in Nat /\ \A i \in 1..Used : arr[i] = items[i]
    BY ItemsType DEF ArraysInv, ListInv
  <2>1. size = IF arr = NULL THEN 0 ELSE Len(arr)
    BY CellSeq DEF ArraysInv, ListInv
  <2>2. w * h = IF table = NULL THEN 0 ELSE Len(table)
    <3> DEFINE area == w * h
    <3>1. /\ area \in Nat /\ (table = NULL => area = 0)
          /\ table # NULL => table \in [1..area -> Cells]
      BY DEF ArraysInv, TableInv
    <3> HIDE DEF area
    <3>2. area = IF table = NULL THEN 0 ELSE Len(table)
      BY <3>1, CellSeq
    <3>. QED
      BY <3>2 DEF area
  <2>3. SizesFit
    BY <2>1, <2>2, Zenon DEF SizesFit, ArraysInv, TableInv
  <2>4. ASSUME NEW v \in Values
        PROVE  LET i == find_item(Used, v)
               IN  /\ \A j \in 1..i : items[j] # v
                   /\ i < Used => items[i + 1] = v
    <3> DEFINE i == find_item(Used, v)
    <3>1. /\ i \in 0..Used /\ \A j \in 1..i : arr[j] # v
          /\ i < Used => arr[i + 1] = v
      BY <2>t, FindsFirst
    <3> HIDE DEF i
    <3>2. \A j \in 1..i : j \in 1..Used
      BY <2>t, <3>1
    <3>3. i < Used => i + 1 \in 1..Used
      BY <2>t, <3>1
    <3>4. /\ \A j \in 1..i : items[j] # v
          /\ i < Used => items[i + 1] = v
      BY <2>t, <3>1, <3>2, <3>3
    <3>. QED
      BY <3>4 DEF i
  <2>. QED
    BY <2>t, <2>3, <2>4 DEF KeepsItems
<1>. QED
  BY <1>1, InitArraysInv, StepArraysInv, PTL DEF ArraysSpec
=============================================================================
