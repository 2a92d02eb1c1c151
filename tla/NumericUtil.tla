---------------------------- MODULE NumericUtil ----------------------------
(***************************************************************************)
(* The functions of util.h that compute: gcd's loop, step by step, and     *)
(* lcm and the angles as operators on its two arguments.                   *)
(* Angles are integers, Circle of them make M_2PI: a grid on which the     *)
(* code's roundings (rint, fmod, division) are exact.                      *)
(***************************************************************************)
EXTENDS Integers

CONSTANTS
  Numbers,     (* the arguments                                            *)
  IntModulus,  (* gcd's remainder goes through an int: 2^32                *)
  Circle

ASSUME NumericAssumption ==
  /\ Numbers \subseteq Int
  /\ IntModulus \in Nat \ {0}
  /\ Circle \in Nat \ {0} /\ Circle % 4 = 0

VARIABLES
  a, b,  (* what gcd was called with                                       *)
  x, y   (* its variables                                                  *)

numbers == <<a, b, x, y>>

Abs(n) == IF n < 0 THEN -n ELSE n

(* C's / and %, which round towards 0.                                     *)
Quot(n, d) == IF (n < 0) = (d < 0) THEN Abs(n) \div Abs(d) ELSE -(Abs(n) \div Abs(d))
Rem(n, d) == n - d * Quot(n, d)

(* int w = ..., with values of IntModulus many.                            *)
ToInt(n) == ((n + (IntModulus \div 2)) % IntModulus) - (IntModulus \div 2)

InitNumbers ==
  /\ a \in Numbers /\ b \in Numbers
  /\ x = a /\ y = b

(* Mutant of the next one: x is assigned before the remainder is taken.    *)
GcdAssignsFirst ==
  /\ y # 0
  /\ x' = y
  /\ y' = ToInt(Rem(x', y))
  /\ UNCHANGED <<a, b>>

GcdStep ==
  /\ y # 0
  /\ x' = y
  /\ y' = ToInt(Rem(x, y))
  /\ UNCHANGED <<a, b>>

GcdReturns == y = 0

NumbersSpec == InitNumbers /\ [][GcdStep]_numbers

lcm(n, m, d) == Quot(n, d) * Quot(m, d)

-----------------------------------------------------------------------------
(* rint(n / d), halves to the even neighbour.                              *)
Rint(n, d) ==
  LET q == (2 * n + d) \div (2 * d)
  IN  IF (2 * n + d) % (2 * d) = 0 /\ q % 2 = 1 THEN q - 1 ELSE q

angle_mod(angle) == angle - Circle * Rint(angle, Circle)

angle_pos(angle) == Rem(angle + Circle, Circle)

angle_dist(n, m) == Abs(angle_mod(n - m))

abs_bound(n, range) ==
  IF n < -range THEN -range ELSE IF n > range THEN range ELSE n

(* Mutant of the next one: the sum is not normalized.                      *)
BoundUnnormalized(bound_angle, tolerance, angle) ==
  abs_bound(angle_mod(angle - bound_angle), tolerance) + bound_angle

abs_bound_angle(bound_angle, tolerance, angle) ==
  angle_mod(abs_bound(angle_mod(angle - bound_angle), tolerance) + bound_angle)

(* Mutant of the next one: left is not moved beyond right.                 *)
AverageUnmoved(left, right) ==
  IF left + right > Circle THEN left + right - 2 * Circle ELSE left + right

(* In halves of a unit, so that (left + right)/2 is exact.                 *)
avg_angle2(left, right) ==
  LET sum == IF left < right THEN left + Circle + right ELSE left + right
  IN  IF sum > Circle THEN sum - 2 * Circle ELSE sum
-----------------------------------------------------------------------------
Divides(d, n) == \E q \in -Abs(n)..Abs(n) : q * d = n
CommonDivisor(d) == Divides(d, a) /\ Divides(d, b)
IsInt(n) == ToInt(n) = n

(* gcd returns the greatest common divisor but for its sign, also of       *)
(* negative numbers and of 0, if the second argument fits an int: no       *)
(* remainder is cut then, though the first may be wider.  Nothing is said  *)
(* of a second argument that does not fit.                                 *)
GcdIsGreatest ==
  (GcdReturns /\ IsInt(b)) =>
    /\ CommonDivisor(x)
    /\ \A d \in 1..(Abs(a) + Abs(b)) : CommonDivisor(d) => d <= Abs(x)

SameAngle(n, m) == Divides(Circle, n - m)

(* The angle functions return the same direction, within half a turn and,  *)
(* angle_pos of no less than minus a turn, within [0,2*PI]; an angle that  *)
(* is bounded is within the tolerance, also across the turn, and one that  *)
(* was within it is kept.                                                  *)
AnglesNormalized ==
  /\ 2 * Abs(angle_mod(a)) <= Circle /\ SameAngle(angle_mod(a), a)
  /\ SameAngle(angle_pos(a), a)
  /\ a >= -Circle => angle_pos(a) \in 0..Circle
  /\ \A tolerance \in 0..((Circle \div 2) - 1) :
       LET r == abs_bound_angle(a, tolerance, b)
       IN  /\ angle_dist(r, a) <= tolerance
           /\ angle_dist(a, b) <= tolerance => SameAngle(r, b)
           /\ 2 * Abs(r) <= Circle

(* "the normalized angle halfway between these two": on the way from right *)
(* to left counterclockwise, and within half a turn, for any two angles    *)
(* that angle_mod returns, except that it may return both ends of its      *)
(* range, M_PI and -M_PI: from the one to the other the code goes round    *)
(* and returns the opposite direction.                                     *)
AverageHalfway ==
  LET left == angle_mod(a)
      right == angle_mod(b)
      r == avg_angle2(left, right)
  IN  /\ Abs(r) <= Circle
      /\ 2 * ((r - 2 * right) % (2 * Circle)) = (2 * (left - right)) % (2 * Circle)
           <=> left - right < Circle
-----------------------------------------------------------------------------
(* Claims of the source's comments that the code does not keep.            *)

(* lcm "returns least common multiple of x,y": of positive numbers that    *)
(* fit an int a positive common multiple, and none is less.                *)
LcmIsLeast ==
  (GcdReturns /\ IsInt(b) /\ a > 0 /\ b > 0) =>
    LET l == lcm(a, b, x)
        Common(n) == Divides(a, n) /\ Divides(b, n)
    IN  l > 0 /\ Common(l) /\ \A n \in 1..(l - 1) : ~Common(n)
=============================================================================
