---------------------------- MODULE FragmentCount ----------------------------
(***************************************************************************)
(* DTXMessageTransmitter::FragmentsForLength as it computes: the length is  *)
(* converted to a float, divided by a float, and the quotient rounded up.   *)
(* A float has log2(Mantissa) bits and is rounded to the nearest, to the    *)
(* even one of two.  DTXMessageTransmitter takes the count for exact.       *)
(***************************************************************************)
EXTENDS Integers

CONSTANT Mantissa  \* 2^24 in the code

CeilDiv(a, b) == (a + b - 1) \div b

\* a / b as the nearest integer, the even one of two.
Nearest(a, b) ==
  LET down == a \div b
      twice == 2 * (a % b)
  IN  IF twice < b \/ (twice = b /\ down % 2 = 0) THEN down ELSE down + 1

\* The distance of the floats around a / b is a unit, or 1 / unit.
MaxUnit == 2^20
Units == {2^k : k \in 0..20}
Fits(a, b) == a < Mantissa * b

\* An integer that has become a float.
Coarse(n) == CHOOSE u \in Units : Fits(n, u) /\ \A v \in Units : v < u => ~Fits(n, v)
FloatOf(n) == Nearest(n, Coarse(n)) * Coarse(n)

\* The float a / b, rounded up.
Fine(a, b) == CHOOSE u \in Units : Fits(a * u, b) /\ (u = MaxUnit \/ ~Fits(a * u * 2, b))
CeilOfQuotient(a, b) ==
  IF Fits(a, b)
  THEN CeilDiv(Nearest(a * Fine(a, b), b), Fine(a, b))
  ELSE LET unit == CHOOSE u \in Units : Fits(a, b * u) /\ \A v \in Units : v < u => ~Fits(a, b * v)
       IN  Nearest(a, b * unit) * unit

\* The count of fragments of f bytes for a message of n bytes.
FragmentsForLength(n, f) == IF n = 0 THEN 0 ELSE CeilOfQuotient(FloatOf(n), f)

=============================================================================
