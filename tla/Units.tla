------------------------------- MODULE Units -------------------------------
(***************************************************************************)
(* units.rs: numbers with a unit suffix, read from the command line and    *)
(* written in the header of the run; and u64 arithmetic as the code has    *)
(* it: checked, saturating, or unchecked, which wraps in a release build.  *)
(*                                                                         *)
(* An argument is the record of what split_unit makes of it: its leading   *)
(* digits as a number, None if there are none, and the lower-case suffix.  *)
(***************************************************************************)
EXTENDS Integers, SequencesExt

CONSTANTS
  U64Max,       \* 2^64 - 1 in the code
  F64Exact,     \* 2^53 in the code: every integer up to it is an f64
  MetricScale   \* 1000 in the code: the scale of k, M, G, T and P

ASSUME U64MaxAssumption      == U64Max \in Nat
ASSUME MetricScaleAssumption == MetricScale \in Nat \ {0} /\ MetricScale^5 <= U64Max

\* An exact duration can be rounded up to a minute, and others are shown in
\* minutes; the default of 10 s is exact.
ASSUME F64ExactAssumption == F64Exact \in 51 .. U64Max - 30

\* Option::None
None == -1

CheckedMul(a, b)    == IF a > U64Max \div b THEN None ELSE a * b
SaturatingMul(a, b) == IF a > U64Max \div b THEN U64Max ELSE a * b
WrappingMul(a, b)   == (a * b) % (U64Max + 1)

\* The units an option accepts, with the factor each stands for.
MetricFactor ==
  LET k == MetricScale
      m == k * MetricScale
      g == m * MetricScale
      t == g * MetricScale
  IN  [u \in {"", "k", "m", "g", "t", "p"} |->
         CASE u = "k" -> k [] u = "m" -> m [] u = "g" -> g [] u = "t" -> t
           [] u = "p" -> t * MetricScale [] OTHER -> 1]
TimeFactor   ==
  [u \in {"", "s", "m", "h"} |-> CASE u = "m" -> 60 [] u = "h" -> 3600 [] OTHER -> 1]

\* scan_units and scan_time: None for no digits, for digits or a product that
\* do not fit in a u64, and for an unknown unit.
Scan(arg, factor) ==
  IF arg.digits \in 0 .. U64Max /\ arg.unit \in DOMAIN factor
    THEN CheckedMul(arg.digits, factor[arg.unit]) ELSE None

\* The loop of format_units: how often n is promoted to the next unit, once
\* at 85% of it.  The last unit is never reached.
Promotions(n, scale, units) ==
  Min({ i \in 0 .. Len(units) : i + 1 >= Len(units) \/ 100 * n < 85 * scale ^ (i + 1) })

\* Division as {:.0} rounds: to the nearest, a half to the even neighbour.
\* Up to 2^53 the f64 quotient by 60 lies on the same side of a half.
RoundedHalfEven_Truncates(n, d) == n \div d

RoundedHalfEven(n, d) ==
  LET q == n \div d
      r == n % d
  IN  IF 2 * r > d \/ (2 * r = d /\ q % 2 = 1) THEN q + 1 ELSE q

\* format_time_s: what it may write.  A duration beyond F64Exact is converted
\* with an error (as f64) that is not modelled, only that it is in minutes.
FormatTimeS(n) ==
  LET units == << "m", "h" >>
      i     == Promotions(n, 60, units)
  IN  IF n > F64Exact THEN [digits : Nat, unit : {"m"}]
      ELSE { [ digits |-> RoundedHalfEven(n, 60 ^ i),
               unit   |-> IF i = 0 THEN "s" ELSE units[i] ] }
=============================================================================
