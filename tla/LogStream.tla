----------------------------- MODULE LogStream -----------------------------
(***************************************************************************)
(* dws::LogStream: numbers as text, and the fixed buffer that takes them.  *)
(* Text is kept where it is a number (a sequence of digits); of other text *)
(* only the length matters.                                                *)
(***************************************************************************)
EXTENDS Integers, Sequences, SequencesExt

CONSTANTS
  kSmallBuffer,      \* bytes of a line's buffer
  kMaxNumericSize    \* room asked for before a number is written

ASSUME LogStreamAssumption == kSmallBuffer \in Nat /\ kMaxNumericSize \in Nat

-----------------------------------------------------------------------------
(* convert and convertHex: the least significant digit first, then         *)
(* reversed.  The remainder of a negative number is negative; zero[lsd] is *)
(* the middle of "9876543210123456789".                                    *)

LowDigits(i, radix) ==
  LET D[n \in 0..i] == IF n < radix THEN <<n>> ELSE <<n % radix>> \o D[n \div radix]
  IN  D[i]

Magnitude(n) == IF n < 0 THEN -n ELSE n

convert(value) ==
  [negative |-> value < 0, digits |-> Reverse(LowDigits(Magnitude(value), 10))]

convertHex(value) == Reverse(LowDigits(value, 16))

TextLength(number) == Len(number.digits) + (IF number.negative THEN 1 ELSE 0)

-----------------------------------------------------------------------------
(* FixedBuffer and operator<<: the length of the line after one insertion. *)

avail(length) == kSmallBuffer - length

append(length, len) == IF avail(length) > len THEN length + len ELSE length

\* Mutant: a number is written whatever room there is.
Unguarded(length, len) == length + len

\* A number is written in place, without a test of its own length.
Numeric(length, len) == IF avail(length) >= kMaxNumericSize THEN length + len ELSE length

formatInteger(length, value) == Numeric(length, TextLength(convert(value)))

\* operator<<(const void *): "0x" and the digits.
FormatPointer(length, value) == Numeric(length, 2 + Len(convertHex(value)))

\* operator<<(double): len characters of "%.12g".
FormatDouble(length, len) == Numeric(length, len)

-----------------------------------------------------------------------------
(* formatSI and formatIEC.  A quantity is lead * base^power - less, where  *)
(* lead has four to six digits, or is the number itself if that has fewer; *)
(* what the code does repeats from one power to the next.                  *)

\* static_cast<double>: from 2^53 on doubles are 2, 4, 8 ... apart, and what is less
\* than half of that below an even one is rounded up to it.  lead counts 10^12 (SI).
HalfSpacing(lead) ==
  IF lead < 9008 THEN 0 ELSE IF lead < 18015 THEN 1 ELSE IF lead < 36029 THEN 2
  ELSE IF lead < 72058 THEN 4 ELSE IF lead < 144116 THEN 8 ELSE IF lead < 288231 THEN 16
  ELSE IF lead < 576461 THEN 32 ELSE 64

AsDouble(q) ==
  IF q.power = 4 /\ q.less <= HalfSpacing(q.lead) THEN [q EXCEPT !.less = 0] ELSE q

\* q < limit / 1000 * base^(power + 1).
Below(q, limit, base) ==
  \/ q.lead * 1000 < limit * base
  \/ q.lead * 1000 = limit * base /\ q.less > 0

\* The columns of a power: how many decimals, by the first limit above the quantity.
Decimals(q, limits, base) ==
  IF Below(q, limits[1], base) THEN 2
  ELSE IF Below(q, limits[2], base) THEN 1
  ELSE IF Below(q, limits[3], base) THEN 0
  ELSE -1                               \* one power up

\* "%.nf" of q / base^(power + 1): the digits before the point.  A half is rounded as
\* the double nearest to it lies: 9.995 is below, 99.95 above, 999.5 goes to even.
Halves == {99950, 999500}
WholePart(q, decimals, base) ==
  LET scale == CASE decimals = 2 -> 100 [] decimals = 1 -> 10 [] OTHER -> 1
      twice == 2 * q.lead * scale      \* halves of a last digit, times base
      whole == twice \div (2 * base)
      up == \/ twice % (2 * base) > base
            \/ twice % (2 * base) = base /\ q.less = 0 /\ q.lead \in Halves
  IN  (whole + (IF up THEN 1 ELSE 0)) \div scale

\* Characters of the number: digits, the point and decimals, the unit.
NumberWidth(whole, decimals, unit) ==
  Len(LowDigits(whole, 10)) + (IF decimals > 0 THEN 1 + decimals ELSE 0) + unit

\* Mutant: the second column of formatSI goes up to 100.
WideSILimits == <<9995, 100000, 999500>>

SILimits == <<9995, 99950, 999500>>

IECLimits == <<9995, 99950, 1023500>>

\* The test is made on the integer, the text on the double.
formatSI(q) ==
  IF q.power = 0 /\ q.lead - q.less < 1000
  THEN NumberWidth(q.lead - q.less, 0, 0)
  ELSE LET d == Decimals(q, SILimits, 1000)
       IN  IF d < 0 THEN NumberWidth(1, 2, 1)   \* 0.9995 to 0.999999, rounded to 1.00
           ELSE NumberWidth(WholePart(AsDouble(q), d, 1000), d, 1)

\* Test and text are on the double, which here is exact.
formatIEC(q) ==
  IF q.power = 0 /\ q.lead - q.less < 1024
  THEN NumberWidth(q.lead - q.less, 0, 0)
  ELSE LET d == Decimals(q, IECLimits, 1024)
       IN  IF d < 0 THEN NumberWidth(1, 2, 2)   \* 0.9995 to 0.999999, rounded to 1.00
           ELSE NumberWidth(WholePart(q, d, 1024), d, 2)
=============================================================================
