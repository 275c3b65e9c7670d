----------------------------- MODULE DayAmounts -----------------------------
(***************************************************************************)
(* Amounts of days.  They are stored as integers, in hundredths, and sent  *)
(* as decimal numbers, which the receiver turns back into hundredths.  To  *)
(* do so it multiplies a floating-point number by 100 and refuses the      *)
(* amount if the product is too far from an integer.  For an amount that   *)
(* really has two decimal places the distance is rounding error and        *)
(* nothing else: that of writing n/100 in binary, and that of the product. *)
(*                                                                         *)
(* With s the number of binary places of n/100, both errors are multiples  *)
(* of 2^-s.  The definitions below give them in that unit, as integers.    *)
(***************************************************************************)
EXTENDS Integers, FiniteSetsExt

CONSTANTS Precision,    \* significant bits of a number, 53 in the program
          MaxAmount,    \* largest amount PUT is sent, in hundredths
          Deductions    \* amounts that may be filed

\* 2^e <= n/d < 2^(e+1).
Exponent(n, d) == Max({e \in -7..14 : d * 2^(e + 7) <= n * 2^7})

Places(n) == Precision - 1 - Exponent(n, 100)

DoubledMod100[i \in 0..(Precision + 6)] == IF i = 0 THEN 1 ELSE (2 * DoubledMod100[i - 1]) % 100

\* 100 times the number next to n/100, less n.
ErrorOfDecimal(n) ==
  LET rest == ((n % 100) * DoubledMod100[Places(n)]) % 100
  IN  IF rest < 50 THEN -rest ELSE 100 - rest

\* The multiple of u next to x, the even one of two.
Nearest(x, u) ==
  LET q == (2 * x + u) \div (2 * u)
      tie == (2 * x + u) % (2 * u) = 0
  IN  u * (IF tie /\ q % 2 = 1 THEN q - 1 ELSE q)

\* Distance of two numbers next to n, on the side the product is.
Spacing(n) ==
  LET k == Exponent(n, 1)
  IN  2^(k - Exponent(n, 100)) \div (IF n = 2^k /\ ErrorOfDecimal(n) < 0 THEN 2 ELSE 1)

\* days * 100 less the integer it rounds to.
ErrorOfProduct(n) == Nearest(ErrorOfDecimal(n), Spacing(n))

\* nonNegativeDaysToHundredths of n/100, and daysToHundredths if n > 0: the
\* tolerance is EPSILON * 100, that is 100 * 2^(1 - Precision).
Refused(n) ==
  n # 0 /\ LET e == Exponent(n, 100)
               off == ErrorOfProduct(n)
           IN  e >= 0 /\ ~(off * 2^e \in -100..100)

(***************************************************************************)
(* The HCM balance of a pair: set by PUT, lowered by filings, and sent to  *)
(* the service by every answer that holds it.                              *)
(***************************************************************************)
VARIABLE balance

Init == balance = 0

Put(n) ==
  /\ ~Refused(n)
  /\ balance' = n

File(d) ==
  /\ d > 0 /\ ~Refused(d) /\ d <= balance
  /\ balance' = balance - d

Next ==
  \/ \E n \in 0..MaxAmount : Put(n)
  \/ \E d \in Deductions : File(d)

Spec == Init /\ [][Next]_balance

\* day-utils.ts 10 and 28: an amount is refused because it has more than two
\* decimal places.  A balance in hundredths has two; the service then takes it.
TwoDecimalsAccepted == ~Refused(balance)
=============================================================================
