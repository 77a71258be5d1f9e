----------------------------- MODULE DecimalMath -----------------------------
(***************************************************************************)
(* What Python's decimal module does with the numbers this program gives   *)
(* it: every result is rounded half to even, a quotient and a shifted      *)
(* number alike.                                                           *)
(***************************************************************************)
EXTENDS Integers

(* A quotient rounded to a whole number of the units kept. *)
RoundDiv(n, d) ==
  LET q == n \div d
      r == n % d
  IN  IF 2 * r > d \/ (2 * r = d /\ q % 2 = 1) THEN q + 1 ELSE q

Pow10[k \in Nat] == IF k = 0 THEN 1 ELSE 10 * Pow10[k - 1]

DigitCount[n \in Nat] == IF n < 10 THEN 1 ELSE 1 + DigitCount[n \div 10]

(* How many digits of n do not fit into a coefficient of prec digits. *)
Surplus(n, prec) == IF DigitCount[n] > prec THEN DigitCount[n] - prec ELSE 0

Abs(n) == IF n < 0 THEN -n ELSE n

(* n with its coefficient rounded to prec digits. *)
Rounded(n, prec) ==
  LET unit == Pow10[Surplus(Abs(n), prec)]
  IN  RoundDiv(n, unit) * unit

(* n / 10^k as scaleb() leaves it, in units of 10^-k: rounded to prec      *)
(* digits, and to the places of the smallest number there is.              *)
Shifted(n, k, prec, places) ==
  LET surplus == Surplus(Abs(n), prec)
      unit == Pow10[IF k - places > surplus THEN k - places ELSE surplus]
  IN  RoundDiv(n, unit) * unit

(* n / d, rounded once: to prec digits and to a whole number. *)
Quotient(n, d, prec) ==
  LET unit == Pow10[Surplus(Abs(n) \div d, prec)]
  IN  RoundDiv(n, d * unit) * unit

(* The decimal n / 10^k, written without trailing zeros. *)
Trimmed(n, k) ==
  LET zeros == CHOOSE z \in 0..k :
                 n % Pow10[z] = 0 /\ (z = k \/ n % Pow10[z + 1] # 0)
  IN  [n |-> n \div Pow10[zeros], k |-> k - zeros]
===============================================================================
