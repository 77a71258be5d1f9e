---------------------------- MODULE LotLedger_costs ----------------------------
(***************************************************************************)
(* Proofs about what the tax-lot engine says things cost, for any number   *)
(* of digits: no cost appears or is lost beyond the roundings of sums,     *)
(* products and quotients; a pool's average stays among the prices paid,   *)
(* but for three roundings of each merge; and HIFO gives every sell the    *)
(* units that cost most.                                                   *)
(***************************************************************************)
EXTENDS LotLedger_proofs

(***************************************************************************)
(* Sums of money under rounding                                            *)
(***************************************************************************)

LEMMA PartsType ==
  /\ Parts \in Nat \ {0} /\ Digits - 1 \in Nat /\ Digits \in Nat \ {0}
  /\ Scale \in Nat \ {0} /\ MaxTrades \in Nat
  /\ 5 * MaxTrades + 2 * MaxTrades * MaxTrades <= Parts
<1>1. Digits - 1 \in Nat /\ Digits \in Nat \ {0} /\ Scale \in Nat \ {0} /\ MaxTrades \in Nat
  BY BoundsAssumption
<1>2. Pow10[Digits - 1] \in Nat /\ Pow10[Digits - 1] > 0
  BY <1>1, PowersOfTen
<1> QED
  BY <1>1, <1>2, RoundingsAssumption DEF Parts

(* Each of the two roundings is off by one part in 2 * Parts at most. *)
LEMMA KeptBound ==
  ASSUME NEW f \in Nat
  PROVE  \E y \in Nat : /\ y = Kept(f)
                        /\ 2 * Parts * (y - f) <= f /\ 2 * Parts * (f - y) <= f
<1>1. f \in Int /\ Digits \in Nat \ {0}
  BY PartsType
<1>2. PICK L \in Nat : L = Parts /\ L = Pow10[Digits - 1]
  BY PartsType DEF Parts
<1>3. PICK y \in Int : /\ y = Rounded(f, Digits) /\ (f >= 0 => y >= 0)
                       /\ 2 * L * (y - f) <= Abs(f) /\ 2 * L * (f - y) <= Abs(f)
  BY <1>1, <1>2, RoundedBound
<1>4. Abs(f) = f
  BY DEF Abs
<1> QED
  BY <1>2, <1>3, <1>4 DEF Kept

LEMMA UnitCostBound ==
  ASSUME NEW f \in Nat, NEW d \in Nat \ {0}
  PROVE  \E y \in Nat : /\ y = UnitCost(f, d)
                        /\ 2 * Parts * (y * d - f) <= f + Parts * d
                        /\ 2 * Parts * (f - y * d) <= f + Parts * d
<1>1. f \in Int /\ Digits \in Nat \ {0}
  BY PartsType
<1>2. PICK L \in Nat : L = Parts /\ L = Pow10[Digits - 1]
  BY PartsType DEF Parts
<1>3. PICK y \in Int : /\ y = Quotient(f, d, Digits) /\ (f >= 0 => y >= 0)
                       /\ 2 * L * (y * d - f) <= Abs(f) + L * d
                       /\ 2 * L * (f - y * d) <= Abs(f) + L * d
  BY <1>1, <1>2, QuotientBound
<1>4. Abs(f) = f
  BY DEF Abs
<1> QED
  BY <1>2, <1>3, <1>4 DEF UnitCost

(* What accounts for a sum in few enough roundings is not twice as large.  *)
LEMMA AccountsBound ==
  ASSUME NEW w \in Nat, NEW x \in Nat, NEW g \in Nat, NEW n \in Nat, n <= Parts,
         Accounts(w, x, g, n)
  PROVE  w <= 2 * x + g
<1>1. PICK L \in Nat \ {0} : L = Parts
  BY PartsType
<1>2. PICK B \in Nat : B = 2 * x + g
  OBVIOUS
<1>3. 2 * L * (w - x) <= L * g + n * B
  BY <1>1, <1>2 DEF Accounts, NoMore, Slack
<1>4. n * B <= L * B
  <2>1. (L - n) * B >= 0
    BY <1>1
  <2> QED
    BY <2>1
<1>5. L * g + L * B + 2 * L * x = 2 * L * B
  <2>1. L * (g + B + 2 * x) = 2 * (L * B)
    BY <1>2
  <2> QED
    BY <2>1
<1>6. 2 * L * w <= 2 * L * B
  BY <1>3, <1>4, <1>5
<1>7. w <= B
  <2> SUFFICES ASSUME w - B >= 1 PROVE FALSE
    OBVIOUS
  <2>1. L * (w - B) >= L
    OBVIOUS
  <2> QED
    BY <1>6, <2>1
<1> QED
  BY <1>2, <1>7

(* Money that is paid and kept accounts for itself. *)
LEMMA Pays ==
  ASSUME NEW w \in Int, NEW x \in Int, NEW g \in Int, NEW n \in Nat, NEW c \in Nat,
         Accounts(w, x, g, n)
  PROVE  Accounts(w + c, x + c, g, n)
<1>1. PICK L \in Nat : L = Parts
  BY PartsType
<1>2. Slack(x + c, g, n) = Slack(x, g, n) + 2 * (n * c) /\ Slack(x, g, n) \in Int
  BY <1>1 DEF Slack
<1>3. n * c >= 0
  OBVIOUS
<1>4. (w + c) - (x + c) = w - x /\ (x + c) - (w + c) = x - w
  OBVIOUS
<1> QED
  BY <1>1, <1>2, <1>3, <1>4 DEF Accounts, NoMore, NoLess

(* To count more roundings than there were does no harm. *)
LEMMA Loosens ==
  ASSUME NEW w \in Int, NEW x \in Nat, NEW g \in Nat, NEW n \in Nat, NEW m \in Nat, n <= m,
         Accounts(w, x, g, n)
  PROVE  Accounts(w, x, g, m)
<1>1. PICK L \in Nat : L = Parts
  BY PartsType
<1>2. PICK B \in Nat : B = 2 * x + g
  OBVIOUS
<1>3. (m - n) * B >= 0
  OBVIOUS
<1>4. Slack(x, g, n) <= Slack(x, g, m)
  BY <1>1, <1>2, <1>3 DEF Slack
<1>5. Slack(x, g, n) \in Int /\ Slack(x, g, m) \in Int
  BY <1>1, <1>2 DEF Slack
<1> QED
  BY <1>1, <1>4, <1>5 DEF Accounts, NoMore, NoLess

(* Rounding a part of the money counts as one rounding. *)
LEMMA Rounds ==
  ASSUME NEW w \in Nat, NEW x \in Nat, NEW g \in Nat, NEW n \in Nat, n < Parts,
         Accounts(w, x, g, n), NEW f \in Nat, f <= w
  PROVE  \E y \in Nat : /\ y = Kept(f) /\ w - f + y \in Nat
                        /\ Accounts(w - f + y, x, g, n + 1)
<1>1. PICK L \in Nat \ {0} : L = Parts
  BY PartsType
<1>2. PICK B \in Nat : B = 2 * x + g
  OBVIOUS
<1>3. w <= B
  BY <1>1, <1>2, AccountsBound
<1>4. PICK y \in Nat : y = Kept(f) /\ 2 * L * (y - f) <= f /\ 2 * L * (f - y) <= f
  BY <1>1, KeptBound
<1>5. PICK v \in Nat : v = w - f + y
  OBVIOUS
<1>6. PICK s \in Int : s = Slack(x, g, n)
  BY <1>1 DEF Slack
<1>7. Slack(x, g, n + 1) = s + B
  BY <1>1, <1>2, <1>6 DEF Slack
<1>8. 2 * L * (w - x) <= s /\ 2 * L * (x - w) <= s
  BY <1>1, <1>6 DEF Accounts, NoMore, NoLess
<1>9. 2 * L * (v - x) <= s + B /\ 2 * L * (x - v) <= s + B
  BY <1>3, <1>4, <1>5, <1>8
<1> QED
  BY <1>1, <1>4, <1>5, <1>7, <1>9 DEF Accounts, NoMore, NoLess

(* Replacing a sum of money by a unit cost, too, if the amount it is the   *)
(* cost of is allowed for.                                                 *)
LEMMA Averages ==
  ASSUME NEW w \in Nat, NEW x \in Nat, NEW g \in Nat, NEW n \in Nat, n < Parts,
         Accounts(w, x, g, n), NEW f \in Nat, f <= w, NEW d \in Nat \ {0},
         NEW e \in Nat, d <= e
  PROVE  \E y \in Nat : /\ y = UnitCost(f, d) /\ w - f + y * d \in Nat
                        /\ Accounts(w - f + y * d, x, g + e, n + 1)
<1>1. PICK L \in Nat \ {0} : L = Parts
  BY PartsType
<1>2. PICK B \in Nat : B = 2 * x + g
  OBVIOUS
<1>3. w <= B
  BY <1>1, <1>2, AccountsBound
<1>4. PICK y \in Nat : /\ y = UnitCost(f, d)
                       /\ 2 * L * (y * d - f) <= f + L * d
                       /\ 2 * L * (f - y * d) <= f + L * d
  BY <1>1, UnitCostBound
<1>5. PICK z \in Nat : z = y * d
  OBVIOUS
<1>6. PICK v \in Nat : v = w - f + z
  BY <1>5
<1>7. PICK s \in Int : s = Slack(x, g, n)
  BY <1>1 DEF Slack
<1>8. Slack(x, g + e, n + 1) >= s + B + L * e
  <2>1. Slack(x, g + e, n + 1) = s + B + L * e + (n + 1) * e
    BY <1>1, <1>2, <1>7 DEF Slack
  <2>2. (n + 1) * e >= 0 /\ L * e >= 0
    OBVIOUS
  <2> QED
    BY <2>1, <2>2
<1>9. 2 * L * (w - x) <= s /\ 2 * L * (x - w) <= s
  BY <1>1, <1>7 DEF Accounts, NoMore, NoLess
<1>10. L * d <= L * e
  <2>1. L * (e - d) >= 0
    OBVIOUS
  <2> QED
    BY <2>1
<1>11. 2 * L * (v - x) <= s + B + L * e /\ 2 * L * (x - v) <= s + B + L * e
  BY <1>3, <1>4, <1>5, <1>6, <1>9, <1>10
<1>12. Slack(x, g + e, n + 1) \in Int
  BY <1>1 DEF Slack
<1> QED
  BY <1>1, <1>4, <1>5, <1>6, <1>8, <1>11, <1>12 DEF Accounts, NoMore, NoLess

(* The average of a pool and what it says of its bounds: u is a price that *)
(* bounds it after n purchases, for the three roundings of every merge.    *)
High(c, u, n) == 2 * Parts * c <= (Parts + 3 * n) * (2 * u + n)
Low(c, u, n) == 2 * Parts * c >= (Parts - 3 * n) * (2 * u) - Parts * n

(* One more rounding of a sum y that a multiple m bounds. *)
LEMMA RoundedUp ==
  ASSUME NEW L \in Nat \ {0}, NEW j \in Nat, j <= L, NEW m \in Nat,
         NEW y \in Nat, 2 * L * y <= (L + j) * m, NEW z \in Nat, 2 * L * (z - y) <= y
  PROVE  2 * L * z <= (L + (j + 1)) * m
<1>1. (L - j) * m >= 0
  OBVIOUS
<1>2. 2 * L * y <= 2 * L * m
  BY <1>1
<1>3. y <= m
  <2> SUFFICES ASSUME y - m >= 1 PROVE FALSE
    OBVIOUS
  <2>1. L * (y - m) >= L
    OBVIOUS
  <2> QED
    BY <1>2, <2>1
<1> QED
  BY <1>3

LEMMA RoundedDown ==
  ASSUME NEW L \in Nat \ {0}, NEW j \in Nat, NEW m \in Nat, NEW b \in Nat,
         NEW y \in Nat, 2 * L * y >= (L - j) * m - b, NEW z \in Nat, 2 * L * (y - z) <= y
  PROVE  2 * L * z >= (L - (j + 1)) * m - b
<1>1. CASE y <= m
  BY <1>1
<1>2. CASE y > m
  <2>1. 2 * L * z >= 2 * L * y - y
    OBVIOUS
  <2>2. (2 * L - 1) * (y - m) >= 0
    BY <1>2
  <2>3. (L + j) * m >= 0
    OBVIOUS
  <2> QED
    BY <2>1, <2>2, <2>3
<1> QED
  BY <1>1, <1>2

(* Merging a purchase into a pool keeps its average below the dearer of    *)
(* the two, and above the cheaper (lots.py:423-428).                       *)
LEMMA MergeHigh ==
  ASSUME NEW h \in Nat \ {0}, NEW n \in Nat \ {0}, NEW c \in Nat, NEW C \in Nat,
         NEW u \in Nat, NEW v \in Nat, NEW w \in Nat, NEW k \in Nat \ {0}, 3 * k + 2 <= Parts,
         High(c, u, k), v = UnitCost(C, n), u <= w, v <= w
  PROVE  High(UnitCost(Kept(Kept(h * c) + C), h + n), w, k + 1)
<1>1. PICK L \in Nat \ {0} : L = Parts
  BY PartsType
<1>2. PICK V \in Nat, j \in Nat : V = 2 * w + k /\ j = 3 * k /\ j + 2 <= L
  BY <1>1
<1>3. PICK a \in Nat : a = h * c
  OBVIOUS
<1>4. 2 * L * a <= (L + j) * (h * V)
  <2>1. 2 * L * c <= (L + j) * (2 * u + k)
    BY <1>1, <1>2 DEF High
  <2>2. (L + j) * (V - (2 * u + k)) >= 0
    BY <1>2
  <2>3. PICK r \in Int : r = (L + j) * V - 2 * L * c /\ r >= 0
    BY <2>1, <2>2
  <2>4. h * r >= 0
    BY <2>3
  <2>5. h * ((L + j) * V - 2 * L * c) = (L + j) * (h * V) - 2 * L * (h * c)
    OBVIOUS
  <2> QED
    BY <1>3, <2>3, <2>4, <2>5
<1>5. PICK p \in Nat : p = Kept(a) /\ 2 * L * (p - a) <= a
  BY <1>1, KeptBound
<1>6. PICK hV \in Nat, nV \in Nat : hV = h * V /\ nV = n * V
  OBVIOUS
<1>7. 2 * L * p <= (L + (j + 1)) * hV
  BY <1>2, <1>4, <1>5, <1>6, RoundedUp
<1>8. 2 * L * C <= (L + (j + 1)) * nV
  <2>1. PICK vn \in Nat : vn = v * n /\ 2 * L * (C - vn) <= C + L * n
    <3>1. PICK y \in Nat : y = UnitCost(C, n) /\ 2 * L * (C - y * n) <= C + L * n
      BY <1>1, UnitCostBound
    <3> QED
      BY <3>1
  <2>2. 2 * vn + n <= nV
    <3>1. n * (V - (2 * v + 1)) >= 0
      BY <1>2
    <3> QED
      BY <1>6, <2>1, <3>1
  <2>3. 2 * L * C - C <= L * nV
    <3>1. L * (nV - (2 * vn + n)) >= 0
      BY <2>2
    <3> QED
      BY <2>1, <3>1
  <2>4. C <= nV
    <3> SUFFICES ASSUME C - nV >= 1 PROVE FALSE
      OBVIOUS
    <3>1. (L - 1) * C >= 0 /\ L * (C - nV) >= L
      OBVIOUS
    <3> QED
      BY <2>3, <3>1
  <2>5. j * nV >= 0
    OBVIOUS
  <2> QED
    BY <2>3, <2>4, <2>5
<1>9. PICK M \in Nat : M = hV + nV
  OBVIOUS
<1>10. PICK s \in Nat : s = Kept(p + C) /\ 2 * L * (s - (p + C)) <= p + C
  BY <1>1, KeptBound
<1>11. 2 * L * s <= (L + ((j + 1) + 1)) * M
  <2>1. PICK y \in Nat : y = p + C /\ 2 * L * y <= (L + (j + 1)) * M
    BY <1>7, <1>8, <1>9
  <2> QED
    BY <1>2, <1>10, <2>1, RoundedUp
<1>12. PICK d \in Nat \ {0} : d = h + n
  OBVIOUS
<1>13. PICK R \in Nat : R = UnitCost(s, d) /\ 2 * L * (R * d - s) <= s + L * d
  BY <1>1, UnitCostBound
<1>14. R = UnitCost(Kept(Kept(h * c) + C), h + n)
  BY <1>3, <1>5, <1>10, <1>12, <1>13
<1>15. M = d * V
  BY <1>6, <1>9, <1>12
<1>16. s <= M
  <2>1. (L - (j + 2)) * M >= 0
    BY <1>2
  <2>2. 2 * L * s <= 2 * L * M
    BY <1>11, <2>1
  <2> SUFFICES ASSUME s - M >= 1 PROVE FALSE
    OBVIOUS
  <2>3. L * (s - M) >= L
    OBVIOUS
  <2> QED
    BY <2>2, <2>3
<1>17. 2 * L * (R * d) <= (L + (j + 3)) * M + L * d
  BY <1>11, <1>13, <1>16
<1>18. 2 * L * R <= (L + (j + 3)) * V + L
  <2>0. PICK x \in Int, y \in Int : x = 2 * L * R /\ y = (L + (j + 3)) * V
    OBVIOUS
  <2>1. PICK r \in Int : r = x - y - L
    OBVIOUS
  <2>2. d * r = 2 * L * (R * d) - (L + (j + 3)) * (d * V) - L * d
    BY <2>0, <2>1
  <2>3. d * r <= 0
    BY <1>15, <1>17, <2>2
  <2>4. r <= 0
    <3> SUFFICES ASSUME r >= 1 PROVE FALSE
      BY <2>1
    <3>1. d * r >= d
      OBVIOUS
    <3> QED
      BY <2>3, <3>1
  <2> QED
    BY <2>0, <2>1, <2>4
<1>19. (L + 3 * (k + 1)) * (2 * w + (k + 1)) >= (L + (j + 3)) * V + L
  BY <1>2
<1> QED
  BY <1>1, <1>14, <1>18, <1>19 DEF High

LEMMA MergeLow ==
  ASSUME NEW h \in Nat \ {0}, NEW n \in Nat \ {0}, NEW c \in Nat, NEW C \in Nat,
         NEW u \in Nat, NEW v \in Nat, NEW w \in Nat, NEW k \in Nat \ {0},
         3 * k + 2 <= Parts, Low(c, u, k), v = UnitCost(C, n), w <= u, w <= v
  PROVE  Low(UnitCost(Kept(Kept(h * c) + C), h + n), w, k + 1)
<1>1. PICK L \in Nat \ {0} : L = Parts
  BY PartsType
<1>2. PICK V \in Nat, j \in Nat, b \in Nat : V = 2 * w /\ j = 3 * k /\ j + 2 <= L /\ b = L * k
  BY <1>1
<1>3. PICK a \in Nat : a = h * c
  OBVIOUS
<1>4. PICK hV \in Nat, nV \in Nat, hb \in Nat, nb \in Nat :
        hV = h * V /\ nV = n * V /\ hb = h * b /\ nb = n * b
  OBVIOUS
<1>5. 2 * L * a >= (L - j) * hV - hb
  <2>1. 2 * L * c >= (L - j) * (2 * u) - b
    BY <1>1, <1>2 DEF Low
  <2>2. (L - j) * (2 * u - V) >= 0
    BY <1>2
  <2>3. PICK r \in Int : r = 2 * L * c - (L - j) * V + b /\ r >= 0
    BY <2>1, <2>2
  <2>4. h * r >= 0
    BY <2>3
  <2>5. h * (2 * L * c - (L - j) * V + b) = 2 * L * (h * c) - (L - j) * (h * V) + h * b
    OBVIOUS
  <2> QED
    BY <1>3, <1>4, <2>3, <2>4, <2>5
<1>6. PICK p \in Nat : p = Kept(a) /\ 2 * L * (a - p) <= a
  BY <1>1, KeptBound
<1>7. 2 * L * p >= (L - (j + 1)) * hV - hb
  BY <1>5, <1>6, RoundedDown
<1>8. 2 * L * C >= (L - (j + 1)) * nV - nb
  <2>1. PICK vn \in Nat : vn = v * n /\ 2 * L * (vn - C) <= C + L * n
    <3>1. PICK y \in Nat : y = UnitCost(C, n) /\ 2 * L * (y * n - C) <= C + L * n
      BY <1>1, UnitCostBound
    <3> QED
      BY <3>1
  <2>2. 2 * vn >= nV
    <3>1. n * (2 * v - V) >= 0
      BY <1>2
    <3> QED
      BY <1>4, <2>1, <3>1
  <2>3. L * n <= nb
    <3>1. (L * n) * (k - 1) >= 0
      OBVIOUS
    <3>2. nb = (L * n) * k
      BY <1>2, <1>4
    <3> QED
      BY <3>1, <3>2
  <2>4. 2 * L * C + C >= L * nV - nb
    <3>1. L * (2 * vn - nV) >= 0
      BY <2>2
    <3> QED
      BY <2>1, <2>3, <3>1
  <2>5. CASE C <= nV
    <3>1. j * nV >= 0
      OBVIOUS
    <3> QED
      BY <2>4, <2>5, <3>1
  <2>6. CASE C > nV
    <3>1. L * (C - nV) >= 0 /\ L * C >= 0 /\ (j + 1) * nV >= 0
      BY <2>6
    <3> QED
      BY <3>1
  <2> QED
    BY <2>5, <2>6
<1>9. PICK M \in Nat, e \in Nat : M = hV + nV /\ e = hb + nb
  OBVIOUS
<1>10. PICK s \in Nat : s = Kept(p + C) /\ 2 * L * (p + C - s) <= p + C
  BY <1>1, KeptBound
<1>11. 2 * L * s >= (L - ((j + 1) + 1)) * M - e
  <2>1. PICK y \in Nat : y = p + C /\ 2 * L * y >= (L - (j + 1)) * M - e
    BY <1>7, <1>8, <1>9
  <2> QED
    BY <1>10, <2>1, RoundedDown
<1>12. PICK d \in Nat \ {0} : d = h + n
  OBVIOUS
<1>13. PICK R \in Nat : R = UnitCost(s, d) /\ 2 * L * (s - R * d) <= s + L * d
  BY <1>1, UnitCostBound
<1>14. R = UnitCost(Kept(Kept(h * c) + C), h + n)
  BY <1>3, <1>6, <1>10, <1>12, <1>13
<1>15. M = d * V /\ e = d * b
  BY <1>4, <1>9, <1>12
<1>16. 2 * L * (R * d) >= (L - (j + 3)) * M - e - L * d
  <2>1. CASE s <= M
    BY <1>11, <1>13, <2>1
  <2>2. CASE s > M
    <3>1. (2 * L - 1) * (s - M) >= 0 /\ (L + j + 2) * M >= 0
      BY <2>2
    <3>2. 2 * L * (R * d) >= (2 * L - 1) * s - L * d
      BY <1>13
    <3> QED
      BY <3>1, <3>2
  <2> QED
    BY <2>1, <2>2
<1>17. 2 * L * R >= (L - (j + 3)) * V - b - L
  <2>1. PICK r \in Int : r = 2 * L * R - (L - (j + 3)) * V + b + L
    OBVIOUS
  <2>2. d * r = 2 * L * (R * d) - (L - (j + 3)) * (d * V) + d * b + L * d
    BY <2>1
  <2>3. d * r >= 0
    BY <1>15, <1>16, <2>2
  <2>4. r >= 0
    <3> SUFFICES ASSUME r <= -1 PROVE FALSE
      BY <2>1
    <3>1. d * r <= -d
      OBVIOUS
    <3> QED
      BY <2>3, <3>1
  <2> QED
    BY <2>1, <2>4
<1>18. L * (k + 1) = b + L
  BY <1>2
<1> QED
  BY <1>1, <1>2, <1>14, <1>17, <1>18 DEF Low

(* A purchase bounds itself. *)
LEMMA OwnPrice ==
  ASSUME NEW u \in Nat, NEW n \in Nat
  PROVE  High(u, u, n) /\ Low(u, u, n)
<1>1. PICK L \in Nat \ {0} : L = Parts
  BY PartsType
<1>2. n * u >= 0 /\ L * n >= 0 /\ n * n >= 0
  BY <1>1
<1>3. (L + 3 * n) * (2 * u + n) = 2 * L * u + L * n + 6 * (n * u) + 3 * (n * n)
  OBVIOUS
<1>4. (L - 3 * n) * (2 * u) - L * n = 2 * L * u - 6 * (n * u) - L * n
  OBVIOUS
<1> QED
  BY <1>1, <1>2, <1>3, <1>4 DEF High, Low

(* In the terms of the property. *)
LEMMA HighAndLow ==
  ASSUME NEW c \in Nat, NEW u \in Nat, NEW n \in Nat
  PROVE  /\ High(c, u, n) => NoMore(c, u, n, 3 * n)
         /\ Low(c, u, n) => NoLess(c, u, n, 3 * n)
<1>1. PICK L \in Nat \ {0} : L = Parts
  BY PartsType
<1>2. Slack(u, n, 3 * n) = L * n + 6 * (n * u) + 3 * (n * n)
  BY <1>1 DEF Slack
<1>3. n * n >= 0
  OBVIOUS
<1>4. (L + 3 * n) * (2 * u + n) = 2 * L * u + L * n + 6 * (n * u) + 3 * (n * n)
  OBVIOUS
<1>5. (L - 3 * n) * (2 * u) - L * n = 2 * L * u - 6 * (n * u) - L * n
  OBVIOUS
<1> QED
  BY <1>1, <1>2, <1>3, <1>4, <1>5 DEF High, Low, NoMore, NoLess

(***************************************************************************)
(* The invariant                                                           *)
(***************************************************************************)

Amounts == [q \in Slots |-> parsed[q].amount]
BoughtUnits(a) == SumFunctionOnSet(Amounts, BuysOf(a))

(* What was paid for a unit of each purchase of an asset. *)
PricesPaid(a) ==
  {UnitCost(Cost(parsed[q]), parsed[q].amount) : q \in BuysOf(a)}
Purchases(a) == Cardinality(BuysOf(a))

(* Under ACB there is one pool per asset; it holds no more than was bought *)
(* and its average is among the prices paid, but for the roundings.        *)
PooledLot(a, p) ==
  /\ \A q \in Lots(a) : q = p
  /\ held[p] <= BoughtUnits(a)
  /\ \E u \in PricesPaid(a) : High(unitCost[p], u, Purchases(a))
  /\ \E u \in PricesPaid(a) : Low(unitCost[p], u, Purchases(a))
PoolInv == Pooled => \A a \in Assets : \A p \in Lots(a) : PooledLot(a, p)

(* What the portions a sell took from the lots have cost. *)
TrailCosts(s) == [p \in Slots |-> taken[s][p] * unitCost[p]]
TrailCost(s) == SumFunction(TrailCosts(s))

(* The basis b of the sell at slot s is the cost of its portions: each was *)
(* rounded, and their sum after each of them.                              *)
Covers(b, s) == Accounts(b, TrailCost(s), 0, 2 * Cardinality(Portions(s)))

(* The unit costs of portions do not change once a sell is over, except    *)
(* those of pools.                                                         *)
BasisInv ==
  /\ phase = "consume" => Covers(basis, pos)
  /\ ~Pooled => \A k \in DOMAIN disposals : Covers(disposals[k].basis, disposals[k].slot)

(* A sell that goes on has left nothing of the lots it took from: it takes *)
(* one portion of a lot.                                                   *)
Emptied ==
  phase = "consume" /\ remaining > 0 =>
    \A p \in Slots : taken[pos][p] > 0 => held[p] = 0

HeldCosts == [p \in Slots |-> held[p] * unitCost[p]]
HeldCost == SumFunction(HeldCosts)
PaidCosts == [p \in Slots |-> (parsed[p].amount * parsed[p].price + parsed[p].fee) * Scale]
Paid == SumFunctionOnSet(PaidCosts, Buys)
Grids == [p \in Slots |-> RoundedUnits(p)]
Grid == SumFunctionOnSet(Grids, Buys)
Touches == [s \in Slots |-> Cardinality(Portions(s))]
Touched == SumFunction(Touches)
Roundings == 5 * (pos - 1) + 2 * Touched
Sales == totals.basis + (IF phase = "consume" THEN basis ELSE 0)
DriftInv == Accounts(Sales + HeldCost, Paid, Grid, Roundings)

CostInv == PoolInv /\ BasisInv /\ Emptied /\ DriftInv

(***************************************************************************)
(* Types                                                                   *)
(***************************************************************************)

LEMMA SlotsCount == Cardinality(Slots) = MaxTrades
<1>1. MaxTrades \in Nat
  BY BoundsAssumption
<1>2. Cardinality(1..MaxTrades) = IF 1 > MaxTrades THEN 0 ELSE MaxTrades - 1 + 1
  BY <1>1, FS_Interval
<1> QED
  BY <1>1, <1>2 DEF Slots

(* A sell takes from no more lots than there are trades. *)
LEMMA TouchesType ==
  ASSUME TypeOK
  PROVE  /\ \A s \in Slots : /\ IsFiniteSet(Portions(s))
                            /\ Touches[s] = Cardinality(Portions(s))
                            /\ Touches[s] \in Nat /\ Touches[s] <= MaxTrades
         /\ Touched = SumFunctionOnSet(Touches, Slots)
         /\ Touched \in Nat /\ Touched <= MaxTrades * MaxTrades
<1>1. \A s \in Slots : /\ IsFiniteSet(Portions(s))
                      /\ Touches[s] = Cardinality(Portions(s))
                      /\ Touches[s] \in Nat /\ Touches[s] <= MaxTrades
  <2> SUFFICES ASSUME NEW s \in Slots
               PROVE  /\ IsFiniteSet(Portions(s))
                      /\ Cardinality(Portions(s)) \in Nat
                      /\ Cardinality(Portions(s)) <= MaxTrades
    BY DEF Touches
  <2>1. Portions(s) \in SUBSET Slots
    BY DEF Portions
  <2> QED
    BY <2>1, SlotsCount, SlotsFinite, FS_Subset, FS_CardinalityType
<1>2. Touched = SumFunctionOnSet(Touches, Slots)
  BY DEF Touched, SumFunction, Touches
<1>3. Touched \in Nat
  BY <1>1, <1>2, SlotsFinite, SumNat
<1>4. Touched <= MaxTrades * MaxTrades
  <2>1. /\ MaxTrades \in Int /\ 1 \in Int /\ 0 \in Int
        /\ \A s \in Slots : Touches[s] \in Int
        /\ \A s \in Slots : 1 * Touches[s] + 0 * Touches[s] <= MaxTrades
    BY <1>1, BoundsAssumption
  <2>2. 1 * SumFunctionOnSet(Touches, Slots) + 0 * SumFunctionOnSet(Touches, Slots)
          <= MaxTrades * Cardinality(Slots)
    BY <2>1, SlotsFinite, SumBound
  <2> QED
    BY <1>2, <1>3, <2>2, SlotsCount
<1> QED
  BY <1>1, <1>2, <1>3, <1>4

(* The roundings done so far, and those of the step to come, are few       *)
(* enough.                                                                 *)
LEMMA RoundingsType ==
  ASSUME TypeOK
  PROVE  /\ Roundings \in Nat /\ Roundings <= Parts
         /\ pos <= Len(parsed) => Roundings + 5 <= Parts
<1>1. /\ pos \in Nat \ {0} /\ pos <= Len(parsed) + 1 /\ Len(parsed) \in Nat
      /\ Len(parsed) <= MaxTrades
  BY DomainParsed DEF TypeOK
<1>2. PICK m \in Nat, t \in Nat, M \in Nat, L \in Nat :
        m = MaxTrades /\ t = Touched /\ M = m * m /\ t <= M /\ L = Parts /\ 5 * m + 2 * M <= L
  <2>1. 2 * MaxTrades * MaxTrades = 2 * (MaxTrades * MaxTrades) /\ MaxTrades * MaxTrades \in Nat
    BY PartsType
  <2> QED
    BY <2>1, TouchesType, PartsType
<1>3. Roundings = 5 * (pos - 1) + 2 * t
  BY <1>2 DEF Roundings
<1> QED
  BY <1>1, <1>2, <1>3

(* The buys matched so far are among the slots, with amounts and costs.    *)
LEMMA BuysType ==
  ASSUME TypeOK
  PROVE  /\ Buys \subseteq Slots /\ IsFiniteSet(Buys)
         /\ \A q \in Buys : /\ q \in DOMAIN parsed /\ q < pos
                            /\ parsed[q].asset \in Assets /\ parsed[q].side = "buy"
                            /\ parsed[q].amount \in Nat \ {0}
                            /\ parsed[q].price \in Nat /\ parsed[q].fee \in Nat
                            /\ Cost(parsed[q]) \in Nat
                            /\ (parsed[q].amount * parsed[q].price + parsed[q].fee) * Scale \in Nat
<1>1. /\ pos \in Nat \ {0} /\ Len(parsed) \in Nat /\ pos <= Len(parsed) + 1
      /\ DOMAIN parsed = 1..Len(parsed) /\ DOMAIN parsed \subseteq Slots
  BY DomainParsed DEF TypeOK
<1>2. \A q \in Buys : q \in DOMAIN parsed /\ q < pos /\ parsed[q].side = "buy"
  BY <1>1 DEF Buys
<1>3. Buys \subseteq Slots /\ IsFiniteSet(Buys)
  BY <1>1, <1>2, SlotsFinite, FS_Subset
<1>4. ASSUME NEW t \in ParsedTrades
      PROVE  /\ t.asset \in Assets /\ t.amount \in Nat \ {0}
             /\ t.price \in Nat /\ t.fee \in Nat
             /\ Cost(t) \in Nat /\ (t.amount * t.price + t.fee) * Scale \in Nat
  <2>1. t.asset \in Assets /\ t.amount \in Nat \ {0} /\ t.price \in Nat /\ t.fee \in Nat
    BY DEF ParsedTrades
  <2>2. Cost(t) \in Nat
    BY <2>1, CostType
  <2>3. \A x, y, z, c \in Nat : (x * y + z) * c \in Nat
    OBVIOUS
  <2> QED
    BY <2>1, <2>2, <2>3, BoundsAssumption
<1> QED
  BY <1>2, <1>3, <1>4, DomainParsed

LEMMA BuysOfType ==
  ASSUME TypeOK, NEW a
  PROVE  /\ BuysOf(a) = {q \in Buys : parsed[q].asset = a}
         /\ IsFiniteSet(BuysOf(a)) /\ BuysOf(a) \subseteq Slots
         /\ \A q \in BuysOf(a) : Amounts[q] = parsed[q].amount /\ Amounts[q] \in Nat
         /\ BoughtUnits(a) \in Nat
         /\ Purchases(a) \in Nat /\ Purchases(a) <= MaxTrades
         /\ BuysOf(a) # {} => Purchases(a) # 0
<1>1. BuysOf(a) = {q \in Buys : parsed[q].asset = a}
  BY BuysType DEF BuysOf, Buys, Bought
<1>2. IsFiniteSet(BuysOf(a)) /\ BuysOf(a) \subseteq Slots
  BY <1>1, BuysType, FS_Subset
<1>3. \A q \in BuysOf(a) : Amounts[q] = parsed[q].amount /\ Amounts[q] \in Nat
  BY <1>1, BuysType DEF Amounts
<1>4. BoughtUnits(a) \in Nat
  BY <1>2, <1>3, SumNat DEF BoughtUnits
<1>5. /\ Purchases(a) \in Nat /\ Purchases(a) <= MaxTrades
      /\ BuysOf(a) # {} => Purchases(a) # 0
  BY <1>2, SlotsCount, SlotsFinite, FS_Subset, FS_CardinalityType, FS_EmptySet DEF Purchases
<1> QED
  BY <1>1, <1>2, <1>3, <1>4, <1>5

LEMMA RoundedUnitsType ==
  ASSUME TypeOK, NEW p \in Buys
  PROVE  RoundedUnits(p) \in Nat
<1> DEFINE S == {q \in BuysOf(parsed[p].asset) : q <= p}
<1>1. IsFiniteSet(S) /\ \A q \in S : Amounts[q] \in Nat
  BY BuysOfType, FS_Subset
<1>2. SumFunctionOnSet(Amounts, S) \in Nat
  BY <1>1, SumNat
<1>3. parsed[p].amount \in Nat
  BY BuysType
<1> QED
  BY <1>2, <1>3 DEF RoundedUnits, Amounts

LEMMA CostTypes ==
  ASSUME TypeOK
  PROVE  /\ HeldCost \in Nat /\ Paid \in Nat /\ Grid \in Nat /\ Sales \in Nat
         /\ \A q \in Buys : /\ PaidCosts[q] \in Nat
                            /\ Grids[q] = RoundedUnits(q) /\ Grids[q] \in Nat
         /\ \A p \in Slots : HeldCosts[p] = held[p] * unitCost[p] /\ HeldCosts[p] \in Nat
         /\ HeldCost = SumFunctionOnSet(HeldCosts, Slots)
<1>1. \A p \in Slots : HeldCosts[p] = held[p] * unitCost[p] /\ HeldCosts[p] \in Nat
  <2>1. \A p \in Slots : held[p] \in Nat /\ unitCost[p] \in Nat
    BY DEF TypeOK
  <2>2. \A h, u \in Nat : h * u \in Nat
    OBVIOUS
  <2> QED
    BY <2>1, <2>2 DEF HeldCosts
<1>2. HeldCost = SumFunctionOnSet(HeldCosts, Slots)
  BY DEF HeldCost, SumFunction, HeldCosts
<1>3. HeldCost \in Nat
  BY <1>1, <1>2, SlotsFinite, SumNat
<1>4. \A q \in Buys : /\ PaidCosts[q] \in Nat
                      /\ Grids[q] = RoundedUnits(q) /\ Grids[q] \in Nat
  BY BuysType, RoundedUnitsType DEF PaidCosts, Grids
<1>5. Paid \in Nat /\ Grid \in Nat
  BY <1>4, BuysType, SumNat DEF Paid, Grid
<1>6. Sales \in Nat
  <2>1. totals.basis \in Nat /\ basis \in Nat
    BY DEF TypeOK
  <2> QED
    BY <2>1 DEF Sales
<1> QED
  BY <1>1, <1>2, <1>3, <1>4, <1>5, <1>6

(***************************************************************************)
(* What each step does to the costs                                        *)
(***************************************************************************)

(* Changing one lot changes the cost of what is held by as much. *)
LEMMA HeldCostMoves ==
  ASSUME TypeOK, TypeOK', NEW p \in Slots,
         \A q \in Slots \ {p} : held'[q] = held[q] /\ unitCost'[q] = unitCost[q]
  PROVE  HeldCost' = HeldCost - held[p] * unitCost[p] + held'[p] * unitCost'[p]
<1>1. /\ \A q \in Slots : HeldCosts[q] = held[q] * unitCost[q] /\ HeldCosts[q] \in Int
      /\ HeldCost = SumFunctionOnSet(HeldCosts, Slots)
  BY CostTypes
<1>2. /\ \A q \in Slots : held'[q] \in Nat /\ unitCost'[q] \in Nat
      /\ HeldCosts' = [q \in Slots |-> held'[q] * unitCost'[q]]
  BY DEF TypeOK, HeldCosts, Slots
<1>3. \A h, u \in Nat : h * u \in Int
  OBVIOUS
<1>4. \A q \in Slots : HeldCosts'[q] = held'[q] * unitCost'[q] /\ HeldCosts'[q] \in Int
  BY <1>2, <1>3
<1>5. HeldCost' = SumFunctionOnSet(HeldCosts', Slots)
  BY <1>2 DEF HeldCost, SumFunction
<1>6. /\ \A q \in Slots \ {p} : HeldCosts[q] = HeldCosts'[q]
      /\ \A q \in Slots : HeldCosts[q] \in Int /\ HeldCosts'[q] \in Int
  BY <1>1, <1>4
<1>7. SumFunctionOnSet(HeldCosts', Slots)
        = SumFunctionOnSet(HeldCosts, Slots) - HeldCosts[p] + HeldCosts'[p]
  BY <1>6, SlotsFinite, SumChange
<1> QED
  BY <1>1, <1>4, <1>5, <1>7

(* A buy adds itself to the purchases and its cost to what was paid; its   *)
(* allowance for rounding covers its own units, and under ACB those of the *)
(* whole pool (lots.py:427, 430).                                          *)
LEMMA BuyAdds ==
  ASSUME TypeOK, TypeOK', Matching("buy"), pos' = pos + 1, UNCHANGED <<request, parsed>>
  PROVE  /\ Buys' = Buys \cup {pos}
         /\ \A a : BuysOf(a)' = IF a = Current.asset THEN BuysOf(a) \cup {pos} ELSE BuysOf(a)
         /\ Paid' = Paid + (Current.amount * Current.price + Current.fee) * Scale
         /\ \A a : BoughtUnits(a)' = BoughtUnits(a)
                     + IF a = Current.asset THEN Current.amount ELSE 0
         /\ \A a : Purchases(a)' = Purchases(a) + IF a = Current.asset THEN 1 ELSE 0
         /\ \E extra \in Nat :
              /\ Grid' = Grid + extra
              /\ extra >= Current.amount
              /\ Pooled => \A a : a = Current.asset => extra >= BoughtUnits(a)'
<1>1. /\ pos \in Slots /\ pos \in DOMAIN parsed /\ pos \in Nat /\ pos > 0
      /\ Current \in ParsedTrades /\ Current = parsed[pos] /\ Current.side = "buy"
  BY CurrentType, SlotsFinite DEF Matching, Current
<1>2. Buys' = Buys \cup {pos} /\ pos \notin Buys
  BY <1>1 DEF Buys
<1>3. \A a : BuysOf(a)' = IF a = Current.asset THEN BuysOf(a) \cup {pos} ELSE BuysOf(a)
  <2>1. \A a : /\ BuysOf(a)' = {q \in 1..pos : Bought(q, a)}
               /\ BuysOf(a) = {q \in 1..(pos - 1) : Bought(q, a)}
    BY <1>1 DEF BuysOf, Bought
  <2>2. /\ 1..pos = 1..(pos - 1) \cup {pos} /\ pos \notin 1..(pos - 1)
        /\ \A a : Bought(pos, a) <=> a = Current.asset
    BY <1>1 DEF Bought
  <2> QED
    BY <2>1, <2>2
<1>4. /\ (Current.amount * Current.price + Current.fee) * Scale \in Nat
      /\ Current.amount \in Nat /\ IsFiniteSet(Buys')
  <2>1. Current.price \in Nat /\ Current.fee \in Nat /\ Current.amount \in Nat
    BY <1>1, CurrentType DEF ParsedTrades, Matching
  <2>2. IsFiniteSet(Buys')
    BY <1>2, BuysType, FS_AddElement
  <2> QED
    BY <2>1, <2>2, BoundsAssumption
<1>5. Paid' = Paid + (Current.amount * Current.price + Current.fee) * Scale
  <2>1. /\ PaidCosts' = PaidCosts
        /\ PaidCosts[pos] = (Current.amount * Current.price + Current.fee) * Scale
    BY <1>1 DEF PaidCosts
  <2>2. \A q \in Buys' : PaidCosts[q] \in Int
    BY <1>2, <1>4, <2>1, CostTypes
  <2>3. SumFunctionOnSet(PaidCosts, Buys') = PaidCosts[pos] + SumFunctionOnSet(PaidCosts, Buys' \ {pos})
    BY <1>2, <1>4, <2>2, SumRemove
  <2>4. Buys' \ {pos} = Buys
    BY <1>2
  <2>5. Paid \in Nat
    BY CostTypes
  <2> QED
    BY <1>4, <2>1, <2>3, <2>4, <2>5 DEF Paid
<1>6. ASSUME NEW a
      PROVE  /\ BoughtUnits(a)' = BoughtUnits(a)
                    + IF a = Current.asset THEN Current.amount ELSE 0
             /\ BoughtUnits(a)' \in Nat
  <2>1. /\ Amounts' = Amounts /\ Amounts[pos] = Current.amount
        /\ BoughtUnits(a)' = SumFunctionOnSet(Amounts', BuysOf(a)')
        /\ BoughtUnits(a) = SumFunctionOnSet(Amounts, BuysOf(a)) /\ BoughtUnits(a) \in Nat
    BY <1>1, BuysOfType DEF Amounts, BoughtUnits
  <2>2. CASE a = Current.asset
    <3> DEFINE S == BuysOf(a) \cup {pos}
    <3>1. IsFiniteSet(S) /\ \A q \in S : Amounts[q] \in Int
      BY <1>4, <2>1, BuysOfType, FS_AddElement
    <3>2. SumFunctionOnSet(Amounts, S) = Amounts[pos] + SumFunctionOnSet(Amounts, S \ {pos})
      BY <3>1, SumRemove
    <3>3. S \ {pos} = BuysOf(a) /\ BuysOf(a)' = S
      BY <1>2, <1>3, <2>2, BuysOfType
    <3>4. BoughtUnits(a)' = Current.amount + BoughtUnits(a)
      BY <2>1, <3>2, <3>3
    <3> QED
      BY <1>4, <2>1, <2>2, <3>4
  <2>3. CASE a # Current.asset
    BY <1>3, <2>1, <2>3
  <2> QED
    BY <2>2, <2>3
<1>7. ASSUME NEW a PROVE Purchases(a)' = Purchases(a) + IF a = Current.asset THEN 1 ELSE 0
  <2>1. IsFiniteSet(BuysOf(a)) /\ pos \notin BuysOf(a) /\ Purchases(a) \in Nat
    BY <1>2, BuysOfType
  <2>2. Purchases(a)' = Cardinality(BuysOf(a)') /\ Purchases(a) = Cardinality(BuysOf(a))
    BY DEF Purchases
  <2>3. Cardinality(BuysOf(a) \cup {pos}) = Purchases(a) + 1
    BY <2>1, <2>2, FS_AddElement
  <2> QED
    BY <1>3, <2>1, <2>2, <2>3
<1>8. \E extra \in Nat :
        /\ Grid' = Grid + extra
        /\ extra >= Current.amount
        /\ Pooled => \A a : a = Current.asset => extra >= BoughtUnits(a)'
  <2>1. PICK p, A : p = pos /\ A = Current.asset
    OBVIOUS
  <2>2. /\ p \in Slots /\ p \in Nat /\ parsed[p].asset = A
        /\ parsed[p].amount = Current.amount /\ parsed' = parsed /\ Pooled' = Pooled
        /\ Amounts' = Amounts /\ \A q \in Buys' : q <= p
    <3>1. \A q \in Buys : q < pos
      BY BuysType
    <3>2. \A q \in Buys : q \in Nat
      BY BuysType, SlotsFinite
    <3> QED
      BY <1>1, <1>2, <2>1, <3>1, <3>2 DEF Pooled, Amounts
  <2>3. RoundedUnits(p)' = IF Pooled THEN BoughtUnits(A)' ELSE Current.amount
    <3>1. RoundedUnits(p)' = IF Pooled
            THEN SumFunctionOnSet(Amounts, {q \in BuysOf(A)' : q <= p})
            ELSE Current.amount
      BY <2>2 DEF RoundedUnits, Amounts
    <3>2. {q \in BuysOf(A)' : q <= p} = BuysOf(A)'
      BY <1>2, <1>3, <2>1, <2>2, BuysOfType
    <3> QED
      BY <2>2, <3>1, <3>2 DEF BoughtUnits
  <2>4. BoughtUnits(A)' = BoughtUnits(A) + Current.amount /\ BoughtUnits(A) \in Nat
    BY <1>6, <2>1, BuysOfType
  <2>5. RoundedUnits(p)' \in Nat /\ RoundedUnits(p)' >= Current.amount
    BY <1>4, <2>3, <2>4
  <2>6. \A q \in Buys : RoundedUnits(q)' = RoundedUnits(q)
    <3> SUFFICES ASSUME NEW q \in Buys PROVE RoundedUnits(q)' = RoundedUnits(q)
      OBVIOUS
    <3>1. PICK B : B = parsed[q].asset
      OBVIOUS
    <3>2. {r \in BuysOf(B)' : r <= q} = {r \in BuysOf(B) : r <= q}
      <4>1. ~(pos <= q)
        BY <1>1, BuysType, SlotsFinite
      <4> QED
        BY <1>3, <4>1
    <3>3. /\ RoundedUnits(q)' = IF Pooled
            THEN SumFunctionOnSet(Amounts, {r \in BuysOf(B)' : r <= q})
            ELSE parsed[q].amount
          /\ RoundedUnits(q) = IF Pooled
            THEN SumFunctionOnSet(Amounts, {r \in BuysOf(B) : r <= q})
            ELSE parsed[q].amount
      BY <2>2, <3>1 DEF RoundedUnits, Amounts
    <3> QED
      BY <3>2, <3>3
  <2>7. Grid' = Grid + RoundedUnits(p)'
    <3>1. /\ \A q \in Buys : Grids'[q] = Grids[q] /\ Grids[q] \in Nat
          /\ Grids'[p] = RoundedUnits(p)'
      BY <2>2, <2>6, BuysType, CostTypes DEF Grids, Slots
    <3>2. \A q \in Buys' : Grids'[q] \in Int
      BY <1>2, <2>1, <2>5, <3>1
    <3>3. SumFunctionOnSet(Grids', Buys') = Grids'[p] + SumFunctionOnSet(Grids', Buys' \ {p})
      BY <1>2, <1>4, <2>1, <3>2, SumRemove
    <3>4. Buys' \ {p} = Buys
      BY <1>2, <2>1
    <3>5. SumFunctionOnSet(Grids, Buys) = SumFunctionOnSet(Grids', Buys)
      BY <3>1, BuysType, SumAgree
    <3>6. Grid \in Nat
      BY CostTypes
    <3>7. Grid' = SumFunctionOnSet(Grids', Buys') /\ Grid = SumFunctionOnSet(Grids, Buys)
      BY DEF Grid
    <3>8. Grid' = RoundedUnits(p)' + Grid
      BY <3>1, <3>3, <3>4, <3>5, <3>7
    <3> QED
      BY <2>5, <3>6, <3>8
  <2> QED
    BY <2>1, <2>3, <2>5, <2>7
<1> QED
  BY <1>2, <1>3, <1>5, <1>6, <1>7, <1>8

(***************************************************************************)
(* The invariant is kept                                                   *)
(***************************************************************************)

LEMMA CostInit == Init => CostInv
<1> SUFFICES ASSUME Init PROVE CostInv
  OBVIOUS
<1>1. /\ TypeOK /\ phase = "header" /\ totals.basis = 0 /\ DOMAIN disposals = {}
      /\ \A p \in Slots : held[p] = 0 /\ unitCost[p] = 0
      /\ \A s, p \in Slots : taken[s][p] = 0
      /\ pos = 1
  BY TypeInit DEF Init, TypeInv
<1>2. Buys = {} /\ \A a : Lots(a) = {}
  <2>1. \A a : \A p \in Lots(a) : p \in Slots /\ held[p] > 0
    BY <1>1, DomainParsed DEF Lots
  <2> QED
    BY <1>1, <2>1 DEF Buys
<1>3. HeldCost = 0
  <2>1. \A p \in Slots : HeldCosts[p] = 0
    BY <1>1 DEF HeldCosts
  <2> QED
    BY <1>1, <2>1, CostTypes, SlotsFinite, SumNat
<1>4. Paid = 0 /\ Grid = 0 /\ Sales = 0
  <2>1. SumFunctionOnSet(PaidCosts, {}) = 0 /\ SumFunctionOnSet(Grids, {}) = 0
    BY FS_EmptySet, SumRemove
  <2> QED
    BY <1>1, <1>2, <2>1 DEF Paid, Grid, Sales
<1>5. Roundings = 0
  <2>1. \A s \in Slots : Portions(s) = {}
    BY <1>1 DEF Portions
  <2>2. \A s \in Slots : Touches[s] = 0
    BY <2>1, FS_EmptySet DEF Touches
  <2>3. Touched = 0
    BY <1>1, <2>2, TouchesType, SlotsFinite, SumNat
  <2> QED
    BY <1>1, <2>3 DEF Roundings
<1>6. DriftInv
  BY <1>3, <1>4, <1>5, PartsType DEF DriftInv, Accounts, NoMore, NoLess, Slack
<1> QED
  BY <1>1, <1>2, <1>6 DEF CostInv, PoolInv, BasisInv, Emptied

(* What the steps below leave alone. *)
LEMMA PoolsStay ==
  ASSUME PoolInv, UNCHANGED <<request, parsed, pos, held, unitCost>>
  PROVE  PoolInv'
<1>1. \A a : /\ Lots(a)' = Lots(a) /\ BoughtUnits(a)' = BoughtUnits(a)
             /\ PricesPaid(a)' = PricesPaid(a) /\ Purchases(a)' = Purchases(a)
  BY DEF Lots, PricesPaid, BoughtUnits, Amounts, Purchases, BuysOf, Bought
<1>2. \A a, p : PooledLot(a, p)' <=> PooledLot(a, p)
  BY <1>1 DEF PooledLot, High, Low
<1> QED
  BY <1>1, <1>2 DEF PoolInv, Pooled

LEMMA TrailsStay ==
  ASSUME UNCHANGED <<unitCost, taken>>
  PROVE  /\ \A b, s : Covers(b, s)' <=> Covers(b, s)
         /\ Touched' = Touched
<1>1. \A s : TrailCost(s)' = TrailCost(s) /\ Portions(s)' = Portions(s)
  BY DEF TrailCost, TrailCosts, Portions
<1> QED
  BY <1>1 DEF Covers, Touched, Touches

LEMMA GridStays ==
  ASSUME UNCHANGED <<request, parsed, pos>>
  PROVE  Paid' = Paid /\ Grid' = Grid /\ Buys' = Buys
BY DEF Paid, PaidCosts, Grid, Grids, Buys, RoundedUnits, Pooled, BuysOf, Bought

(* A step that leaves the ledger, the lots and the results alone, and does *)
(* not start a sell, keeps it.                                             *)
LEMMA CostFrame ==
  ASSUME CostInv,
         UNCHANGED <<request, parsed, pos, held, unitCost, taken, disposals, totals>>,
         \/ phase # "consume" /\ phase' # "consume"
         \/ UNCHANGED <<phase, basis, remaining>>
  PROVE  CostInv'
<1>1. PoolInv'
  BY PoolsStay DEF CostInv
<1>2. BasisInv' /\ Emptied'
  <2>1. \A k \in DOMAIN disposals : disposals'[k] = disposals[k]
    OBVIOUS
  <2> QED
    BY <2>1, TrailsStay DEF CostInv, BasisInv, Emptied, Pooled
<1>3. DriftInv'
  <2>1. HeldCost' = HeldCost /\ Sales' = Sales
    BY DEF HeldCost, HeldCosts, Sales
  <2>2. Roundings' = Roundings
    BY TrailsStay DEF Roundings
  <2> QED
    BY <2>1, <2>2, GridStays DEF CostInv, DriftInv
<1> QED
  BY <1>1, <1>2, <1>3 DEF CostInv

(* So does a step that reads the request, for want of lots and purchases.  *)
LEMMA CostReading ==
  ASSUME Inv, TypeOK', CostInv, phase \in {"header", "parse"}, phase' # "consume",
         UNCHANGED <<pos, held, unitCost, taken, disposals, totals>>
  PROVE  CostInv'
<1>1. /\ \A p \in Slots : ~(held[p] > 0)
      /\ pos = 1 /\ TypeOK
  BY NothingMatched DEF Inv, MatchInv, TypeInv, Progress
<1>2. Buys = {} /\ Buys' = {} /\ \A a : Lots(a)' = {}
  <2>1. DOMAIN parsed' \subseteq Slots
    <3>1. parsed' \in Seq(ParsedTrades) /\ Len(parsed') <= MaxTrades /\ Slots' = Slots
      BY DEF TypeOK, Slots
    <3>2. DOMAIN parsed' = 1..Len(parsed') /\ Len(parsed') \in Nat
      BY <3>1
    <3> QED
      BY <3>1, <3>2, BoundsAssumption DEF Slots
  <2> QED
    BY <1>1, <2>1 DEF Buys, Lots
<1>3. DOMAIN disposals = {}
  <2>1. \A k \in DOMAIN disposals :
          disposals[k].slot \in Slots /\ disposals[k].slot < 1
    BY <1>1, DisposalsType DEF Inv, QuantityInv, SellsHonoured
  <2>2. \A p \in Slots : ~(p < 1)
    BY SlotsFinite
  <2> QED
    BY <2>1, <2>2
<1>4. DriftInv'
  <2>1. HeldCost' = HeldCost /\ Sales' = Sales
    BY DEF HeldCost, HeldCosts, Sales
  <2>2. \A f : SumFunctionOnSet(f, {}) = 0
    BY FS_EmptySet, SumRemove
  <2>3. Paid' = Paid /\ Grid' = Grid
    BY <1>2, <2>2 DEF Paid, Grid
  <2>4. Roundings' = Roundings
    BY TrailsStay DEF Roundings
  <2> QED
    BY <2>1, <2>3, <2>4 DEF CostInv, DriftInv
<1> QED
  BY <1>2, <1>3, <1>4 DEF CostInv, PoolInv, BasisInv, Emptied

(* What a buy costs accounts for its price and its fee (lots.py:418). *)
LEMMA CostAccounts ==
  ASSUME NEW w \in Nat, NEW x \in Nat, NEW g \in Nat, NEW n \in Nat, n + 2 <= Parts,
         Accounts(w, x, g, n),
         NEW t, t.amount \in Nat, t.price \in Nat, t.fee \in Nat
  PROVE  /\ Cost(t) \in Nat /\ (t.amount * t.price + t.fee) * Scale \in Nat
         /\ Accounts(w + Cost(t), x + (t.amount * t.price + t.fee) * Scale, g, n + 2)
<1>1. PICK a \in Nat, f \in Nat :
        /\ a = t.amount * t.price * Scale /\ f = t.fee * Scale
        /\ (t.amount * t.price + t.fee) * Scale = a + f
  <2>1. \A k, l, m, c \in Nat : /\ k * l * c \in Nat /\ m * c \in Nat
                               /\ (k * l + m) * c = k * l * c + m * c
    OBVIOUS
  <2> QED
    BY <2>1, PartsType
<1>2. PICK w1 \in Nat, x1 \in Nat : w1 = w + (a + f) /\ x1 = x + (a + f)
  OBVIOUS
<1>3. Accounts(w1, x1, g, n)
  <2>1. a + f \in Nat /\ w \in Int /\ x \in Int /\ g \in Int
    OBVIOUS
  <2> QED
    BY <1>2, <2>1, Pays
<1>4. n < Parts /\ n + 1 < Parts /\ n + 1 \in Nat /\ (n + 1) + 1 = n + 2
  BY PartsType
<1>5. PICK y \in Nat : /\ y = Kept(a) /\ w1 - a + y \in Nat
                       /\ Accounts(w1 - a + y, x1, g, n + 1)
  <2>1. a <= w1
    BY <1>2
  <2> QED
    BY <1>3, <1>4, <2>1, Rounds
<1>6. PICK w2 \in Nat : w2 = w + f + y /\ Accounts(w2, x1, g, n + 1)
  <2>1. w1 - a + y = w + f + y
    BY <1>2
  <2> QED
    BY <1>5, <2>1
<1>7. PICK b \in Nat : b = y + f /\ b <= w2
  BY <1>6
<1>8. PICK z \in Nat : /\ z = Kept(b) /\ w2 - b + z \in Nat
                       /\ Accounts(w2 - b + z, x1, g, (n + 1) + 1)
  BY <1>4, <1>6, <1>7, Rounds
<1>9. z = Cost(t) /\ w2 - b + z = w + z
  BY <1>1, <1>5, <1>6, <1>7, <1>8 DEF Cost
<1> QED
  BY <1>1, <1>2, <1>4, <1>8, <1>9

(* What a lot is entered at, and what its pool is, accounts for the money  *)
(* that was spent on it (lots.py:418-433).                                 *)
LEMMA LotAccounts ==
  ASSUME NEW w \in Nat, NEW x \in Nat, NEW g \in Nat, NEW n \in Nat, n + 5 <= Parts,
         Accounts(w, x, g, n),
         NEW t, t.amount \in Nat \ {0}, t.price \in Nat, t.fee \in Nat,
         NEW R, R = UnitCost(Cost(t), t.amount), NEW e \in Nat, t.amount <= e,
         NEW X, X = (t.amount * t.price + t.fee) * Scale
  PROVE  /\ R \in Nat /\ X \in Nat
         /\ Accounts(w + t.amount * R, x + X, g + e, n + 5)
<1>1. PICK d \in Nat \ {0} : d = t.amount
  OBVIOUS
<1>2. PICK k \in Nat, l \in Nat, m \in Nat : k = n + 2 /\ l = n + 3 /\ m = n + 5
  OBVIOUS
<1>3. k <= Parts /\ k < Parts /\ l = k + 1 /\ l <= m
  BY <1>2, PartsType
<1>4. PICK C \in Nat : C = Cost(t) /\ X \in Nat /\ Accounts(w + C, x + X, g, n + 2)
  <2>1. n + 2 <= Parts /\ t.amount \in Nat
    BY <1>2, <1>3
  <2> QED
    BY <2>1, CostAccounts
<1>5. PICK w1 \in Nat, x1 \in Nat : w1 = w + C /\ x1 = x + X /\ C <= w1
  BY <1>4
<1>6. Accounts(w1, x1, g, k)
  BY <1>2, <1>4, <1>5
<1>7. PICK y \in Nat : /\ y = UnitCost(C, d) /\ w1 - C + y * d \in Nat
                       /\ Accounts(w1 - C + y * d, x1, g + e, k + 1)
  BY <1>1, <1>3, <1>5, <1>6, Averages
<1>8. PICK v \in Nat : v = w1 - C + y * d
  BY <1>7
<1>9. Accounts(v, x1, g + e, l) /\ v \in Int /\ g + e \in Nat
  BY <1>3, <1>7, <1>8
<1>10. Accounts(v, x1, g + e, m)
  BY <1>3, <1>9, Loosens
<1>11. v = w + d * y
  BY <1>5, <1>8
<1> QED
  BY <1>1, <1>2, <1>4, <1>5, <1>7, <1>10, <1>11

LEMMA PoolAccounts ==
  ASSUME NEW w \in Nat, NEW x \in Nat, NEW g \in Nat, NEW n \in Nat, n + 5 <= Parts,
         Accounts(w, x, g, n),
         NEW t, t.amount \in Nat, t.price \in Nat, t.fee \in Nat,
         NEW f \in Nat, f <= w, NEW d \in Nat \ {0},
         NEW R, R = UnitCost(Kept(Kept(f) + Cost(t)), d), NEW e \in Nat, d <= e,
         NEW X, X = (t.amount * t.price + t.fee) * Scale
  PROVE  /\ R \in Nat /\ X \in Nat
         /\ Accounts(w - f + d * R, x + X, g + e, n + 5)
<1>1. PICK k \in Nat, l \in Nat, m \in Nat, o \in Nat :
        /\ k = n + 2 /\ l = n + 3 /\ m = n + 4 /\ o = n + 5
        /\ k <= Parts /\ k < Parts /\ l < Parts /\ m < Parts
        /\ l = k + 1 /\ m = l + 1 /\ o = m + 1
  BY PartsType
<1>2. PICK C \in Nat : C = Cost(t) /\ X \in Nat /\ Accounts(w + C, x + X, g, n + 2)
  <2>1. n + 2 <= Parts
    BY <1>1
  <2> QED
    BY <2>1, CostAccounts
<1>3. PICK w1 \in Nat, x1 \in Nat : w1 = w + C /\ x1 = x + X /\ f <= w1
  BY <1>2
<1>4. Accounts(w1, x1, g, k)
  BY <1>1, <1>2, <1>3
<1>5. PICK y \in Nat : /\ y = Kept(f) /\ w1 - f + y \in Nat
                       /\ Accounts(w1 - f + y, x1, g, k + 1)
  BY <1>1, <1>3, <1>4, Rounds
<1>6. PICK w2 \in Nat, b \in Nat : w2 = w1 - f + y /\ b = y + C /\ b <= w2
  BY <1>3, <1>5
<1>7. Accounts(w2, x1, g, l)
  BY <1>1, <1>5, <1>6
<1>8. PICK z \in Nat : /\ z = Kept(b) /\ w2 - b + z \in Nat
                       /\ Accounts(w2 - b + z, x1, g, l + 1)
  BY <1>1, <1>6, <1>7, Rounds
<1>9. PICK w3 \in Nat : w3 = w2 - b + z /\ z <= w3 /\ w3 - z = w - f
  BY <1>3, <1>6, <1>8
<1>10. Accounts(w3, x1, g, m)
  BY <1>1, <1>8, <1>9
<1>11. PICK q \in Nat : /\ q = UnitCost(z, d) /\ w3 - z + q * d \in Nat
                        /\ Accounts(w3 - z + q * d, x1, g + e, m + 1)
  BY <1>1, <1>9, <1>10, Averages
<1>12. q = R
  BY <1>2, <1>5, <1>6, <1>8, <1>11
<1>13. w3 - z + q * d = w - f + d * q
  BY <1>9
<1> QED
  BY <1>1, <1>2, <1>3, <1>11, <1>12, <1>13

(* A step of the matching loop that takes no portion counts five roundings. *)
LEMMA FiveRoundings ==
  ASSUME TypeOK, pos' = pos + 1, Touched' = Touched
  PROVE  Roundings' = Roundings + 5
<1>1. PICK t \in Nat, i \in Nat : t = Touched /\ i = pos
  BY TouchesType DEF TypeOK
<1>2. Roundings = 5 * (i - 1) + 2 * t /\ Roundings' = 5 * ((i + 1) - 1) + 2 * t
  BY <1>1 DEF Roundings
<1> QED
  BY <1>2

(* A lot's cost is part of what is held. *)
LEMMA LotIsHeld ==
  ASSUME TypeOK, NEW p \in Slots
  PROVE  held[p] * unitCost[p] \in Nat /\ held[p] * unitCost[p] <= HeldCost
<1>1. HeldCosts[p] <= SumFunctionOnSet(HeldCosts, Slots)
  BY CostTypes, SlotsFinite, SumNat
<1> QED
  BY <1>1, CostTypes

(* A buy that opens a lot (lots.py:429-430). *)
LEMMA CostOpen ==
  ASSUME Inv, TypeOK', CostInv, OpenLot
  PROVE  CostInv'
<1>1. /\ TypeOK /\ phase = "match" /\ phase' = phase /\ pos' = pos + 1
      /\ Matching("buy") /\ Pooled' = Pooled
      /\ UNCHANGED <<request, parsed, taken, disposals, totals, basis>>
      /\ Pooled => Lots(Current.asset) = {}
      /\ held' = [held EXCEPT ![pos] = Current.amount]
  BY DEF OpenLot, Matching, Inv, TypeInv, sale, results, Pooled
<1> DEFINE n == Current.amount
           R == UnitCost(Cost(Current), n)
<1>2. /\ pos \in Slots /\ pos \in DOMAIN parsed /\ pos \in Nat /\ pos <= Len(parsed)
      /\ n \in Nat \ {0} /\ Cost(Current) \in Nat
      /\ Current.price \in Nat /\ Current.fee \in Nat
  BY <1>1, CurrentType, SlotsFinite DEF Matching, ParsedTrades
<1>4. unitCost' = [unitCost EXCEPT ![pos] = R]
  BY DEF OpenLot
<1> HIDE DEF n
<1>3. R \in Nat
  BY <1>2, UnitCostType
<1>5. held'[pos] = n /\ unitCost'[pos] = R /\ held[pos] = 0 /\ unitCost[pos] \in Nat
      /\ \A q \in Slots \ {pos} : held'[q] = held[q] /\ unitCost'[q] = unitCost[q]
  <2>1. ~(held[pos] > 0)
    BY <1>2 DEF Inv, MatchInv, LotsOpened
  <2> QED
    BY <1>1, <1>2, <1>4, <2>1 DEF TypeOK, n
<1> HIDE DEF R
<1>6. PoolInv'
  <2> SUFFICES ASSUME Pooled, NEW a \in Assets, NEW p \in Lots(a)' PROVE PooledLot(a, p)'
    BY <1>1 DEF PoolInv
  <2>1. p \in Slots /\ Lots(a)' \subseteq Slots
    BY <1>1, DomainParsed DEF Lots
  <2>2. CASE a = Current.asset
    <3>1. Lots(a)' = {pos}
      <4>1. \A q \in Lots(a)' : q = pos
        BY <1>1, <1>5, <2>1, <2>2 DEF Lots
      <4> QED
        BY <4>1
    <3>2. UnitCost(Cost(parsed[pos]), parsed[pos].amount) \in PricesPaid(a)'
      BY <1>1, <1>2, <2>2, BuyAdds DEF PricesPaid
    <3>3. R \in PricesPaid(a)'
      BY <3>2 DEF R, n, Current
    <3>4. held'[pos] <= BoughtUnits(a)'
      <4>1. BoughtUnits(a)' = BoughtUnits(a) + n /\ BoughtUnits(a) \in Nat
        BY <1>1, <2>2, BuyAdds, BuysOfType DEF n
      <4> QED
        BY <1>2, <1>5, <4>1
    <3>5. Purchases(a)' \in Nat
      <4>1. Purchases(a)' = Purchases(a) + 1 /\ Purchases(a) \in Nat
        BY <1>1, <2>2, BuyAdds, BuysOfType
      <4> QED
        BY <4>1
    <3>6. High(R, R, Purchases(a)') /\ Low(R, R, Purchases(a)')
      BY <1>3, <3>5, OwnPrice
    <3>7. p = pos
      BY <3>1
    <3>8. \E u \in PricesPaid(a)' : High(unitCost'[p], u, Purchases(a)')
      BY <1>5, <3>3, <3>6, <3>7
    <3>9. \E u \in PricesPaid(a)' : Low(unitCost'[p], u, Purchases(a)')
      BY <1>5, <3>3, <3>6, <3>7
    <3> QED
      BY <3>1, <3>4, <3>7, <3>8, <3>9 DEF PooledLot, High, Low
  <2>3. CASE a # Current.asset
    <3>1. Lots(a)' = Lots(a) /\ p # pos
      BY <1>1, <1>5, <2>1, <2>3, DomainParsed DEF Lots, Current
    <3>2. /\ PricesPaid(a)' = PricesPaid(a) /\ BoughtUnits(a)' = BoughtUnits(a)
          /\ Purchases(a)' = Purchases(a)
      <4>1. BuysOf(a)' = BuysOf(a)
        BY <1>1, <2>3, BuyAdds
      <4> QED
        BY <1>1, <4>1 DEF PricesPaid, BoughtUnits, Amounts, Purchases
    <3>3. PooledLot(a, p)
      BY <3>1 DEF CostInv, PoolInv
    <3> QED
      BY <1>5, <2>1, <3>1, <3>2, <3>3 DEF PooledLot, High, Low
  <2> QED
    BY <2>2, <2>3
<1>7. BasisInv' /\ Emptied' /\ Touched' = Touched
  <2>1. ASSUME NEW s \in Slots PROVE TrailCost(s)' = TrailCost(s)
    <3>1. \A p \in Slots : taken[s][p] \in Nat
      BY <1>1 DEF TypeOK
    <3>2. taken[s][pos] = 0
      <4>1. ~(taken[s][pos] > 0)
        BY <1>2, SlotsFinite DEF Inv, MatchInv, LotsOfThePast
      <4> QED
        BY <1>2, <3>1, <4>1
    <3>3. unitCost'[pos] \in Int /\ unitCost[pos] \in Int
      BY <1>3, <1>5
    <3>4. \A p \in Slots : taken[s][p] * unitCost'[p] = taken[s][p] * unitCost[p]
      BY <1>5, <3>2, <3>3
    <3>5. TrailCosts(s)' = TrailCosts(s)
      BY <1>1, <3>4 DEF TrailCosts, Slots
    <3> QED
      BY <3>5 DEF TrailCost
  <2>2. \A s : Portions(s)' = Portions(s)
    BY <1>1 DEF Portions
  <2>3. ASSUME NEW b, NEW s \in Slots PROVE Covers(b, s)' <=> Covers(b, s)
    BY <2>1, <2>2 DEF Covers
  <2>4. Touched' = Touched
    BY <2>2 DEF Touched, Touches
  <2>5. \A k \in DOMAIN disposals : disposals'[k] = disposals[k] /\ disposals[k].slot \in Slots
    BY <1>1, DisposalsType
  <2> QED
    BY <1>1, <2>3, <2>4, <2>5 DEF CostInv, BasisInv, Emptied, Pooled
<1>8. DriftInv'
  <2>1. HeldCost' = HeldCost - held[pos] * unitCost[pos] + held'[pos] * unitCost'[pos]
    BY <1>1, <1>2, <1>5, HeldCostMoves
  <2>2. HeldCost' = HeldCost + n * R
    BY <1>1, <1>2, <1>3, <1>5, <2>1, CostTypes
  <2>3. PICK e \in Nat : Grid' = Grid + e /\ e >= n
    BY <1>1, BuyAdds DEF n
  <2>4. PICK X : X = (Current.amount * Current.price + Current.fee) * Scale /\ Paid' = Paid + X
    BY <1>1, BuyAdds
  <2>5. PICK w \in Nat, x \in Nat, g \in Nat, r \in Nat :
          /\ w = Sales + HeldCost /\ x = Paid /\ g = Grid /\ r = Roundings /\ r + 5 <= Parts
          /\ Accounts(w, x, g, r)
    <3>1. HeldCost \in Nat /\ Sales \in Nat /\ Paid \in Nat /\ Grid \in Nat
      BY <1>1, CostTypes
    <3>2. Roundings \in Nat /\ Roundings + 5 <= Parts
      BY <1>1, <1>2, RoundingsType
    <3> QED
      BY <3>1, <3>2 DEF CostInv, DriftInv
  <2>6. PICK t : t = Current /\ t.amount = n
    BY DEF n
  <2>7. Accounts(w + t.amount * R, x + X, g + e, r + 5)
    <3>1. t.amount \in Nat \ {0} /\ t.price \in Nat /\ t.fee \in Nat /\ t.amount <= e
      BY <1>2, <2>3, <2>6
    <3>2. R = UnitCost(Cost(t), t.amount) /\ X = (t.amount * t.price + t.fee) * Scale
      BY <2>4, <2>6 DEF R
    <3> QED
      BY <2>5, <3>1, <3>2, LotAccounts
  <2>8. w + t.amount * R = Sales' + HeldCost'
    <3>1. Sales' = Sales /\ Sales \in Nat /\ HeldCost \in Nat
      BY <1>1, CostTypes DEF Sales
    <3>2. PICK nR \in Nat : nR = n * R
      BY <1>2, <1>3
    <3> QED
      BY <2>2, <2>5, <2>6, <3>1, <3>2
  <2>9. Roundings' = r + 5
    BY <1>1, <1>7, <2>5, FiveRoundings
  <2> QED
    BY <2>3, <2>4, <2>5, <2>7, <2>8, <2>9 DEF DriftInv
<1> QED
  BY <1>6, <1>7, <1>8 DEF CostInv

(* A buy that is merged into its pool (lots.py:423-428): the average moves *)
(* from one price paid towards another.                                    *)
LEMMA CostMerge ==
  ASSUME Inv, TypeOK', CostInv, MergeIntoPool
  PROVE  CostInv'
<1>1. /\ TypeOK /\ phase = "match" /\ phase' = phase /\ pos' = pos + 1 /\ Pooled
      /\ Matching("buy") /\ Pooled' = Pooled
      /\ UNCHANGED <<request, parsed, taken, disposals, totals, basis>>
  BY DEF MergeIntoPool, Matching, Inv, TypeInv, sale, results, Pooled
<1>2. PICK pool \in Lots(Current.asset) :
        /\ held' = [held EXCEPT ![pool] = held[pool] + Current.amount]
        /\ unitCost' = [unitCost EXCEPT ![pool] = PoolCost(pool, Current)]
  BY DEF MergeIntoPool
<1> DEFINE n == Current.amount
           C == Cost(Current)
           h == held[pool]
           u == unitCost[pool]
           R == UnitCost(Kept(Kept(h * u) + C), h + n)
<1>3. /\ pos \in Slots /\ pos \in DOMAIN parsed /\ pos \in Nat /\ pos <= Len(parsed)
      /\ n \in Nat \ {0} /\ C \in Nat /\ Current.asset \in Assets
      /\ Current.price \in Nat /\ Current.fee \in Nat
  BY <1>1, CurrentType, SlotsFinite DEF Matching, ParsedTrades
<1>4. pool \in Slots /\ h \in Nat \ {0} /\ u \in Nat
  BY <1>1, LotsType DEF TypeOK
<1>5. held' = [held EXCEPT ![pool] = h + n] /\ unitCost' = [unitCost EXCEPT ![pool] = R]
  BY <1>2 DEF PoolCost
<1>6. held'[pool] = h + n /\ unitCost'[pool] = R
      /\ \A q \in Slots \ {pool} : held'[q] = held[q] /\ unitCost'[q] = unitCost[q]
  BY <1>1, <1>4, <1>5 DEF TypeOK
<1>7. h * u \in Nat /\ h + n \in Nat \ {0}
  <2> HIDE DEF h, n, u
  <2> QED
    BY <1>3, <1>4
<1>8. R \in Nat
  <2>1. Kept(h * u) \in Nat
    BY <1>7, KeptType
  <2>2. Kept(h * u) + C \in Nat
    BY <1>3, <2>1
  <2>3. Kept(Kept(h * u) + C) \in Nat
    BY <2>2, KeptType
  <2> HIDE DEF h, n, u, C
  <2> QED
    BY <1>7, <2>3, UnitCostType
<1> HIDE DEF R
<1>9. PoolInv'
  <2> SUFFICES ASSUME NEW a \in Assets, NEW p \in Lots(a)' PROVE PooledLot(a, p)'
    BY <1>1 DEF PoolInv
  <2>1. Lots(a)' = Lots(a)
    BY <1>1, <1>3, <1>4, <1>6, DomainParsed DEF Lots
  <2>2. PooledLot(a, p) /\ p \in Lots(a) /\ p \in Slots
    BY <1>1, <2>1, LotsType DEF CostInv, PoolInv
  <2>3. PricesPaid(a) \subseteq PricesPaid(a)'
    <3>1. BuysOf(a) \subseteq BuysOf(a)'
      BY <1>1, BuyAdds
    <3> QED
      BY <1>1, <3>1 DEF PricesPaid
  <2>4. CASE a = Current.asset
    <3> DEFINE v == UnitCost(C, n)
    <3>1. p = pool
      BY <1>2, <2>2, <2>4 DEF PooledLot
    <3>2. v \in PricesPaid(a)' /\ v \in Nat
      BY <1>1, <1>3, <2>4, BuyAdds, UnitCostType DEF PricesPaid, Current
    <3>3. \A w \in PricesPaid(a) : w \in Nat
      <4>1. \A q \in BuysOf(a) : UnitCost(Cost(parsed[q]), parsed[q].amount) \in Nat
        BY <1>1, BuysOfType, BuysType, UnitCostType
      <4> QED
        BY <4>1 DEF PricesPaid
    <3>4. PICK k \in Nat \ {0} : /\ k = Purchases(a) /\ Purchases(a)' = k + 1
                                /\ 3 * k + 2 <= Parts
      <4>1. Purchases(a)' = Purchases(a) + 1
        BY <1>1, <2>4, BuyAdds
      <4>2. Purchases(a) \in Nat /\ Purchases(a) <= MaxTrades /\ Purchases(a) # 0
        <5>1. PricesPaid(a) # {}
          BY <2>2 DEF PooledLot
        <5>2. BuysOf(a) # {}
          BY <5>1 DEF PricesPaid
        <5> QED
          BY <1>1, <5>2, BuysOfType
      <4>3. 5 * MaxTrades <= Parts
        <5>1. \A m \in Nat : 2 * m * m >= 0
          OBVIOUS
        <5>2. 2 * MaxTrades * MaxTrades >= 0 /\ 2 * MaxTrades * MaxTrades \in Int
          BY <5>1, PartsType
        <5> QED
          BY <5>2, PartsType
      <4> QED
        BY <4>1, <4>2, <4>3, PartsType
    <3>5. PICK high \in PricesPaid(a) : High(u, high, k)
      BY <2>2, <3>1, <3>4 DEF PooledLot
    <3>6. PICK low \in PricesPaid(a) : Low(u, low, k)
      BY <2>2, <3>1, <3>4 DEF PooledLot
    <3>7. h \in Nat \ {0} /\ u \in Nat /\ high \in Nat /\ low \in Nat /\ C \in Nat
      BY <1>3, <1>4, <3>3
    <3> HIDE DEF v, h, n, u, C
    <3>8. PICK w \in {v, high} : v <= w /\ high <= w
      <4>1. v <= high \/ high <= v
        BY <3>2, <3>7
      <4>2. v <= v /\ high <= high
        BY <3>2, <3>7
      <4> QED
        BY <4>1, <4>2
    <3>9. PICK z \in {v, low} : z <= v /\ z <= low
      <4>1. v <= low \/ low <= v
        BY <3>2, <3>7
      <4>2. v <= v /\ low <= low
        BY <3>2, <3>7
      <4> QED
        BY <4>1, <4>2
    <3>10. v = UnitCost(C, n) /\ w \in Nat /\ z \in Nat
           /\ w \in PricesPaid(a)' /\ z \in PricesPaid(a)'
      BY <2>3, <3>2, <3>7, <3>8, <3>9 DEF v
    <3>11. High(R, w, k + 1)
      BY <1>3, <3>2, <3>4, <3>5, <3>7, <3>8, <3>10, MergeHigh DEF R
    <3>12. Low(R, z, k + 1)
      BY <1>3, <3>2, <3>4, <3>6, <3>7, <3>9, <3>10, MergeLow DEF R
    <3>13. held'[pool] <= BoughtUnits(a)'
      <4>1. BoughtUnits(a)' = BoughtUnits(a) + n /\ BoughtUnits(a) \in Nat
        BY <1>1, <2>4, BuyAdds, BuysOfType DEF n
      <4>2. h <= BoughtUnits(a)
        BY <2>2, <3>1 DEF PooledLot, h
      <4> QED
        BY <1>3, <1>4, <1>6, <4>1, <4>2
    <3>14. \E x \in PricesPaid(a)' : High(unitCost'[p], x, Purchases(a)')
      BY <1>6, <3>1, <3>4, <3>10, <3>11
    <3>15. \E x \in PricesPaid(a)' : Low(unitCost'[p], x, Purchases(a)')
      BY <1>6, <3>1, <3>4, <3>10, <3>12
    <3> QED
      BY <2>1, <2>2, <3>1, <3>13, <3>14, <3>15 DEF PooledLot, High, Low
  <2>5. CASE a # Current.asset
    <3>1. p # pool
      BY <2>2, <2>5 DEF Lots
    <3>2. /\ PricesPaid(a)' = PricesPaid(a) /\ BoughtUnits(a)' = BoughtUnits(a)
          /\ Purchases(a)' = Purchases(a)
      <4>1. BuysOf(a)' = BuysOf(a)
        BY <1>1, <2>5, BuyAdds
      <4> QED
        BY <1>1, <4>1 DEF PricesPaid, BoughtUnits, Amounts, Purchases
    <3> QED
      BY <1>6, <2>1, <2>2, <3>1, <3>2 DEF PooledLot, High, Low
  <2> QED
    BY <2>4, <2>5
<1>10. BasisInv' /\ Emptied'
  BY <1>1 DEF BasisInv, Emptied
<1>11. DriftInv'
  <2>1. HeldCost' = HeldCost - held[pool] * unitCost[pool] + held'[pool] * unitCost'[pool]
    BY <1>1, <1>4, <1>6, HeldCostMoves
  <2>2. HeldCost' = HeldCost - h * u + (h + n) * R
    BY <1>6, <2>1
  <2>3. PICK e \in Nat : /\ Grid' = Grid + e
                         /\ \A a : a = Current.asset => e >= BoughtUnits(a)'
    BY <1>1, BuyAdds
  <2>4. PICK X : X = (Current.amount * Current.price + Current.fee) * Scale /\ Paid' = Paid + X
    BY <1>1, BuyAdds
  <2>5. PICK w \in Nat, x \in Nat, g \in Nat, r \in Nat :
          /\ w = Sales + HeldCost /\ x = Paid /\ g = Grid /\ r = Roundings /\ r + 5 <= Parts
          /\ Accounts(w, x, g, r)
    <3>1. HeldCost \in Nat /\ Sales \in Nat /\ Paid \in Nat /\ Grid \in Nat
      BY <1>1, CostTypes
    <3>2. Roundings \in Nat /\ Roundings + 5 <= Parts
      BY <1>1, <1>3, RoundingsType
    <3> QED
      BY <3>1, <3>2 DEF CostInv, DriftInv
  <2>6. h + n <= e
    <3>1. \A a : a = Current.asset =>
            /\ BoughtUnits(a)' = BoughtUnits(a) + n /\ BoughtUnits(a) \in Nat
            /\ h <= BoughtUnits(a)
      BY <1>1, <1>2, <1>3, BuyAdds, BuysOfType DEF CostInv, PoolInv, PooledLot
    <3> HIDE DEF h, n
    <3> QED
      BY <1>3, <1>4, <2>3, <3>1
  <2>7. PICK f \in Nat : f = h * u /\ f <= w /\ f <= HeldCost
    <3>1. held[pool] * unitCost[pool] \in Nat /\ held[pool] * unitCost[pool] <= HeldCost
      BY <1>1, <1>4, LotIsHeld
    <3>2. Sales \in Nat /\ HeldCost \in Nat
      BY <1>1, CostTypes
    <3>3. h * u \in Nat /\ h * u <= HeldCost
      BY <3>1
    <3> HIDE DEF h, u
    <3> QED
      BY <2>5, <3>2, <3>3
  <2>8. PICK t, d : t = Current /\ t.amount = n /\ d = h + n /\ d \in Nat \ {0}
    BY <1>7
  <2>9. R = UnitCost(Kept(Kept(f) + Cost(t)), d)
    BY <2>7, <2>8 DEF R
  <2> HIDE DEF h, n, u, C
  <2>10. Accounts(w - f + d * R, x + X, g + e, r + 5)
    <3>1. /\ t.amount \in Nat /\ t.price \in Nat /\ t.fee \in Nat
          /\ d <= e /\ d \in Nat \ {0}
      BY <1>3, <2>6, <2>8
    <3>2. X = (t.amount * t.price + t.fee) * Scale
      BY <2>4, <2>8
    <3> QED
      BY <2>5, <2>7, <2>9, <3>1, <3>2, PoolAccounts
  <2>11. w - f + d * R = Sales' + HeldCost'
    <3>1. Sales' = Sales /\ Sales \in Nat /\ HeldCost \in Nat
      BY <1>1, CostTypes DEF Sales
    <3>2. PICK dR \in Nat : dR = d * R
      BY <1>8, <2>8
    <3>3. HeldCost' = HeldCost - f + dR
      BY <2>2, <2>7, <2>8, <3>2
    <3> QED
      BY <2>5, <2>7, <3>1, <3>2, <3>3
  <2>12. Roundings' = r + 5
    <3>1. Touched' = Touched
      BY <1>1 DEF Touched, Touches, Portions
    <3> QED
      BY <1>1, <2>5, <3>1, FiveRoundings
  <2> QED
    BY <2>3, <2>4, <2>5, <2>10, <2>11, <2>12 DEF DriftInv
<1> QED
  BY <1>9, <1>10, <1>11 DEF CostInv

(* The start of a sell (lots.py:436-453): nothing has been taken yet. *)
LEMMA CostBegin ==
  ASSUME Inv, CostInv, BeginSell
  PROVE  CostInv'
<1>1. /\ TypeOK /\ phase = "match" /\ phase' = "consume" /\ basis' = 0
      /\ pos <= Len(parsed) /\ pos \in Nat /\ pos \in Slots /\ Pooled' = Pooled
      /\ UNCHANGED <<request, parsed, pos, held, unitCost, taken, disposals, totals>>
  BY CurrentType DEF BeginSell, Matching, Inv, TypeInv, TypeOK, inventory, results, Pooled
<1>2. \A p \in Slots : taken[pos][p] = 0
  <2>1. \A p \in Slots : taken[pos][p] \in Nat
    BY <1>1 DEF TypeOK
  <2>2. \A p \in Slots : ~(taken[pos][p] > 0)
    BY <1>1 DEF Inv, QuantityInv, TrailsOfThePast
  <2> QED
    BY <2>1, <2>2
<1>3. PoolInv'
  BY <1>1, PoolsStay DEF CostInv
<1>4. Covers(0, pos)
  <2>1. TrailCost(pos) = 0
    <3>1. \A p \in Slots : TrailCosts(pos)[p] = 0
      <4>1. \A p \in Slots : unitCost[p] \in Nat
        BY <1>1 DEF TypeOK
      <4> QED
        BY <1>2, <4>1 DEF TrailCosts
    <3>2. SumFunctionOnSet(TrailCosts(pos), Slots) = 0
      BY <3>1, SlotsFinite, SumNat
    <3> QED
      BY <3>2 DEF TrailCost, TrailCosts, SumFunction
  <2>2. Cardinality(Portions(pos)) = 0
    <3>1. Portions(pos) = {}
      BY <1>2 DEF Portions
    <3> QED
      BY <3>1, FS_EmptySet
  <2> QED
    BY <2>1, <2>2, PartsType DEF Covers, Accounts, NoMore, NoLess, Slack
<1>5. BasisInv' /\ Emptied'
  <2>1. Covers(basis, pos)'
    BY <1>1, <1>4 DEF Covers, TrailCost, TrailCosts, Portions, Slots
  <2>2. \A k \in DOMAIN disposals : disposals'[k] = disposals[k]
    BY <1>1
  <2>3. \A p \in Slots : taken'[pos'][p] = 0
    BY <1>1, <1>2
  <2> QED
    BY <1>1, <2>1, <2>2, <2>3, TrailsStay DEF CostInv, BasisInv, Emptied, Slots
<1>6. DriftInv'
  <2>1. HeldCost' = HeldCost
    BY <1>1 DEF HeldCost, HeldCosts
  <2>2. Sales' = Sales
    <3>1. totals.basis \in Nat
      BY <1>1 DEF TypeOK
    <3> QED
      BY <1>1, <3>1 DEF Sales
  <2>3. Roundings' = Roundings
    BY <1>1, TrailsStay DEF Roundings
  <2> QED
    BY <1>1, <2>1, <2>2, <2>3, GridStays DEF CostInv, DriftInv
<1> QED
  BY <1>3, <1>5, <1>6 DEF CostInv

(* A sum of costs whose money partly moves into a basis, rounded on the    *)
(* way and again in the basis (lots.py:461).                               *)
LEMMA MovesToBasis ==
  ASSUME NEW w \in Nat, NEW x \in Nat, NEW g \in Nat, NEW n \in Nat, n + 2 <= Parts,
         Accounts(w, x, g, n), NEW f \in Nat, NEW b \in Nat, f + b <= w
  PROVE  /\ Kept(b + Kept(f)) \in Nat
         /\ Accounts(w - f - b + Kept(b + Kept(f)), x, g, n + 2)
<1>1. PICK k \in Nat, l \in Nat :
        k = n + 1 /\ l = n + 2 /\ n < Parts /\ k < Parts /\ l = k + 1 /\ f <= w
  BY PartsType
<1>2. PICK y \in Nat : y = Kept(f) /\ w - f + y \in Nat /\ Accounts(w - f + y, x, g, n + 1)
  BY <1>1, Rounds
<1>3. PICK v \in Nat, c \in Nat : v = w - f + y /\ c = b + y /\ c <= v
  BY <1>2
<1>4. Accounts(v, x, g, k)
  BY <1>1, <1>2, <1>3
<1>5. PICK z \in Nat : z = Kept(c) /\ v - c + z \in Nat /\ Accounts(v - c + z, x, g, k + 1)
  BY <1>1, <1>3, <1>4, Rounds
<1>6. v - c + z = w - f - b + z
  BY <1>3
<1> QED
  BY <1>1, <1>2, <1>3, <1>5, <1>6

(* One round of a sell: what it takes leaves the cost of what is held and  *)
(* reaches the basis (lots.py:454-463).                                    *)
LEMMA CostRound ==
  ASSUME Inv, TypeInv', CostInv, ConsumeLot
  PROVE  CostInv'
<1>1. /\ TypeOK /\ TypeOK' /\ phase = "consume" /\ phase' = phase /\ remaining > 0
      /\ remaining \in Nat /\ remaining' \in Nat /\ Pooled' = Pooled
      /\ UNCHANGED <<request, parsed, pos, unitCost, disposals, totals>>
  BY DEF ConsumeLot, Inv, TypeInv, TypeOK, results, Pooled
<1>2. PICK p \in Lots(Current.asset), n \in Nat \ {0} :
        /\ n <= held[p] /\ (n = held[p] \/ n = remaining)
        /\ remaining' = remaining - n
        /\ held' = [held EXCEPT ![p] = held[p] - n]
        /\ taken' = [taken EXCEPT ![pos][p] = taken[pos][p] + n]
        /\ basis' = Kept(basis + Kept(n * unitCost[p]))
  BY RoundMoves DEF Inv
<1>3. /\ p \in Slots /\ pos \in Slots /\ held[p] \in Nat /\ held[p] > 0
      /\ taken \in [Slots -> [Slots -> Nat]] /\ held \in [Slots -> Nat]
      /\ pos <= Len(parsed)
  BY <1>1, LotsType, CurrentType DEF Inv, TypeInv, Progress, TypeOK
<1>4. PICK u \in Nat, c \in Nat, f \in Nat :
        u = unitCost[p] /\ c = basis /\ f = n * u /\ basis' = Kept(c + Kept(f))
  <2>1. unitCost[p] \in Nat /\ basis \in Nat
    BY <1>1, <1>3 DEF TypeOK
  <2>2. PICK u \in Nat, c \in Nat : u = unitCost[p] /\ c = basis
    BY <2>1
  <2>3. PICK f \in Nat : f = n * u
    OBVIOUS
  <2>4. basis' = Kept(c + Kept(f))
    BY <1>2, <2>2, <2>3
  <2> QED
    BY <2>2, <2>3, <2>4
<1>5. /\ taken[pos][p] = 0 /\ taken'[pos][p] = n
      /\ \A q \in Slots \ {p} : taken'[pos][q] = taken[pos][q] /\ held'[q] = held[q]
      /\ \A s \in Slots : s # pos => taken'[s] = taken[s]
      /\ held'[p] = held[p] - n
  <2>1. ~(taken[pos][p] > 0)
    BY <1>1, <1>3 DEF CostInv, Emptied
  <2>2. taken[pos][p] = 0
    BY <1>3, <2>1
  <2> QED
    BY <1>2, <1>3, <2>2
<1>6. PoolInv'
  <2> SUFFICES ASSUME Pooled, NEW a \in Assets, NEW q \in Lots(a)' PROVE PooledLot(a, q)'
    BY <1>1 DEF PoolInv
  <2>1. \A r \in Slots : held'[r] \in Nat /\ held[r] \in Nat /\ held'[r] <= held[r]
    BY <1>2, <1>3, <1>5
  <2>2. Lots(a)' \subseteq Lots(a)
    BY <1>1, <2>1, DomainParsed DEF Lots
  <2>3. /\ PricesPaid(a)' = PricesPaid(a) /\ BoughtUnits(a)' = BoughtUnits(a)
        /\ Purchases(a)' = Purchases(a)
    BY <1>1 DEF PricesPaid, BoughtUnits, Amounts, Purchases, BuysOf, Bought
  <2>4. PooledLot(a, q) /\ q \in Slots /\ BoughtUnits(a) \in Nat
    BY <1>1, <2>2, LotsType, BuysOfType DEF CostInv, PoolInv
  <2> QED
    BY <1>1, <2>1, <2>2, <2>3, <2>4 DEF PooledLot, High, Low
<1>7. TrailCost(pos)' = TrailCost(pos) + f /\ TrailCost(pos) \in Nat
  <2>0. PICK t, v : t = TrailCosts(pos) /\ v = TrailCosts(pos)'
    OBVIOUS
  <2>1. /\ t = [q \in Slots |-> taken[pos][q] * unitCost[q]]
        /\ v = [q \in Slots |-> taken'[pos][q] * unitCost[q]]
    BY <1>1, <2>0 DEF TrailCosts, Slots
  <2>2. \A q \in Slots : taken[pos][q] \in Nat /\ taken'[pos][q] \in Nat /\ unitCost[q] \in Nat
    BY <1>1, <1>3 DEF TypeOK
  <2>3. \A x, y \in Nat : x * y \in Nat
    OBVIOUS
  <2>4. \A q \in Slots : t[q] \in Nat /\ v[q] \in Nat
    BY <2>1, <2>2, <2>3
  <2>5. \A q \in Slots : t[q] \in Int /\ v[q] \in Int
    BY <2>4
  <2>6. \A q \in Slots \ {p} : t[q] = v[q]
    BY <1>5, <2>1
  <2>7. t[p] = 0 /\ v[p] = f
    BY <1>3, <1>4, <1>5, <2>1
  <2>8. SumFunctionOnSet(v, Slots) = SumFunctionOnSet(t, Slots) - t[p] + v[p]
    <3>1. /\ p \in Slots
          /\ \A q \in Slots : t[q] \in Int /\ v[q] \in Int
          /\ \A q \in Slots \ {p} : t[q] = v[q]
      BY <1>3, <2>5, <2>6
    <3> QED
      BY <3>1, SlotsFinite, SumChange
  <2>9. SumFunctionOnSet(t, Slots) \in Nat
    BY <2>4, SlotsFinite, SumNat
  <2>10. SumFunctionOnSet(v, Slots) = SumFunctionOnSet(t, Slots) + f
    BY <2>7, <2>8, <2>9
  <2>11. DOMAIN t = Slots /\ DOMAIN v = Slots
    BY <2>1
  <2> QED
    BY <2>0, <2>9, <2>10, <2>11 DEF TrailCost, SumFunction
<1>8. PICK A, B : /\ A = {q \in Slots : taken[pos][q] > 0} /\ A \subseteq Slots
                  /\ B = {q \in Slots : taken'[pos][q] > 0}
                  /\ B = A \cup {p} /\ p \notin A
  <2>1. PICK A, B : /\ A = {q \in Slots : taken[pos][q] > 0}
                    /\ B = {q \in Slots : taken'[pos][q] > 0}
    OBVIOUS
  <2>2. \A q \in Slots : taken'[pos][q] > 0 <=> taken[pos][q] > 0 \/ q = p
    BY <1>2, <1>5
  <2>3. p \in Slots /\ ~(taken[pos][p] > 0)
    BY <1>3, <1>5
  <2>4. B = A \cup {p} /\ p \notin A /\ A \subseteq Slots
    BY <2>1, <2>2, <2>3
  <2> QED
    BY <2>1, <2>4
<1>9. PICK k \in Nat : k = Cardinality(A) /\ Cardinality(B) = k + 1 /\ k + 1 <= MaxTrades
  <2>1. IsFiniteSet(A) /\ Cardinality(A) \in Nat
    BY <1>8, SlotsFinite, FS_Subset, FS_CardinalityType
  <2>2. Cardinality(A \cup {p}) = Cardinality(A) + 1
    BY <1>8, <2>1, FS_AddElement
  <2>3. B \in SUBSET Slots
    BY <1>8
  <2>4. Cardinality(B) <= MaxTrades
    BY <2>3, SlotsCount, SlotsFinite, FS_Subset
  <2> QED
    BY <1>8, <2>1, <2>2, <2>4
<1>10. Touched' = Touched + 1 /\ Touched \in Nat
  <2>1. PICK t, v : t = Touches /\ v = Touches'
    OBVIOUS
  <2>2. /\ t = [s \in Slots |-> Cardinality({q \in Slots : taken[s][q] > 0})]
        /\ v = [s \in Slots |-> Cardinality({q \in Slots : taken'[s][q] > 0})]
    BY <2>1 DEF Touches, Portions, Slots
  <2>3. t[pos] = k /\ v[pos] = k + 1 /\ \A s \in Slots \ {pos} : t[s] = v[s]
    BY <1>3, <1>5, <1>8, <1>9, <2>2
  <2>4. /\ \A s \in Slots : t[s] \in Int
        /\ Touched = SumFunctionOnSet(t, Slots) /\ Touched \in Nat
    BY <1>1, <2>1, TouchesType
  <2>5. \A s \in Slots : v[s] \in Int
    BY <2>3, <2>4
  <2>6. Touched' = SumFunctionOnSet(v, Slots)
    <3>1. DOMAIN v = Slots
      BY <2>2
    <3> QED
      BY <2>1, <3>1 DEF Touched, SumFunction
  <2>7. SumFunctionOnSet(v, Slots) = SumFunctionOnSet(t, Slots) - t[pos] + v[pos]
    <3>1. /\ pos \in Slots
          /\ \A s \in Slots : t[s] \in Int /\ v[s] \in Int
          /\ \A s \in Slots \ {pos} : t[s] = v[s]
      BY <1>3, <2>3, <2>4, <2>5
    <3> QED
      BY <3>1, SlotsFinite, SumChange
  <2> QED
    BY <2>3, <2>4, <2>6, <2>7
<1>11. PICK r \in Nat : r = Roundings /\ Roundings' = r + 2 /\ r + 2 <= Parts
  <2>1. PICK i \in Nat, t \in Nat : i = pos /\ t = Touched
    BY <1>1, <1>10 DEF TypeOK
  <2>2. Roundings = 5 * (i - 1) + 2 * t /\ Roundings' = 5 * (i - 1) + 2 * (t + 1)
    BY <1>1, <1>10, <2>1 DEF Roundings
  <2>3. Roundings \in Nat /\ Roundings + 5 <= Parts
    BY <1>1, <1>3, RoundingsType
  <2> QED
    BY <2>2, <2>3, PartsType
<1>12. Covers(basis, pos)'
  <2>1. PICK T \in Nat : T = TrailCost(pos) /\ TrailCost(pos)' = T + f
    BY <1>7
  <2>2. PICK j \in Nat : j = 2 * k /\ 2 * (k + 1) = j + 2 /\ j + 2 <= Parts
    <3>1. 2 * MaxTrades <= Parts
      <4>1. \A m \in Nat : 2 * m * m \in Nat
        OBVIOUS
      <4>2. 2 * MaxTrades * MaxTrades \in Nat
        BY <4>1, PartsType
      <4> QED
        BY <4>2, PartsType
    <3> QED
      BY <1>9, <3>1, PartsType
  <2>3. Accounts(c, T, 0, j)
    <3>1. Cardinality(Portions(pos)) = k
      BY <1>8, <1>9 DEF Portions
    <3> QED
      BY <1>1, <1>4, <2>1, <2>2, <3>1 DEF CostInv, BasisInv, Covers
  <2>4. PICK v \in Nat, x \in Nat : v = c + f /\ x = T + f
    OBVIOUS
  <2>5. Accounts(v, x, 0, j)
    <3>1. c \in Int /\ T \in Int /\ 0 \in Int
      OBVIOUS
    <3> QED
      BY <2>3, <2>4, <3>1, Pays
  <2>6. /\ Kept(c + Kept(f)) \in Nat
        /\ Accounts(v - f - c + Kept(c + Kept(f)), x, 0, j + 2)
    <3>1. f + c <= v /\ 0 \in Nat
      BY <2>4
    <3> QED
      BY <2>2, <2>5, <3>1, MovesToBasis
  <2>7. PICK y \in Nat : y = basis' /\ v - f - c + y = y /\ Accounts(v - f - c + y, x, 0, j + 2)
    BY <1>4, <2>4, <2>6
  <2>8. Accounts(y, x, 0, j + 2)
    BY <2>7
  <2>9. Cardinality(Portions(pos)') = k + 1
    BY <1>1, <1>8, <1>9 DEF Portions, Slots
  <2> QED
    BY <2>1, <2>2, <2>4, <2>7, <2>8, <2>9 DEF Covers
<1>13. BasisInv'
  <2>1. ASSUME NEW s \in Slots, s # pos PROVE \A b : Covers(b, s)' <=> Covers(b, s)
    <3>1. TrailCost(s)' = TrailCost(s)
      BY <1>1, <1>5, <2>1 DEF TrailCost, TrailCosts, Slots
    <3>2. Portions(s)' = Portions(s)
      BY <1>5, <2>1 DEF Portions, Slots
    <3> QED
      BY <3>1, <3>2 DEF Covers
  <2>2. \A i \in DOMAIN disposals : /\ disposals'[i] = disposals[i]
                                   /\ disposals[i].slot \in Slots /\ disposals[i].slot # pos
    <3>1. pos \in Nat
      BY <1>1 DEF TypeOK
    <3> QED
      BY <1>1, <3>1, DisposalsType DEF Inv, QuantityInv, SellsHonoured
  <2> QED
    BY <1>1, <1>12, <2>1, <2>2 DEF CostInv, BasisInv
<1>14. Emptied'
  <2> SUFFICES ASSUME remaining' > 0, NEW q \in Slots, taken'[pos][q] > 0 PROVE held'[q] = 0
    BY <1>1 DEF Emptied, Slots
  <2>1. CASE q = p
    BY <1>1, <1>2, <1>3, <1>5, <2>1
  <2>2. CASE q # p
    BY <1>1, <1>5, <2>2 DEF CostInv, Emptied
  <2> QED
    BY <2>1, <2>2
<1>15. DriftInv'
  <2>1. \A q \in Slots \ {p} : held'[q] = held[q] /\ unitCost'[q] = unitCost[q]
    BY <1>1, <1>5
  <2>2. HeldCost' = HeldCost - held[p] * unitCost[p] + held'[p] * unitCost'[p]
    BY <1>1, <1>3, <2>1, HeldCostMoves
  <2>3. PICK H \in Nat, h \in Nat : H = HeldCost /\ h = held[p] /\ n <= h
    BY <1>1, <1>2, <1>3, CostTypes
  <2>4. HeldCost' = H - h * u + (h - n) * u
    BY <1>1, <1>4, <1>5, <2>2, <2>3
  <2>5. HeldCost' = H - f
    <3>1. PICK y \in Nat, z \in Nat : y = h * u /\ z = (h - n) * u /\ z = y - n * u
      BY <2>3
    <3> QED
      BY <1>4, <2>4, <3>1
  <2>6. f <= H
    <3>1. h * u <= H
      BY <1>1, <1>3, <1>4, <2>3, LotIsHeld
    <3>2. (h - n) * u >= 0
      BY <2>3
    <3> QED
      BY <1>4, <2>3, <3>1, <3>2
  <2>7. PICK w \in Nat, x \in Nat, g \in Nat, S \in Nat :
          /\ w = S + c + H /\ x = Paid /\ g = Grid /\ S = totals.basis
          /\ Accounts(w, x, g, r)
    <3>1. Paid \in Nat /\ Grid \in Nat /\ totals.basis \in Nat
      BY <1>1, CostTypes DEF TypeOK
    <3>2. Sales + HeldCost = totals.basis + c + H
      BY <1>1, <1>4, <2>3 DEF Sales
    <3> QED
      BY <1>11, <3>1, <3>2 DEF CostInv, DriftInv
  <2>8. /\ Kept(c + Kept(f)) \in Nat
        /\ Accounts(w - f - c + Kept(c + Kept(f)), x, g, r + 2)
    <3>1. f + c <= w
      BY <2>6, <2>7
    <3> QED
      BY <1>11, <2>7, <3>1, MovesToBasis
  <2>9. PICK y \in Nat : y = basis' /\ Accounts(w - f - c + y, x, g, r + 2)
    BY <1>4, <2>8
  <2>10. Sales' + HeldCost' = w - f - c + y
    <3>1. Sales' = S + y
      BY <1>1, <2>7, <2>9 DEF Sales
    <3> QED
      BY <2>3, <2>5, <2>7, <3>1
  <2> QED
    BY <1>1, <1>11, <2>7, <2>9, <2>10, GridStays DEF DriftInv
<1> QED
  BY <1>6, <1>13, <1>14, <1>15 DEF CostInv

(* The end of a sell (lots.py:465-477). *)
LEMMA CostFinish ==
  ASSUME Inv, CostInv, FinishSell
  PROVE  CostInv'
<1>1. /\ TypeOK /\ phase = "consume" /\ phase' = "match" /\ pos' = pos + 1
      /\ pos <= Len(parsed) /\ pos \in Nat /\ Pooled' = Pooled
      /\ UNCHANGED <<request, parsed, held, unitCost, taken, basis>>
  BY DEF FinishSell, Inv, TypeInv, Progress, TypeOK, inventory, sale, Pooled
<1>2. PICK m : /\ disposals' = Append(disposals, [slot |-> pos, proceeds |-> m, basis |-> basis])
               /\ totals'.basis = Kept(totals.basis + basis)
  BY DEF FinishSell
<1>3. pos \in DOMAIN parsed /\ parsed[pos].side = "sell"
  BY <1>1, CurrentType DEF Inv, QuantityInv, SellInProgress, Current
<1>4. Buys' = Buys /\ \A a : BuysOf(a)' = BuysOf(a)
  <2>1. 1..pos = 1..(pos - 1) \cup {pos} /\ (pos + 1) - 1 = pos /\ pos >= 1
    BY <1>1 DEF TypeOK
  <2>2. /\ Buys' = {q \in 1..pos : parsed[q].side = "buy"}
        /\ \A a : BuysOf(a)' = {q \in 1..pos : Bought(q, a)}
    BY <1>1, <2>1 DEF Buys, BuysOf, Bought
  <2>3. /\ {q \in 1..pos : parsed[q].side = "buy"} = Buys
        /\ \A a : {q \in 1..pos : Bought(q, a)} = BuysOf(a)
    BY <1>3, <2>1 DEF Buys, BuysOf, Bought
  <2> QED
    BY <2>2, <2>3
<1>5. PoolInv'
  <2>1. \A a : /\ Lots(a)' = Lots(a) /\ BoughtUnits(a)' = BoughtUnits(a)
               /\ PricesPaid(a)' = PricesPaid(a) /\ Purchases(a)' = Purchases(a)
    BY <1>1, <1>4 DEF Lots, PricesPaid, BoughtUnits, Amounts, Purchases
  <2>2. \A a, p : PooledLot(a, p)' <=> PooledLot(a, p)
    BY <1>1, <2>1 DEF PooledLot, High, Low
  <2> QED
    BY <1>1, <2>1, <2>2 DEF CostInv, PoolInv
<1>6. BasisInv' /\ Emptied'
  <2>1. ASSUME ~Pooled, NEW k \in DOMAIN disposals'
        PROVE  Covers(disposals'[k].basis, disposals'[k].slot)
    <3>1. \/ k \in DOMAIN disposals /\ disposals'[k] = disposals[k]
          \/ disposals'[k].slot = pos /\ disposals'[k].basis = basis
      <4> DEFINE d == [slot |-> pos, proceeds |-> m, basis |-> basis]
      <4>1. d.slot = pos /\ d.basis = basis
        OBVIOUS
      <4>2. disposals \in Seq([slot : Slots, proceeds : Int, basis : Nat])
        BY <1>1 DEF TypeOK
      <4> HIDE DEF d
      <4>3. disposals' = Append(disposals, d)
        BY <1>2 DEF d
      <4>4. /\ Len(disposals) \in Nat /\ DOMAIN disposals = 1..Len(disposals)
            /\ DOMAIN disposals' = 1..(Len(disposals) + 1)
            /\ \A i \in 1..Len(disposals) : disposals'[i] = disposals[i]
            /\ disposals'[Len(disposals) + 1] = d
        BY <4>2, <4>3
      <4> QED
        BY <4>1, <4>4
    <3> QED
      BY <1>1, <2>1, <3>1 DEF CostInv, BasisInv
  <2> QED
    BY <1>1, <2>1, TrailsStay DEF BasisInv, Emptied
<1>7. DriftInv'
  <2>1. HeldCost' = HeldCost /\ Paid' = Paid
    BY <1>1, <1>4 DEF HeldCost, HeldCosts, Paid, PaidCosts
  <2>2. Grid' = Grid
    <3>1. \A p : RoundedUnits(p)' = RoundedUnits(p)
      BY <1>1, <1>4 DEF RoundedUnits
    <3> QED
      BY <1>4, <3>1 DEF Grid, Grids
  <2>3. PICK w \in Nat, x \in Nat, g \in Nat, r \in Nat, f \in Nat, H \in Nat :
          /\ f = totals.basis + basis /\ H = HeldCost /\ w = f + H
          /\ x = Paid /\ g = Grid /\ r = Roundings /\ r + 5 <= Parts
          /\ Accounts(w, x, g, r)
    <3>1. /\ HeldCost \in Nat /\ Paid \in Nat /\ Grid \in Nat
          /\ totals.basis \in Nat /\ basis \in Nat
      BY <1>1, CostTypes DEF TypeOK
    <3>2. Roundings \in Nat /\ Roundings + 5 <= Parts
      BY <1>1, RoundingsType
    <3>3. Sales = totals.basis + basis
      BY <1>1 DEF Sales
    <3> QED
      BY <3>1, <3>2, <3>3 DEF CostInv, DriftInv
  <2>4. PICK k \in Nat, l \in Nat : k = r + 1 /\ l = r + 5 /\ k <= l /\ r < Parts /\ f <= w
    BY <2>3, PartsType
  <2>5. PICK y \in Nat : y = Kept(f) /\ w - f + y \in Nat /\ Accounts(w - f + y, x, g, r + 1)
    BY <2>3, <2>4, Rounds
  <2>6. PICK v \in Nat : v = w - f + y /\ v \in Int /\ Accounts(v, x, g, k)
    BY <2>4, <2>5
  <2>7. Accounts(v, x, g, l)
    BY <2>4, <2>6, Loosens
  <2>8. Sales' + HeldCost' = v
    <3>1. Sales' = y
      BY <1>1, <1>2, <2>3, <2>5 DEF Sales
    <3> QED
      BY <2>1, <2>3, <2>6, <3>1
  <2>9. Roundings' = l
    <3>1. Touched' = Touched
      BY <1>1, TrailsStay
    <3> QED
      BY <1>1, <2>3, <2>4, <3>1, FiveRoundings
  <2> QED
    BY <2>1, <2>2, <2>3, <2>7, <2>8, <2>9 DEF DriftInv
<1> QED
  BY <1>5, <1>6, <1>7 DEF CostInv

LEMMA CostStep == Inv /\ Inv' /\ CostInv /\ [Next]_vars => CostInv'
<1> SUFFICES ASSUME Inv, Inv', CostInv, [Next]_vars PROVE CostInv'
  OBVIOUS
<1>0. TypeOK' /\ TypeInv'
  BY DEF Inv, TypeInv
<1>1. CASE CheckHeader
  BY <1>0, <1>1, CostReading DEF CheckHeader, Fail, inventory, sale, results
<1>2. CASE ParseTrade \/ RefuseTrade
  BY <1>0, <1>2, CostReading
    DEF ParseTrade, RefuseTrade, Reading, Fail, inventory, sale, results
<1>3. CASE SortTrades
  BY <1>0, <1>3, CostReading DEF SortTrades, Fail, inventory, sale, results
<1>4. CASE RefuseSell \/ Report
  BY <1>4, CostFrame
    DEF RefuseSell, Report, Matching, Fail, inventory, sale, results
<1>5. CASE UNCHANGED vars
  BY <1>5, CostFrame DEF vars
<1> QED
  BY <1>0, <1>1, <1>2, <1>3, <1>4, <1>5, CostOpen, CostMerge, CostBegin, CostRound,
     CostFinish DEF Next, Match

LEMMA CostInvariant == Spec => [](Inv /\ CostInv)
<1>1. Inv /\ CostInv /\ Inv' /\ [Next]_vars => CostInv'
  BY CostStep
<1> QED
  BY <1>1, CostInit, Invariant, PTL DEF Spec

(* Cost is neither created nor lost beyond the roundings of the sums,      *)
(* products and quotients, under every method and for any precision        *)
(* (lots.py:14, 418-433, 461, 477).                                        *)
THEOREM CostIsConserved == Spec => []CostConserved
<1>1. CostInv => CostConserved
  BY DEF CostInv, DriftInv, CostConserved, HeldCost, HeldCosts, Paid, PaidCosts,
         Grid, Grids, Sales, Roundings, Touched, Touches
<1> QED
  BY <1>1, CostInvariant, PTL

(* Under ACB an asset has one pool, whose average stays between the        *)
(* cheapest and the dearest purchase, but for the three roundings of every *)
(* merge (lots.py:420-428).                                                *)
THEOREM PoolsAverage == Spec => []PoolAverages
<1>1. Inv /\ CostInv => PoolAverages
  <2> SUFFICES ASSUME Inv, CostInv, Pooled, NEW a \in Assets, NEW p \in Lots(a)
               PROVE  /\ \A q \in Lots(a) : q = p
                      /\ \E u \in PricesPaid(a) :
                           NoMore(unitCost[p], u, Purchases(a), 3 * Purchases(a))
                      /\ \E u \in PricesPaid(a) :
                           NoLess(unitCost[p], u, Purchases(a), 3 * Purchases(a))
    BY DEF PoolAverages, PricesPaid, Purchases
  <2>1. PooledLot(a, p) /\ TypeOK
    BY DEF Inv, TypeInv, CostInv, PoolInv
  <2>2. unitCost[p] \in Nat /\ Purchases(a) \in Nat
    BY <2>1, LotsType, BuysOfType DEF TypeOK
  <2>3. \A u \in PricesPaid(a) : u \in Nat
    <3>1. \A q \in BuysOf(a) : UnitCost(Cost(parsed[q]), parsed[q].amount) \in Nat
      BY <2>1, BuysOfType, BuysType, UnitCostType
    <3> QED
      BY <3>1 DEF PricesPaid
  <2>4. PICK c \in Nat, n \in Nat : c = unitCost[p] /\ n = Purchases(a)
    BY <2>2
  <2>5. PICK u \in PricesPaid(a) : u \in Nat /\ High(c, u, n)
    BY <2>1, <2>3, <2>4 DEF PooledLot
  <2>6. PICK v \in PricesPaid(a) : v \in Nat /\ Low(c, v, n)
    BY <2>1, <2>3, <2>4 DEF PooledLot
  <2>7. NoMore(c, u, n, 3 * n) /\ NoLess(c, v, n, 3 * n)
    BY <2>5, <2>6, HighAndLow
  <2> QED
    BY <2>1, <2>4, <2>7 DEF PooledLot
<1> QED
  BY <1>1, CostInvariant, PTL

(***************************************************************************)
(* HIFO                                                                    *)
(***************************************************************************)

(* What the sell in progress has taken is a sum over the lots of its asset *)
(* bought so far.                                                          *)
LEMMA SaleOfLots ==
  ASSUME Inv, CostInv, phase = "consume", NEW lots, lots = BuysOf(Current.asset)
  PROVE  /\ lots \subseteq Slots /\ IsFiniteSet(lots)
         /\ pos \in Slots /\ remaining + SumFunctionOnSet(taken[pos], lots) = Current.amount
         /\ \A p \in lots : /\ taken[pos][p] \in Nat /\ unitCost[p] \in Nat
                            /\ TrailCosts(pos)[p] = taken[pos][p] * unitCost[p]
                            /\ TrailCosts(pos)[p] \in Int
         /\ Current.amount \in Nat
<1>1. /\ TypeOK /\ Current.amount \in Nat /\ pos <= Len(parsed) /\ pos \in Slots /\ pos \in Nat
      /\ remaining + Sold(pos) = Current.amount /\ LotsOfThePast
  BY CurrentType, SlotsFinite
    DEF Inv, TypeInv, Progress, QuantityInv, MatchInv, SellInProgress, ParsedTrades
<1>2. lots \subseteq Slots /\ IsFiniteSet(lots)
  BY <1>1, BuysOfType
<1>3. \A p \in Slots : taken[pos][p] \in Nat /\ unitCost[p] \in Nat
  BY <1>1 DEF TypeOK
<1>4. \A p \in Slots \ lots : taken[pos][p] = 0
  <2>1. \A p \in Slots \ lots : ~(taken[pos][p] > 0)
    <3> SUFFICES ASSUME NEW p \in Slots, taken[pos][p] > 0 PROVE p \in lots
      OBVIOUS
    <3>1. p < pos /\ Bought(p, Current.asset)
      BY <1>1 DEF LotsOfThePast, Current
    <3>2. p \in 1..(pos - 1)
      <4>1. p \in Nat /\ p > 0 /\ pos \in Nat
        BY <1>1, SlotsFinite
      <4> QED
        BY <3>1, <4>1
    <3> QED
      BY <3>1, <3>2 DEF BuysOf
  <2> QED
    BY <1>3, <2>1
<1>5. \A p \in Slots : /\ TrailCosts(pos)[p] = taken[pos][p] * unitCost[p]
                       /\ TrailCosts(pos)[p] \in Int
  <2>1. \A x, y \in Nat : x * y \in Int
    OBVIOUS
  <2> QED
    BY <1>3, <2>1 DEF TrailCosts
<1>7. Sold(pos) = SumFunctionOnSet(taken[pos], Slots)
  <2>1. DOMAIN taken[pos] = Slots
    BY <1>1 DEF TypeOK
  <2> QED
    BY <2>1 DEF Sold, SumFunction
<1>8. SumFunctionOnSet(taken[pos], lots) = SumFunctionOnSet(taken[pos], Slots)
  <2>1. \A p \in Slots : taken[pos][p] \in Int
    BY <1>3
  <2> QED
    BY <1>2, <1>4, <2>1, SlotsFinite, SumSupport
<1> QED
  BY <1>1, <1>2, <1>3, <1>5, <1>7, <1>8

(* The exchange argument: a sell that has left something of a dearer lot   *)
(* has taken nothing of a cheaper one.  Against the cost of the cheapest   *)
(* unit it took, no other choice gains on any lot.                         *)
LEMMA GreedyIsBest ==
  ASSUME Inv, CostInv, request.method = "HIFO", phase = "consume", remaining = 0,
         NEW lots, lots = BuysOf(Current.asset),
         NEW f \in [lots -> Nat], SumFunction(f) = Current.amount,
         \A p \in lots : f[p] <= held[p] + taken[pos][p]
  PROVE  SumFunction([p \in lots |-> f[p] * unitCost[p]])
           <= SumFunction([p \in lots |-> taken[pos][p] * unitCost[p]])
<1> DEFINE t == taken[pos]
           g == [p \in lots |-> f[p] * unitCost[p]]
<1>1. /\ lots \subseteq Slots /\ IsFiniteSet(lots)
      /\ pos \in Slots /\ SumFunctionOnSet(t, lots) = Current.amount
      /\ \A p \in lots : /\ t[p] \in Nat /\ unitCost[p] \in Nat
                         /\ TrailCosts(pos)[p] = t[p] * unitCost[p]
                         /\ TrailCosts(pos)[p] \in Int
  <2>1. \A p \in lots : t[p] \in Int
    BY SaleOfLots
  <2>2. IsFiniteSet(lots)
    BY SaleOfLots
  <2>3. SumFunctionOnSet(t, lots) \in Int
    BY <2>1, <2>2, SumRemove
  <2> QED
    BY <2>3, SaleOfLots
<1>2. Current.amount \in Nat /\ Current.amount > 0
  BY CurrentType DEF Inv, TypeInv, Progress, ParsedTrades
<1>3. \E p \in lots : t[p] > 0
  <2>1. (\A p \in lots : t[p] = 0) => SumFunctionOnSet(t, lots) = 0
    BY <1>1, SumNat
  <2> QED
    BY <1>1, <1>2, <2>1
<1>4. PICK p0 \in lots : t[p0] > 0 /\ \A q \in lots : t[q] > 0 => unitCost[p0] <= unitCost[q]
  <2> DEFINE T == {unitCost[p] : p \in {q \in lots : t[q] > 0}}
  <2>1. T \in SUBSET Nat /\ T # {}
    BY <1>1, <1>3
  <2>2. PICK x \in T : \A y \in T : ~(y < x)
    BY <2>1, LeastNatural
  <2>3. PICK p \in lots : t[p] > 0 /\ x = unitCost[p]
    BY <2>2
  <2>4. \A q \in lots : t[q] > 0 => unitCost[q] \in T
    OBVIOUS
  <2>5. \A q \in lots : unitCost[q] \in Nat
    BY <1>1
  <2>6. ASSUME NEW q \in lots, t[q] > 0 PROVE unitCost[p] <= unitCost[q]
    <3>1. ~(unitCost[q] < unitCost[p])
      BY <2>2, <2>3, <2>4, <2>6
    <3> QED
      BY <2>5, <3>1
  <2> QED
    BY <2>3, <2>6
<1> DEFINE m == unitCost[p0]
<1>5. m \in Nat
  BY <1>1
<1>6. ASSUME NEW q \in lots, unitCost[q] > m PROVE f[q] <= t[q]
  <2>1. /\ p0 \in Slots /\ q \in Slots /\ q # p0 /\ TypeOK /\ pos \in Nat
    <3>1. TypeOK /\ pos \in Nat
      BY DEF Inv, TypeInv, TypeOK
    <3>2. q # p0
      BY <1>5, <1>6
    <3> QED
      BY <1>1, <3>1, <3>2
  <2>2. q < pos /\ Bought(q, Current.asset)
    <3>1. q \in 1..(pos - 1) /\ Bought(q, Current.asset)
      BY DEF BuysOf
    <3> QED
      BY <2>1, <3>1
  <2>3. Precedes(q, p0) /\ ~Pooled
    BY <1>6 DEF Precedes, Pooled, PooledMethods
  <2>4. held[q] = 0
    BY <1>1, <1>4, <2>1, <2>2, <2>3 DEF Inv, MatchInv, ConsumptionDiscipline, Current
  <2>5. f[q] <= held[q] + t[q]
    OBVIOUS
  <2> QED
    BY <1>1, <2>4, <2>5
<1>7. ASSUME NEW q \in lots PROVE g[q] - TrailCosts(pos)[q] <= m * (f[q] - t[q])
  <2> DEFINE u == unitCost[q]
             a == f[q]
             b == t[q]
  <2>1. u \in Nat /\ a \in Nat /\ b \in Nat
    BY <1>1
  <2>2. g[q] = a * u /\ TrailCosts(pos)[q] = b * u
    BY <1>1
  <2>3. u > m => a <= b
    BY <1>6
  <2>4. u < m => b = 0
    <3>1. b > 0 => m <= u
      BY <1>4
    <3> QED
      BY <1>5, <2>1, <3>1
  <2> HIDE DEF u, a, b, m
  <2>5. a * u - b * u <= m * (a - b)
    <3>1. CASE u > m
      <4>1. (b - a) * (u - m) >= 0
        BY <1>5, <2>1, <2>3, <3>1
      <4> QED
        BY <1>5, <2>1, <4>1
    <3>2. CASE u < m
      <4>1. a * (m - u) >= 0
        BY <1>5, <2>1, <3>2
      <4> QED
        BY <1>5, <2>1, <2>4, <3>2, <4>1
    <3>3. CASE u = m
      BY <1>5, <2>1, <3>3
    <3> QED
      BY <1>5, <2>1, <3>1, <3>2, <3>3
  <2> QED
    BY <2>2, <2>5 DEF a, b
<1>8. \A x \in lots : /\ g[x] \in Int /\ TrailCosts(pos)[x] \in Int
                      /\ f[x] \in Int /\ t[x] \in Int
  <2>1. \A x, y \in Nat : x * y \in Int
    OBVIOUS
  <2> QED
    BY <1>1, <2>1
<1>9. DOMAIN g = lots /\ DOMAIN f = lots /\ m \in Int
  BY <1>5
<1> HIDE DEF g, t, m
<1>10. SumFunctionOnSet(g, lots) - SumFunctionOnSet(TrailCosts(pos), lots)
         <= m * (SumFunctionOnSet(f, lots) - SumFunctionOnSet(t, lots))
  <2>1. IsFiniteSet(lots)
    BY <1>1
  <2> QED
    BY <1>7, <1>8, <1>9, <2>1, SumCompare
<1>11. SumFunctionOnSet(f, lots) = Current.amount
  BY <1>9 DEF SumFunction
<1>12. m * (Current.amount - Current.amount) = 0
  BY <1>2, <1>9
<1>13. /\ SumFunctionOnSet(g, lots) \in Int
       /\ SumFunctionOnSet(TrailCosts(pos), lots) \in Int
  BY <1>1, <1>8, SumRemove
<1>14. SumFunctionOnSet(g, lots) <= SumFunctionOnSet(TrailCosts(pos), lots)
  BY <1>1, <1>10, <1>11, <1>12, <1>13 DEF t
<1>15. SumFunction(g) = SumFunctionOnSet(g, lots)
  BY <1>9 DEF SumFunction
<1>16. SumFunction([p \in lots |-> taken[pos][p] * unitCost[p]])
         = SumFunctionOnSet(TrailCosts(pos), lots)
  <2>1. PICK c : c = [p \in lots |-> taken[pos][p] * unitCost[p]]
    OBVIOUS
  <2>2. DOMAIN c = lots /\ \A p \in lots : c[p] = TrailCosts(pos)[p]
    BY <1>1, <2>1 DEF t
  <2>3. SumFunctionOnSet(c, lots) = SumFunctionOnSet(TrailCosts(pos), lots)
    BY <1>1, <2>2, SumAgree
  <2> QED
    BY <2>1, <2>2, <2>3 DEF SumFunction
<1> QED
  BY <1>14, <1>15, <1>16 DEF g

(* HIFO gives every sell the units that cost most of the lots on hand, in  *)
(* every ledger (lots.py:17, 448-450).                                     *)
THEOREM HifoIsOptimal == Spec => []HifoMaximisesBasis
<1>1. Inv /\ CostInv => HifoMaximisesBasis
  <2> SUFFICES ASSUME Inv, CostInv, request.method = "HIFO", phase = "consume",
                      remaining = 0,
                      NEW f \in [{p \in Buys : parsed[p].asset = Current.asset}
                                   -> 0..Current.amount],
                      SumFunction(f) = Current.amount,
                      \A p \in {q \in Buys : parsed[q].asset = Current.asset} :
                        f[p] <= held[p] + taken[pos][p]
               PROVE  SumFunction([p \in {q \in Buys : parsed[q].asset = Current.asset}
                                     |-> f[p] * unitCost[p]])
                        <= SumFunction([p \in {q \in Buys : parsed[q].asset = Current.asset}
                                          |-> taken[pos][p] * unitCost[p]])
    BY DEF HifoMaximisesBasis
  <2>1. PICK lots : lots = {p \in Buys : parsed[p].asset = Current.asset}
    OBVIOUS
  <2>2. lots = BuysOf(Current.asset)
    BY <2>1, BuysOfType DEF Inv, TypeInv
  <2>3. f \in [lots -> Nat]
    BY <2>1
  <2> QED
    BY <2>1, <2>2, <2>3, GreedyIsBest
<1> QED
  BY <1>1, CostInvariant, PTL
===============================================================================
