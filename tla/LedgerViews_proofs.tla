-------------------------- MODULE LedgerViews_proofs --------------------------
(***************************************************************************)
(* Proofs about the other computations over a trade ledger, compared with  *)
(* what the engine does with the same request.                             *)
(***************************************************************************)
EXTENDS LedgerViews, LotLedger_costs

(***************************************************************************)
(* holding_period                                                          *)
(***************************************************************************)

(* Two sums of money, each accounted for, are so together. *)
LEMMA Together ==
  ASSUME NEW v \in Nat, NEW x \in Nat, NEW g \in Nat, NEW n \in Nat, Accounts(v, x, g, n),
         NEW w \in Nat, NEW y \in Nat, NEW h \in Nat, NEW m \in Nat, Accounts(w, y, h, m)
  PROVE  Accounts(v + w, x + y, g + h, n + m)
<1>1. PICK L \in Nat : L = Parts
  BY PartsType
<1>2. PICK B \in Nat, C \in Nat : B = 2 * x + g /\ C = 2 * y + h
  OBVIOUS
<1>3. PICK s \in Int, t \in Int : s = Slack(x, g, n) /\ t = Slack(y, h, m)
  BY <1>1 DEF Slack
<1>4. s = L * g + n * B /\ t = L * h + m * C
  BY <1>1, <1>2, <1>3 DEF Slack
<1>5. Slack(x + y, g + h, n + m) = L * (g + h) + (n + m) * (B + C)
  BY <1>1, <1>2 DEF Slack
<1>6. (n + m) * (B + C) >= n * B + m * C
  <2>1. (n + m) * (B + C) = n * B + m * C + n * C + m * B
    OBVIOUS
  <2>2. n * C >= 0 /\ m * B >= 0
    OBVIOUS
  <2> QED
    BY <2>1, <2>2
<1>7. PICK z \in Int : z = Slack(x + y, g + h, n + m) /\ z >= s + t
  BY <1>4, <1>5, <1>6
<1>8. /\ 2 * L * (v - x) <= s /\ 2 * L * (x - v) <= s
      /\ 2 * L * (w - y) <= t /\ 2 * L * (y - w) <= t
  BY <1>1, <1>3 DEF Accounts, NoMore, NoLess
<1>9. 2 * L * ((v + w) - (x + y)) <= z /\ 2 * L * ((x + y) - (v + w)) <= z
  <2>1. /\ 2 * L * ((v + w) - (x + y)) = 2 * L * (v - x) + 2 * L * (w - y)
        /\ 2 * L * ((x + y) - (v + w)) = 2 * L * (x - v) + 2 * L * (y - w)
    OBVIOUS
  <2> QED
    BY <1>7, <1>8, <2>1
<1> QED
  BY <1>1, <1>7, <1>9 DEF Accounts, NoMore, NoLess

(* Replacing part of the money by what it is rounded to counts as one      *)
(* rounding.                                                               *)
LEMMA Nearly ==
  ASSUME NEW w \in Nat, NEW x \in Nat, NEW g \in Nat, NEW n \in Nat, n < Parts,
         Accounts(w, x, g, n), NEW f \in Nat, f <= w, NEW y \in Nat, NEW e \in Nat,
         2 * Parts * (y - f) <= f + Parts * e, 2 * Parts * (f - y) <= f + Parts * e
  PROVE  w - f + y \in Nat /\ Accounts(w - f + y, x, g + e, n + 1)
<1>1. PICK L \in Nat \ {0} : L = Parts
  BY PartsType
<1>2. PICK B \in Nat : B = 2 * x + g
  OBVIOUS
<1>3. w <= B
  BY <1>1, <1>2, AccountsBound
<1>4. 2 * L * (y - f) <= f + L * e /\ 2 * L * (f - y) <= f + L * e
  BY <1>1
<1>5. PICK v \in Nat : v = w - f + y
  OBVIOUS
<1>6. PICK s \in Int : s = Slack(x, g, n)
  BY <1>1 DEF Slack
<1>7. PICK t \in Int : t = Slack(x, g + e, n + 1) /\ t >= s + B + L * e
  <2>1. Slack(x, g + e, n + 1) = s + B + L * e + (n + 1) * e
    BY <1>1, <1>2, <1>6 DEF Slack
  <2>2. (n + 1) * e >= 0 /\ L * e >= 0
    OBVIOUS
  <2> QED
    BY <2>1, <2>2
<1>8. 2 * L * (w - x) <= s /\ 2 * L * (x - w) <= s
  BY <1>1, <1>6 DEF Accounts, NoMore, NoLess
<1>9. 2 * L * (v - x) <= t /\ 2 * L * (x - v) <= t
  <2>1. /\ 2 * L * (v - x) = 2 * L * (w - x) + 2 * L * (y - f)
        /\ 2 * L * (x - v) = 2 * L * (x - w) + 2 * L * (f - y)
    BY <1>5
  <2>2. PICK e1 \in Nat : e1 = L * e
    OBVIOUS
  <2> QED
    BY <1>3, <1>4, <1>7, <1>8, <2>1, <2>2
<1> QED
  BY <1>1, <1>5, <1>7, <1>9 DEF Accounts, NoMore, NoLess

(* Losses are rounded as gains are. *)
Signs == {-1, 1}
SizeOf(sign, f, a) == a = sign * f

LEMMA SignedKept ==
  ASSUME NEW sign \in Signs, NEW f \in Int, sign * f >= 0
  PROVE  \E y \in Int : /\ y = Kept(f) /\ sign * y >= 0
                        /\ 2 * Parts * (sign * y - sign * f) <= sign * f
                        /\ 2 * Parts * (sign * f - sign * y) <= sign * f
<1>1. PICK L \in Nat : L = Parts /\ L = Pow10[Digits - 1]
  BY PartsType DEF Parts
<1>2. PICK y \in Int :
        /\ y = Rounded(f, Digits) /\ (f >= 0 => y >= 0) /\ (f <= 0 => y <= 0)
        /\ 2 * L * (y - f) <= Abs(f) /\ 2 * L * (f - y) <= Abs(f)
  BY <1>1, PartsType, RoundedBound
<1>3. CASE sign = 1
  <2>1. f = Abs(f) /\ sign * f = f /\ sign * y = y /\ y >= 0
    BY <1>2, <1>3 DEF Abs
  <2> QED
    BY <1>1, <1>2, <2>1 DEF Kept
<1>4. CASE sign = -1
  <2>1. -f = Abs(f) /\ sign * f = -f /\ sign * y = -y /\ y <= 0
    BY <1>2, <1>4 DEF Abs
  <2>2. -y - -f = f - y /\ -f - -y = y - f
    OBVIOUS
  <2> QED
    BY <1>1, <1>2, <2>1, <2>2 DEF Kept
<1> QED
  BY <1>3, <1>4 DEF Signs

LEMMA SignedQuotient ==
  ASSUME NEW sign \in Signs, NEW f \in Int, sign * f >= 0, NEW d \in Nat \ {0}
  PROVE  \E y \in Int : /\ y = Quotient(f, d, Digits) /\ sign * y >= 0
                        /\ 2 * Parts * (sign * y * d - sign * f) <= sign * f + Parts * d
                        /\ 2 * Parts * (sign * f - sign * y * d) <= sign * f + Parts * d
<1>1. PICK L \in Nat : L = Parts /\ L = Pow10[Digits - 1]
  BY PartsType DEF Parts
<1>2. PICK y \in Int :
        /\ y = Quotient(f, d, Digits) /\ (f >= 0 => y >= 0) /\ (f <= 0 => y <= 0)
        /\ 2 * L * (y * d - f) <= Abs(f) + L * d /\ 2 * L * (f - y * d) <= Abs(f) + L * d
  BY <1>1, PartsType, QuotientBound
<1>3. CASE sign = 1
  <2>1. f = Abs(f) /\ sign * f = f /\ sign * y = y /\ y >= 0
    BY <1>2, <1>3 DEF Abs
  <2> QED
    BY <1>1, <1>2, <2>1
<1>4. CASE sign = -1
  <2>1. -f = Abs(f) /\ sign * f = -f /\ sign * y = -y /\ y <= 0
    BY <1>2, <1>4 DEF Abs
  <2>2. -y * d - -f = f - y * d /\ -f - -y * d = y * d - f
    OBVIOUS
  <2> QED
    BY <1>1, <1>2, <2>1, <2>2
<1> QED
  BY <1>3, <1>4 DEF Signs

(* The proceeds y of a side, times the n units sold, account for x. *)
SideSays(sign, n, y, x, g, k) ==
  \E b \in Nat : SizeOf(sign, y, b) /\ Accounts(b * n, x, g, k)

(* A share of the proceeds r, for t of the n units sold, is added to those *)
(* of one side: a product, a quotient and a sum are rounded.               *)
LEMMA ShareIsAdded ==
  ASSUME NEW sign \in Signs, NEW n \in Nat \ {0},
         NEW r \in Int, NEW a \in Nat, SizeOf(sign, r, a), NEW t \in Nat,
         NEW y \in Int,
         NEW x \in Nat, NEW g \in Nat, NEW k \in Nat, k + 3 <= Parts,
         SideSays(sign, n, y, x, g, k)
  PROVE  LET z == Kept(y + Quotient(Kept(r * t), n, Digits))
         IN  z \in Int /\ SideSays(sign, n, z, x + a * t, g + n, k + 3)
<1>0. PICK b \in Nat : SizeOf(sign, y, b) /\ Accounts(b * n, x, g, k)
  BY DEF SideSays
<1>1. PICK f \in Int, m \in Nat : f = r * t /\ m = a * t
  OBVIOUS
<1>2. m = sign * f
  <2>1. sign * (r * t) = (sign * r) * t
    BY DEF Signs
  <2> QED
    BY <1>1, <2>1 DEF SizeOf
<1>3. PICK h \in Int, i \in Nat :
        h = Kept(f) /\ i = sign * h /\ 2 * Parts * (i - m) <= m /\ 2 * Parts * (m - i) <= m
  <2>1. sign * f >= 0
    BY <1>2
  <2>2. PICK y1 \in Int : /\ y1 = Kept(f) /\ sign * y1 >= 0
                          /\ 2 * Parts * (sign * y1 - sign * f) <= sign * f
                          /\ 2 * Parts * (sign * f - sign * y1) <= sign * f
    BY <2>1, SignedKept
  <2>3. PICK i \in Nat : i = sign * y1
    BY <2>2 DEF Signs
  <2> QED
    BY <1>2, <2>2, <2>3
<1>4. PICK q \in Int, j \in Nat :
        /\ q = Quotient(h, n, Digits) /\ j = sign * q
        /\ 2 * Parts * (j * n - i) <= i + Parts * n
        /\ 2 * Parts * (i - j * n) <= i + Parts * n
  <2>1. sign * h >= 0
    BY <1>3
  <2>2. PICK y1 \in Int : /\ y1 = Quotient(h, n, Digits) /\ sign * y1 >= 0
                          /\ 2 * Parts * (sign * y1 * n - sign * h) <= sign * h + Parts * n
                          /\ 2 * Parts * (sign * h - sign * y1 * n) <= sign * h + Parts * n
    BY <2>1, SignedQuotient
  <2>3. PICK j \in Nat : j = sign * y1
    BY <2>2 DEF Signs
  <2> QED
    BY <1>3, <2>2, <2>3
<1>5. PICK s \in Int, l \in Nat : s = y + q /\ l = b + j
  OBVIOUS
<1>6. l = sign * s
  BY <1>0, <1>4, <1>5 DEF Signs, SizeOf
<1>7. PICK z \in Int, c \in Nat :
        z = Kept(s) /\ c = sign * z /\ 2 * Parts * (c - l) <= l /\ 2 * Parts * (l - c) <= l
  <2>1. sign * s >= 0
    BY <1>6
  <2>2. PICK y1 \in Int : /\ y1 = Kept(s) /\ sign * y1 >= 0
                          /\ 2 * Parts * (sign * y1 - sign * s) <= sign * s
                          /\ 2 * Parts * (sign * s - sign * y1) <= sign * s
    BY <2>1, SignedKept
  <2>3. PICK c \in Nat : c = sign * y1
    BY <2>2 DEF Signs
  <2> QED
    BY <1>6, <2>2, <2>3
<1>8. PICK L \in Nat \ {0} : L = Parts
  BY PartsType
<1>9. PICK w \in Nat, jn \in Nat, ln \in Nat, cn \in Nat :
        w = b * n /\ jn = j * n /\ ln = l * n /\ cn = c * n
  OBVIOUS
<1>10. Accounts(w + m, x + m, g, k)
  <2>1. Accounts(w, x, g, k)
    BY <1>0, <1>9
  <2> QED
    BY ONLY <2>1, w \in Int, x \in Int, g \in Int, k \in Nat, m \in Nat, Pays
<1>11. PICK k1 \in Nat, k2 \in Nat, k3 \in Nat :
         k1 = k + 1 /\ k2 = k1 + 1 /\ k3 = k2 + 1 /\ k < L /\ k1 < L /\ k2 < L /\ k3 = k + 3
  BY <1>8
<1>12. PICK xm \in Nat, wm \in Nat, wi \in Nat : xm = x + m /\ wm = w + m /\ wi = w + i
  OBVIOUS
<1>13. Accounts(wi, xm, g, k1)
  <2>1. Accounts(wm, xm, g, k) /\ m <= wm /\ k < Parts
    BY <1>8, <1>10, <1>11, <1>12
  <2>2. 2 * Parts * (i - m) <= m + Parts * 0 /\ 2 * Parts * (m - i) <= m + Parts * 0
    BY <1>3, PartsType
  <2>3. Accounts(wm - m + i, xm, g + 0, k + 1)
    <3>1. 0 \in Nat
      OBVIOUS
    <3> QED
      BY ONLY <2>1, <2>2, <3>1, m \in Nat, i \in Nat, g \in Nat, k \in Nat, xm \in Nat,
              wm \in Nat, Nearly
  <2>4. wm - m + i = wi /\ g + 0 = g
    BY <1>12
  <2> QED
    BY <1>11, <2>3, <2>4
<1>14. PICK wj \in Nat, gn \in Nat : wj = w + jn /\ gn = g + n
  OBVIOUS
<1>15. Accounts(wj, xm, gn, k2)
  <2>1. i <= wi /\ k1 < Parts /\ n \in Nat
    BY <1>8, <1>11, <1>12
  <2>2. 2 * Parts * (jn - i) <= i + Parts * n /\ 2 * Parts * (i - jn) <= i + Parts * n
    BY <1>4, <1>9
  <2>3. Accounts(wi - i + jn, xm, g + n, k1 + 1)
    BY ONLY <1>13, <2>1, <2>2, i \in Nat, jn \in Nat, g \in Nat, k1 \in Nat, xm \in Nat,
            wi \in Nat, Nearly
  <2>4. wi - i + jn = wj
    BY <1>12, <1>14
  <2> QED
    BY <1>11, <1>14, <2>3, <2>4
<1>16. wj = ln
  <2>1. (b + j) * n = b * n + j * n
    OBVIOUS
  <2> QED
    BY <1>5, <1>9, <1>14, <2>1
<1>17. Accounts(cn, xm, gn, k3)
  <2>1. ln <= wj /\ k2 < Parts
    BY <1>8, <1>11, <1>16
  <2>2. 2 * L * (cn - ln) <= ln /\ 2 * L * (ln - cn) <= ln
    <3>1. PICK d \in Int, e \in Int : d = 2 * L * (c - l) /\ e = 2 * L * (l - c)
      OBVIOUS
    <3>2. d <= l /\ e <= l
      BY <1>7, <1>8, <3>1
    <3>3. d * n <= ln /\ e * n <= ln
      <4>1. (l - d) * n >= 0 /\ (l - e) * n >= 0
        BY <3>2
      <4>2. (l - d) * n = l * n - d * n /\ (l - e) * n = l * n - e * n
        OBVIOUS
      <4> QED
        BY <1>9, <4>1, <4>2
    <3>4. d * n = 2 * L * (c * n - l * n) /\ e * n = 2 * L * (l * n - c * n)
      BY <3>1
    <3> QED
      BY <1>9, <3>3, <3>4
  <2>3. 2 * Parts * (cn - ln) <= ln + Parts * 0 /\ 2 * Parts * (ln - cn) <= ln + Parts * 0
    BY <1>8, <2>2
  <2>4. Accounts(wj - ln + cn, xm, gn + 0, k2 + 1)
    <3>1. 0 \in Nat
      OBVIOUS
    <3> QED
      BY ONLY <1>15, <2>1, <2>3, <3>1, ln \in Nat, cn \in Nat, gn \in Nat, k2 \in Nat,
              xm \in Nat, wj \in Nat, Nearly
  <2>5. wj - ln + cn = cn /\ gn + 0 = gn
    BY <1>16
  <2> QED
    BY <1>11, <2>4, <2>5
<1>18. Accounts(c * n, x + a * t, g + n, k + 3)
  BY <1>1, <1>9, <1>11, <1>12, <1>14, <1>17
<1>19. z = Kept(y + Quotient(Kept(r * t), n, Digits))
  BY <1>1, <1>3, <1>4, <1>5, <1>7
<1> QED
  BY <1>7, <1>18, <1>19 DEF SideSays, SizeOf

Money == [proceeds : Int, basis : Nat]
Nothing == [proceeds |-> 0, basis |-> 0]

(* A side of the split once t of the n units sold for r, at the unit cost  *)
(* u, are added to it.                                                     *)
Adding(r, n, t, u, side) ==
  [proceeds |-> Kept(side.proceeds + Quotient(Kept(r * t), n, Digits)),
   basis |-> Kept(side.basis + Kept(t * u))]

LEMMA AddingType ==
  ASSUME NEW r \in Int, NEW n \in Nat \ {0}, NEW t \in Nat, NEW u \in Nat, NEW v \in Money
  PROVE  Adding(r, n, t, u, v) \in Money
<1>1. PICK L \in Nat : L = Pow10[Digits - 1] /\ Digits \in Nat \ {0}
  BY PartsType DEF Parts
<1>2. \A f \in Int : Kept(f) \in Int
  BY <1>1, RoundedBound DEF Kept
<1>3. \A f \in Int : Quotient(f, n, Digits) \in Int
  BY <1>1, QuotientBound
<1>4. \A f \in Nat : Kept(f) \in Nat
  BY KeptBound
<1>5. PICK y \in Int, b \in Nat, x \in Int, c \in Nat :
        y = v.proceeds /\ b = v.basis /\ x = r * t /\ c = t * u
  BY DEF Money
<1>6. PICK q \in Int : q = Quotient(Kept(x), n, Digits)
  BY <1>2, <1>3
<1>7. Kept(y + q) \in Int /\ Kept(b + Kept(c)) \in Nat
  <2>1. y + q \in Int /\ Kept(c) \in Nat
    BY <1>4
  <2>2. b + Kept(c) \in Nat
    BY <2>1
  <2> QED
    BY <1>2, <1>4, <2>1, <2>2
<1> QED
  BY <1>5, <1>6, <1>7 DEF Adding, Money

(* g[s] is the side made of the portions s, added in the order of pick.    *)
SidesOf(g, pick, r, n, t, u, S) ==
  /\ g \in [SUBSET S -> Money] /\ PicksFrom(pick, S)
  /\ \A s \in SUBSET S :
       g[s] = IF s = {} THEN Nothing
              ELSE Adding(r, n, t[pick[s]], u[pick[s]], g[s \ {pick[s]}])

Costs(c, t, u, S) == \A p \in S : t[p] \in Nat /\ u[p] \in Nat /\ c[p] = t[p] * u[p]

(* What a side made of some portions says of them. *)
LEMMA SideAccounts ==
  ASSUME NEW sign \in Signs, NEW n \in Nat \ {0}, NEW r \in Int, NEW a \in Nat, SizeOf(sign, r, a),
         NEW S, IsFiniteSet(S), 3 * Cardinality(S) <= Parts,
         NEW t, NEW u, NEW c, Costs(c, t, u, S),
         NEW pick, NEW g, SidesOf(g, pick, r, n, t, u, S)
  PROVE  /\ SideSays(sign, n, g[S].proceeds, a * SumFunctionOnSet(t, S), n * Cardinality(S),
                     3 * Cardinality(S))
         /\ Accounts(g[S].basis, SumFunctionOnSet(c, S), 0, 2 * Cardinality(S))
<1> DEFINE Told(s) ==
             /\ SideSays(sign, n, g[s].proceeds, a * SumFunctionOnSet(t, s),
                         n * Cardinality(s), 3 * Cardinality(s))
             /\ Accounts(g[s].basis, SumFunctionOnSet(c, s), 0, 2 * Cardinality(s))
           P == [s \in SUBSET S |-> Told(s)]
<1>1. P \in [SUBSET S -> BOOLEAN]
  OBVIOUS
<1>2. /\ g \in [SUBSET S -> Money] /\ PicksFrom(pick, S)
      /\ \A s \in SUBSET S :
           g[s] = IF s = {} THEN Nothing
                  ELSE Adding(r, n, t[pick[s]], u[pick[s]], g[s \ {pick[s]}])
  BY DEF SidesOf
<1>3. \A p \in S : t[p] \in Nat /\ u[p] \in Nat /\ c[p] = t[p] * u[p]
  BY DEF Costs
<1>4. \A p \in S : c[p] \in Nat
  <2>1. \A x, y \in Nat : x * y \in Nat
    OBVIOUS
  <2> QED
    BY <1>3, <2>1
<1>5. ASSUME NEW s \in SUBSET S, \A x \in s : P[s \ {x}] PROVE P[s]
  <2>1. IsFiniteSet(s) /\ Cardinality(s) \in Nat /\ Cardinality(s) <= Cardinality(S)
        /\ Cardinality(S) \in Nat
    BY FS_Subset, FS_CardinalityType
  <2>2. CASE s = {}
    <3>1. /\ SumFunctionOnSet(t, s) = 0 /\ SumFunctionOnSet(c, s) = 0 /\ Cardinality(s) = 0
      BY <2>1, <2>2, SumRemove, FS_EmptySet
    <3>2. g[s].proceeds = 0 /\ g[s].basis = 0
      <4>1. g[s] = Nothing
        BY <1>2, <2>2
      <4> QED
        BY <4>1 DEF Nothing
    <3>3. Accounts(0, 0, 0, 0)
      BY PartsType DEF Accounts, NoMore, NoLess, Slack
    <3>4. /\ 0 = sign * 0 /\ 0 * n = 0 /\ a * 0 = 0 /\ n * 0 = 0 /\ 3 * 0 = 0 /\ 2 * 0 = 0
      BY DEF Signs
    <3>5. SideSays(sign, n, 0, 0, 0, 0)
      <4>1. SizeOf(sign, 0, 0)
        BY <3>4 DEF SizeOf
      <4>2. 0 \in Nat /\ Accounts(0 * n, 0, 0, 0)
        BY <3>3, <3>4
      <4> QED
        BY <4>1, <4>2 DEF SideSays
    <3>6. Told(s)
      BY <3>1, <3>2, <3>3, <3>4, <3>5
    <3> QED
      BY <3>6
  <2>3. CASE s # {}
    <3>1. PICK p \in s : p = pick[s]
      BY <1>2, <2>3 DEF PicksFrom
    <3>2. PICK q \in SUBSET S : q = s \ {p}
      OBVIOUS
    <3>3. PICK k \in Nat : /\ k = Cardinality(q) /\ Cardinality(s) = k + 1
                           /\ 3 * k + 3 <= Parts /\ IsFiniteSet(q)
      <4>1. IsFiniteSet(q) /\ Cardinality(q) \in Nat /\ Cardinality(q) = Cardinality(s) - 1
        BY <2>1, <3>2, FS_Subset, FS_CardinalityType, FS_RemoveElement
      <4> QED
        BY <2>1, <4>1, PartsType
    <3>4. Told(q)
      BY <1>5, <3>2
    <3>5. PICK X \in Nat, C \in Nat :
            /\ X = SumFunctionOnSet(t, q) /\ C = SumFunctionOnSet(c, q)
            /\ SumFunctionOnSet(t, s) = t[p] + X /\ SumFunctionOnSet(c, s) = c[p] + C
      <4>1. \A x \in q : t[x] \in Nat /\ c[x] \in Nat
        BY <1>3, <1>4
      <4>2. SumFunctionOnSet(t, q) \in Nat /\ SumFunctionOnSet(c, q) \in Nat
        BY <3>3, <4>1, SumNat
      <4>3. \A x \in s : t[x] \in Int /\ c[x] \in Int
        BY <1>3, <1>4
      <4>4. /\ SumFunctionOnSet(t, s) = t[p] + SumFunctionOnSet(t, s \ {p})
            /\ SumFunctionOnSet(c, s) = c[p] + SumFunctionOnSet(c, s \ {p})
        BY <2>1, <4>3, SumRemove
      <4> QED
        BY <3>2, <4>2, <4>4
    <3>6. PICK y \in Int, v \in Nat : y = g[q].proceeds /\ v = g[q].basis
      BY <1>2 DEF Money
    <3>7. PICK tp \in Nat, up \in Nat, f \in Nat :
            tp = t[p] /\ up = u[p] /\ f = tp * up /\ f = c[p]
      BY <1>3, <1>4
    <3>8. g[s] = [proceeds |-> Kept(y + Quotient(Kept(r * tp), n, Digits)),
                  basis |-> Kept(v + Kept(f))]
      <4>1. g[s] = Adding(r, n, tp, up, g[q])
        BY <1>2, <2>3, <3>1, <3>2, <3>7
      <4> QED
        BY <3>6, <3>7, <4>1 DEF Adding
    <3>9. SideSays(sign, n, y, a * X, n * k, 3 * k) /\ Accounts(v, C, 0, 2 * k)
      BY <3>3, <3>4, <3>5, <3>6
    <3>10. PICK z \in Int :
             /\ z = Kept(y + Quotient(Kept(r * tp), n, Digits))
             /\ SideSays(sign, n, z, a * X + a * tp, n * k + n, 3 * k + 3)
      <4>1. PICK x \in Nat, h \in Nat, m \in Nat : x = a * X /\ h = n * k /\ m = 3 * k
        BY ONLY a \in Nat, X \in Nat, n \in Nat \ {0}, k \in Nat
      <4>2. SideSays(sign, n, y, x, h, m) /\ m + 3 <= Parts
        BY <3>3, <3>9, <4>1
      <4>3. SizeOf(sign, r, a)
        OBVIOUS
      <4>4. LET z == Kept(y + Quotient(Kept(r * tp), n, Digits))
            IN  z \in Int /\ SideSays(sign, n, z, x + a * tp, h + n, m + 3)
        <5>1. x \in Nat /\ h \in Nat /\ m \in Nat /\ sign \in Signs /\ n \in Nat \ {0}
          OBVIOUS
        <5>2. r \in Int /\ a \in Nat /\ tp \in Nat /\ y \in Int
          OBVIOUS
        <5> QED
          BY ONLY <4>2, <4>3, <5>1, <5>2, ShareIsAdded
      <4> QED
        BY <4>1, <4>4
    <3>11. Kept(v + Kept(f)) \in Nat /\ Accounts(Kept(v + Kept(f)), C + f, 0, 2 * k + 2)
      <4>1. PICK m \in Nat, w \in Nat, x \in Nat, h \in Nat :
              m = 2 * k /\ w = v + f /\ x = C + f /\ h = 0
        OBVIOUS
      <4>2. m + 2 <= Parts
        BY <3>3, <4>1, PartsType
      <4>3. Accounts(w, x, h, m)
        <5>1. Accounts(v, C, h, m)
          BY <3>9, <4>1
        <5>2. Accounts(v + f, C + f, h, m)
          BY ONLY <5>1, v \in Int, C \in Int, h \in Int, m \in Nat, f \in Nat, Pays
        <5> QED
          BY <4>1, <5>2
      <4>4. f + v <= w
        BY <4>1
      <4>5. Kept(v + Kept(f)) \in Nat /\ Accounts(w - f - v + Kept(v + Kept(f)), x, h, m + 2)
        BY <4>2, <4>3, <4>4, MovesToBasis
      <4>6. w - f - v + Kept(v + Kept(f)) = Kept(v + Kept(f))
        BY <4>1, <4>5
      <4> QED
        BY <4>1, <4>5, <4>6
    <3>12. g[s].proceeds = z /\ g[s].basis = Kept(v + Kept(f))
      BY <3>8, <3>10
    <3>13. /\ a * SumFunctionOnSet(t, s) = a * X + a * tp
           /\ n * Cardinality(s) = n * k + n /\ 3 * Cardinality(s) = 3 * k + 3
           /\ SumFunctionOnSet(c, s) = C + f /\ 2 * Cardinality(s) = 2 * k + 2
      <4>1. PICK d \in Nat : d = Cardinality(s) /\ d = k + 1
        BY <3>3
      <4>2. n * (k + 1) = n * k + n
        OBVIOUS
      <4>3. a * (tp + X) = a * X + a * tp
        OBVIOUS
      <4>4. SumFunctionOnSet(t, s) = tp + X /\ SumFunctionOnSet(c, s) = C + f
        BY <3>5, <3>7
      <4>5. PICK T \in Int, D \in Int :
              T = SumFunctionOnSet(t, s) /\ D = SumFunctionOnSet(c, s) /\ T = tp + X
        BY <4>4
      <4>6. a * T = a * X + a * tp
        BY <4>3, <4>5
      <4>7. n * d = n * k + n /\ 3 * d = 3 * k + 3 /\ 2 * d = 2 * k + 2
        BY <4>1, <4>2
      <4> QED
        BY <4>1, <4>4, <4>5, <4>6, <4>7, Zenon
    <3>14. Told(s)
      BY <3>10, <3>11, <3>12, <3>13
    <3> QED
      BY <3>14
  <2> QED
    BY <2>2, <2>3
<1> HIDE DEF P
<1>6. \A s \in SUBSET S : P[s]
  BY <1>1, <1>5, SubsetInduction
<1>7. P[S]
  BY <1>6
<1> QED
  BY <1>7 DEF P

(* A set of portions has a last one. *)
LEMMA LastPortion ==
  ASSUME TypeOK, NEW S \in SUBSET Slots, S # {}
  PROVE  LastOf(S) \in S
<1> DEFINE Lasts(s) == {p \in s : \A q \in s \ {p} : Precedes(q, p)}
           P == [s \in SUBSET Slots |-> s # {} => Lasts(s) # {}]
<1>1. P \in [SUBSET Slots -> BOOLEAN]
  OBVIOUS
<1>2. \A p, q, r \in Slots : Precedes(p, q) /\ Precedes(q, r) => Precedes(p, r)
  <2>1. \A p \in Slots : p \in Nat /\ unitCost[p] \in Nat
    BY SlotsFinite DEF TypeOK
  <2> QED
    BY <2>1 DEF Precedes
<1>3. \A p, q \in Slots : p # q => Precedes(p, q) \/ Precedes(q, p)
  <2>1. \A p \in Slots : p \in Nat /\ unitCost[p] \in Nat
    BY SlotsFinite DEF TypeOK
  <2> QED
    BY <2>1 DEF Precedes
<1>4. ASSUME NEW s \in SUBSET Slots, \A x \in s : P[s \ {x}] PROVE P[s]
  <2> SUFFICES ASSUME s # {} PROVE Lasts(s) # {}
    OBVIOUS
  <2>1. PICK x \in s : TRUE
    OBVIOUS
  <2>2. CASE s = {x}
    <3>1. x \in Lasts(s)
      BY <2>2
    <3> QED
      BY <3>1
  <2>3. CASE s # {x}
    <3>1. PICK p \in s \ {x} : \A q \in s \ {x, p} : Precedes(q, p)
      <4>1. s \ {x} # {} /\ s \ {x} \in SUBSET Slots
        BY <2>1, <2>3
      <4>2. P[s \ {x}]
        BY <1>4
      <4>3. Lasts(s \ {x}) # {}
        BY <4>1, <4>2
      <4>4. PICK p \in s \ {x} : \A q \in (s \ {x}) \ {p} : Precedes(q, p)
        BY <4>3
      <4> QED
        BY <4>4
    <3>2. CASE Precedes(x, p)
      <4>1. p \in Lasts(s)
        BY <3>1, <3>2
      <4> QED
        BY <4>1
    <3>3. CASE Precedes(p, x)
      <4>1. \A q \in s \ {x} : Precedes(q, x)
        BY <1>2, <3>1, <3>3
      <4>2. x \in Lasts(s)
        BY <4>1
      <4> QED
        BY <4>2
    <3> QED
      BY <1>3, <3>1, <3>2, <3>3
  <2> QED
    BY <2>2, <2>3
<1> HIDE DEF P
<1>5. P[S]
  BY <1>1, <1>4, SlotsFinite, SubsetInduction
<1> QED
  BY <1>5 DEF P, LastOf

(* A side of the split is added up portion by portion. *)
LEMMA SideUnfold ==
  ASSUME TypeOK, NEW d, NEW long, NEW days, d.proceeds \in Int,
         parsed[d.slot].amount \in Nat \ {0}, Portions(d.slot) \subseteq Slots,
         \A p \in Slots : taken[d.slot][p] \in Nat
  PROVE  \E S, pick, g :
           /\ S = {p \in Portions(d.slot) : LongTerm(d.slot, p, days) = long}
           /\ SidesOf(g, pick, d.proceeds, parsed[d.slot].amount, taken[d.slot], unitCost, S)
           /\ Bucket(d, long, days) = [amount |-> SumFunctionOnSet(taken[d.slot], S),
                                       proceeds |-> g[S].proceeds, basis |-> g[S].basis]
<1>1. PICK S \in SUBSET Slots :
        S = {p \in Portions(d.slot) : LongTerm(d.slot, p, days) = long}
  <2>1. PICK S : S = {p \in Portions(d.slot) : LongTerm(d.slot, p, days) = long}
    OBVIOUS
  <2>2. S \in SUBSET Slots
    BY <2>1
  <2> QED
    BY <2>1, <2>2
<1>2. PICK r \in Int, n \in Nat \ {0} : r = d.proceeds /\ n = parsed[d.slot].amount
  OBVIOUS
<1>3. PICK t : t = taken[d.slot] /\ \A p \in S : t[p] \in Nat
  OBVIOUS
<1> DEFINE op == [p \in S |-> [v \in Money |-> Adding(r, n, t[p], unitCost[p], v)]]
           pick == [s \in SUBSET S |-> LastOf(s)]
           Runs(g) == g = [s \in SUBSET S |->
                             IF s = {} THEN Nothing
                             ELSE WithPortion(d, LastOf(s), g[s \ {LastOf(s)}])]
           G == CHOOSE g : Runs(g)
<1>4. IsFiniteSet(S)
  BY SlotsFinite, FS_Subset
<1>5. \A s \in SUBSET S : s # {} => LastOf(s) \in s
  BY LastPortion
<1>6. PicksFrom(pick, S)
  BY <1>5 DEF PicksFrom
<1>7. Nothing \in Money
  BY DEF Nothing, Money
<1>8. \A p \in S : unitCost[p] \in Nat
  BY DEF TypeOK
<1>9. \A p \in S : \A v \in Money : /\ op[p][v] = Adding(r, n, t[p], unitCost[p], v)
                                    /\ op[p][v] \in Money
  BY <1>1, <1>2, <1>3, <1>8, AddingType
<1>10. Closed(op, Money, S)
  BY <1>9 DEF Closed
<1>11. \A p \in S : \A v : WithPortion(d, p, v) = Adding(r, n, t[p], unitCost[p], v)
  BY <1>1, <1>2, <1>3 DEF WithPortion, Share, Adding
<1> HIDE DEF op, pick
<1>12. PICK g \in [SUBSET S -> Money] : IsFold(op, Nothing, pick, S, g)
  BY <1>4, <1>6, <1>7, <1>10, FoldExists
<1>13. ASSUME NEW s \in SUBSET S, s # {}
       PROVE  /\ op[pick[s]][g[s \ {pick[s]}]] = WithPortion(d, LastOf(s), g[s \ {LastOf(s)}])
              /\ WithPortion(d, LastOf(s), g[s \ {LastOf(s)}]) \in Money
  <2>1. LastOf(s) \in S /\ s \ {LastOf(s)} \in SUBSET S /\ pick[s] = LastOf(s)
    BY <1>5, <1>13 DEF pick
  <2>2. g[s \ {LastOf(s)}] \in Money
    BY <2>1
  <2> QED
    BY <1>9, <1>11, <2>1, <2>2
<1>14. Runs(g)
  BY <1>12, <1>13 DEF IsFold
<1>15. Runs(G)
  BY <1>14
<1>16. Bucket(d, long, days) = [amount |-> SumFunctionOnSet(t, S),
                               proceeds |-> G[S].proceeds, basis |-> G[S].basis]
  BY <1>1, <1>2, <1>3 DEF Bucket, MapThenFoldSet, Nothing
<1> HIDE DEF G
<1>17. G = g
  <2>1. G = [s \in SUBSET S |-> G[s]] /\ g = [s \in SUBSET S |-> g[s]]
    BY <1>15
  <2> DEFINE P == [s \in SUBSET S |-> G[s] = g[s]]
  <2>2. P \in [SUBSET S -> BOOLEAN]
    OBVIOUS
  <2>3. ASSUME NEW s \in SUBSET S, \A x \in s : P[s \ {x}] PROVE P[s]
    <3>1. CASE s = {}
      <4>1. G[s] = Nothing /\ g[s] = Nothing
        BY <1>14, <1>15, <3>1
      <4> QED
        BY <4>1
    <3>2. CASE s # {}
      <4>1. PICK x \in s : x = LastOf(s)
        BY <1>5, <3>2
      <4>2. G[s \ {x}] = g[s \ {x}]
        BY <2>3
      <4>3. G[s] = WithPortion(d, x, G[s \ {x}]) /\ g[s] = WithPortion(d, x, g[s \ {x}])
        BY <1>14, <1>15, <3>2, <4>1
      <4> QED
        BY <4>2, <4>3
    <3> QED
      BY <3>1, <3>2
  <2> HIDE DEF P
  <2>4. \A s \in SUBSET S : P[s]
    BY <1>4, <2>2, <2>3, SubsetInduction
  <2> QED
    BY <2>1, <2>4 DEF P
<1>18. \A s \in SUBSET S :
         g[s] = IF s = {} THEN Nothing
                ELSE Adding(r, n, t[pick[s]], unitCost[pick[s]], g[s \ {pick[s]}])
  <2> SUFFICES ASSUME NEW s \in SUBSET S
               PROVE  g[s] = IF s = {} THEN Nothing
                             ELSE Adding(r, n, t[pick[s]], unitCost[pick[s]], g[s \ {pick[s]}])
    OBVIOUS
  <2>1. s # {} => pick[s] = LastOf(s) /\ LastOf(s) \in S
    BY <1>5 DEF pick
  <2>2. g[s] = IF s = {} THEN Nothing ELSE WithPortion(d, LastOf(s), g[s \ {LastOf(s)}])
    BY <1>14
  <2> HIDE DEF Runs
  <2>3. CASE s = {}
    BY <2>2, <2>3
  <2>4. CASE s # {}
    <3>1. PICK x \in S : x = LastOf(s) /\ x = pick[s]
      BY <2>1, <2>4
    <3>2. g[s] = WithPortion(d, x, g[s \ {x}])
      BY <2>2, <2>4, <3>1
    <3>3. g[s] = Adding(r, n, t[x], unitCost[x], g[s \ {x}])
      BY <1>11, <3>2
    <3> QED
      BY <2>4, <3>1, <3>3
  <2> QED
    BY <2>3, <2>4
<1>19. SidesOf(g, pick, r, n, t, unitCost, S)
  BY <1>6, <1>18 DEF SidesOf
<1> QED
  BY <1>1, <1>2, <1>3, <1>16, <1>17, <1>19

(* What a completed disposal is made of, where lots are kept apart.        *)
LEMMA DisposalParts ==
  ASSUME Inv, CostInv, ~Pooled, NEW k \in DOMAIN disposals, NEW s, s = disposals[k].slot
  PROVE  /\ s \in Slots /\ parsed[s].amount \in Nat \ {0} /\ disposals[k].proceeds \in Int
         /\ IsFiniteSet(Portions(s)) /\ Portions(s) \subseteq Slots
         /\ \A p \in Slots : /\ taken[s][p] \in Nat /\ unitCost[p] \in Nat
                             /\ TrailCosts(s)[p] = taken[s][p] * unitCost[p]
                             /\ TrailCosts(s)[p] \in Nat
         /\ SumFunctionOnSet(taken[s], Portions(s)) = parsed[s].amount
         /\ SumFunctionOnSet(TrailCosts(s), Portions(s)) = TrailCost(s)
         /\ 3 * Cardinality(Portions(s)) <= Parts
<1> DEFINE P == Portions(s)
<1>1. TypeOK
  BY DEF Inv, TypeInv
<1>2. s \in Slots /\ s \in DOMAIN parsed /\ Sold(s) = parsed[s].amount
  BY <1>1, DisposalsType DEF Inv, QuantityInv, SellsHonoured
<1>3. parsed[s].amount \in Nat \ {0}
  BY <1>1, <1>2, DomainParsed DEF ParsedTrades
<1>4. disposals[k].proceeds \in Int
  <2> DEFINE D == [slot : Slots, proceeds : Int, basis : Nat]
  <2>1. disposals \in Seq(D)
    BY <1>1 DEF TypeOK
  <2>2. \A d \in D : d.proceeds \in Int
    OBVIOUS
  <2> HIDE DEF D
  <2> QED
    BY <2>1, <2>2
<1>5. P \subseteq Slots /\ IsFiniteSet(P)
  BY SlotsFinite, FS_Subset DEF Portions
<1>6. \A p \in Slots : taken[s][p] \in Nat /\ unitCost[p] \in Nat
  BY <1>1, <1>2 DEF TypeOK
<1>7. \A p \in Slots : /\ TrailCosts(s)[p] = taken[s][p] * unitCost[p]
                       /\ TrailCosts(s)[p] \in Nat
  <2>1. \A x, y \in Nat : x * y \in Nat
    OBVIOUS
  <2> QED
    BY <1>6, <2>1 DEF TrailCosts
<1>8. \A p \in Slots \ P : taken[s][p] = 0 /\ TrailCosts(s)[p] = 0
  <2>1. \A p \in Slots \ P : ~(taken[s][p] > 0)
    BY DEF Portions
  <2>2. \A p \in Slots \ P : taken[s][p] = 0
    BY <1>6, <2>1
  <2> QED
    BY <1>6, <1>7, <2>2
<1> HIDE DEF P
<1>9. SumFunctionOnSet(taken[s], P) = parsed[s].amount
  <2>1. \A p \in Slots : taken[s][p] \in Int
    BY <1>6
  <2>2. SumFunctionOnSet(taken[s], P) = SumFunctionOnSet(taken[s], Slots)
    BY <1>5, <1>8, <2>1, SlotsFinite, SumSupport
  <2>3. DOMAIN taken[s] = Slots
    BY <1>1, <1>2 DEF TypeOK
  <2> QED
    BY <1>2, <2>2, <2>3 DEF Sold, SumFunction
<1>10. SumFunctionOnSet(TrailCosts(s), P) = TrailCost(s)
  <2>1. SumFunctionOnSet(TrailCosts(s), P) = SumFunctionOnSet(TrailCosts(s), Slots)
    <3>1. \A p \in Slots : TrailCosts(s)[p] \in Int
      BY <1>7
    <3> QED
      BY <1>5, <1>8, <3>1, SlotsFinite, SumSupport
  <2>2. DOMAIN TrailCosts(s) = Slots
    BY DEF TrailCosts
  <2> QED
    BY <2>1, <2>2 DEF TrailCost, SumFunction
<1>11. 3 * Cardinality(Portions(s)) <= Parts
  <2>1. PICK c \in Nat : c = Cardinality(Portions(s)) /\ c <= MaxTrades
    BY <1>1, <1>2, TouchesType
  <2>2. MaxTrades * MaxTrades >= 0
    BY PartsType
  <2> QED
    BY <2>1, <2>2, PartsType
<1> QED
  BY <1>2, <1>3, <1>4, <1>5, <1>6, <1>7, <1>9, <1>10, <1>11 DEF P

(* What both sides say is what the disposal says. *)
LEMMA SidesTogether ==
  ASSUME NEW sign \in Signs, NEW n \in Nat \ {0}, NEW a \in Nat,
         NEW y \in Int, NEW v \in Nat, NEW k \in Nat, NEW i \in Nat,
         SideSays(sign, n, y, a * i, n * k, 3 * k),
         NEW z \in Int, NEW w \in Nat, NEW l \in Nat, NEW j \in Nat,
         SideSays(sign, n, z, a * j, n * l, 3 * l),
         NEW c \in Nat, Accounts(v, c, 0, 2 * k), NEW d \in Nat, Accounts(w, d, 0, 2 * l)
  PROVE  /\ Accounts(sign * (y + z) * n, a * (i + j), (k + l) * n, 3 * (k + l))
         /\ Accounts(v + w, c + d, 0, 2 * (k + l))
<1>1. Accounts(v + w, c + d, 0, 2 * (k + l))
  <2>1. 2 * k \in Nat /\ 2 * l \in Nat /\ 0 \in Nat
    OBVIOUS
  <2>2. Accounts(v + w, c + d, 0 + 0, 2 * k + 2 * l)
    BY <2>1, Together
  <2>3. 0 + 0 = 0 /\ 2 * k + 2 * l = 2 * (k + l)
    OBVIOUS
  <2> QED
    BY <2>2, <2>3
<1>2. PICK e \in Nat : e = sign * y /\ Accounts(e * n, a * i, n * k, 3 * k)
  BY DEF SideSays, SizeOf
<1>3. PICK f \in Nat : f = sign * z /\ Accounts(f * n, a * j, n * l, 3 * l)
  BY DEF SideSays, SizeOf
<1>4. PICK en \in Nat, fn \in Nat, x \in Nat, u \in Nat, g \in Nat, h \in Nat :
        /\ en = e * n /\ fn = f * n /\ x = a * i /\ u = a * j /\ g = n * k /\ h = n * l
  OBVIOUS
<1>5. PICK p \in Nat, q \in Nat : p = 3 * k /\ q = 3 * l
  OBVIOUS
<1>6. Accounts(en, x, g, p) /\ Accounts(fn, u, h, q)
  BY <1>2, <1>3, <1>4, <1>5
<1>7. Accounts(en + fn, x + u, g + h, p + q)
  BY ONLY <1>6, en \in Nat, x \in Nat, g \in Nat, p \in Nat,
          fn \in Nat, u \in Nat, h \in Nat, q \in Nat, Together
<1>8. en + fn = sign * (y + z) * n
  <2>1. sign * (y + z) = sign * y + sign * z
    BY DEF Signs
  <2>2. (e + f) * n = e * n + f * n
    OBVIOUS
  <2> QED
    BY <1>2, <1>3, <1>4, <2>1, <2>2
<1>9. x + u = a * (i + j) /\ g + h = (k + l) * n /\ p + q = 3 * (k + l)
  BY <1>4, <1>5
<1> QED
  BY <1>1, <1>7, <1>8, <1>9

LEMMA ReadBucket ==
  \A bucket, x, y, z : bucket = [amount |-> x, proceeds |-> y, basis |-> z] =>
    bucket.amount = x /\ bucket.proceeds = y /\ bucket.basis = z
OBVIOUS

(* The sides long and short of n portions make up the disposal d of sold   *)
(* units.                                                                  *)
Whole(d, long, short, n, sold, sign, cost) ==
  /\ long.amount + short.amount = sold
  /\ Accounts(sign * (long.proceeds + short.proceeds) * sold,
              sign * d.proceeds * sold, n * sold, 3 * n)
  /\ Accounts(long.basis + short.basis, cost, 0, 2 * n)
  /\ Accounts(d.basis, cost, 0, 2 * n)

LEMMA HoldingSplit ==
  ASSUME Inv, CostInv, ~Pooled, NEW k \in DOMAIN disposals, NEW days
  PROVE  LET d == disposals[k]
         IN  Whole(d, Bucket(d, TRUE, days), Bucket(d, FALSE, days),
                   Cardinality(Portions(d.slot)), parsed[d.slot].amount,
                   IF d.proceeds < 0 THEN -1 ELSE 1, TrailCost(d.slot))
<1>0. PICK d, P, long, short, sign, sold, n :
        /\ d = disposals[k] /\ P = Portions(d.slot)
        /\ long = Bucket(d, TRUE, days) /\ short = Bucket(d, FALSE, days)
        /\ sign = (IF d.proceeds < 0 THEN -1 ELSE 1)
        /\ sold = parsed[d.slot].amount /\ n = Cardinality(P)
  OBVIOUS
<1>1. PICK s, r, t, c : s = d.slot /\ r = d.proceeds /\ t = taken[s] /\ c = TrailCosts(s)
  OBVIOUS
<1>2. /\ sold \in Nat \ {0} /\ r \in Int /\ s \in Slots
      /\ IsFiniteSet(P) /\ P \subseteq Slots
      /\ \A p \in Slots : t[p] \in Nat /\ unitCost[p] \in Nat
      /\ \A p \in Slots : c[p] \in Nat /\ c[p] = t[p] * unitCost[p]
      /\ SumFunctionOnSet(t, P) = sold /\ SumFunctionOnSet(c, P) = TrailCost(s)
      /\ 3 * n <= Parts
  BY <1>0, <1>1, DisposalParts
<1>3. TypeOK
  BY DEF Inv, TypeInv
<1>4. PICK a \in Nat : a = sign * r /\ SizeOf(sign, r, a) /\ sign \in Signs
  BY <1>0, <1>1, <1>2 DEF Signs, SizeOf
<1> DEFINE L == {p \in P : LongTerm(s, p, days) = TRUE}
           R == {p \in P : LongTerm(s, p, days) = FALSE}
<1>5. L \in SUBSET P /\ R = P \ L
  BY DEF LongTerm
<1>6. PICK Q \in SUBSET Slots, O \in SUBSET Slots : Q = L /\ O = R
  BY <1>2
<1> HIDE DEF L, R
<1>7. /\ IsFiniteSet(Q) /\ Cardinality(Q) \in Nat /\ 3 * Cardinality(Q) <= Parts
      /\ IsFiniteSet(O) /\ Cardinality(O) \in Nat /\ 3 * Cardinality(O) <= Parts
      /\ n = Cardinality(Q) + Cardinality(O) /\ n \in Nat
  <2>1. Q \in SUBSET P /\ O \in SUBSET P /\ Q \cap O = {} /\ Q \cup O = P
    BY <1>5, <1>6
  <2>2. IsFiniteSet(Q) /\ Cardinality(Q) \in Nat /\ IsFiniteSet(O) /\ Cardinality(O) \in Nat
    BY <1>2, <2>1, FS_Subset, FS_CardinalityType
  <2>3. Cardinality(Q \cup O) = Cardinality(Q) + Cardinality(O) - Cardinality(Q \cap O)
    BY <2>2, FS_Union
  <2>4. Cardinality(Q \cap O) = 0
    BY <2>1, FS_EmptySet
  <2>5. n = Cardinality(Q) + Cardinality(O)
    <3>1. PICK x \in Nat, y \in Nat : x = Cardinality(Q) /\ y = Cardinality(O)
      BY <2>2
    <3>2. n = Cardinality(Q \cup O)
      BY <1>0, <2>1
    <3>3. n = x + y - 0
      BY <2>3, <2>4, <3>1, <3>2
    <3> QED
      BY <3>1, <3>3
  <2> QED
    BY <1>2, <2>2, <2>5, PartsType
<1>8. ASSUME NEW side \in {TRUE, FALSE}, NEW S \in SUBSET Slots,
             S = {p \in P : LongTerm(s, p, days) = side},
             IsFiniteSet(S), 3 * Cardinality(S) <= Parts
      PROVE  \E y \in Int, v \in Nat :
               /\ Bucket(d, side, days)
                    = [amount |-> SumFunctionOnSet(t, S), proceeds |-> y, basis |-> v]
               /\ SideSays(sign, sold, y, a * SumFunctionOnSet(t, S), sold * Cardinality(S),
                           3 * Cardinality(S))
               /\ Accounts(v, SumFunctionOnSet(c, S), 0, 2 * Cardinality(S))
  <2>1. PICK pick, g :
          /\ SidesOf(g, pick, r, sold, t, unitCost, S)
          /\ Bucket(d, side, days) = [amount |-> SumFunctionOnSet(t, S),
                                      proceeds |-> g[S].proceeds, basis |-> g[S].basis]
    <3>1. /\ d.proceeds \in Int /\ parsed[d.slot].amount \in Nat \ {0}
          /\ Portions(d.slot) \subseteq Slots /\ \A p \in Slots : taken[d.slot][p] \in Nat
      BY <1>0, <1>1, <1>2
    <3>2. PICK T, pick, g :
            /\ T = {p \in Portions(d.slot) : LongTerm(d.slot, p, days) = side}
            /\ SidesOf(g, pick, d.proceeds, parsed[d.slot].amount, taken[d.slot], unitCost, T)
            /\ Bucket(d, side, days) = [amount |-> SumFunctionOnSet(taken[d.slot], T),
                                        proceeds |-> g[T].proceeds, basis |-> g[T].basis]
      BY <1>3, <3>1, SideUnfold
    <3>3. T = S
      BY <1>0, <1>1, <1>8, <3>2
    <3> QED
      BY <1>0, <1>1, <3>2, <3>3
  <2>2. /\ SideSays(sign, sold, g[S].proceeds, a * SumFunctionOnSet(t, S),
                    sold * Cardinality(S), 3 * Cardinality(S))
        /\ Accounts(g[S].basis, SumFunctionOnSet(c, S), 0, 2 * Cardinality(S))
    <3>1. sign \in Signs /\ SizeOf(sign, r, a) /\ a \in Nat /\ r \in Int
      BY <1>2, <1>4
    <3>2. Costs(c, t, unitCost, S) /\ SidesOf(g, pick, r, sold, t, unitCost, S)
      BY <1>2, <2>1 DEF Costs
    <3>3. IsFiniteSet(S) /\ 3 * Cardinality(S) <= Parts /\ sold \in Nat \ {0}
      BY <1>2, <1>8
    <3> QED
      BY ONLY <3>1, <3>2, <3>3, SideAccounts
  <2>3. g[S].proceeds \in Int /\ g[S].basis \in Nat
    BY <2>1 DEF Money, SidesOf
  <2> QED
    BY <2>1, <2>2, <2>3
<1>9. PICK yl \in Int, vl \in Nat :
        /\ long = [amount |-> SumFunctionOnSet(t, Q), proceeds |-> yl, basis |-> vl]
        /\ SideSays(sign, sold, yl, a * SumFunctionOnSet(t, Q), sold * Cardinality(Q),
                    3 * Cardinality(Q))
        /\ Accounts(vl, SumFunctionOnSet(c, Q), 0, 2 * Cardinality(Q))
  <2>1. Q = {p \in P : LongTerm(s, p, days) = TRUE}
    BY <1>6 DEF L
  <2> QED
    BY <1>0, <1>7, <1>8, <2>1
<1>10. PICK ys \in Int, vs \in Nat :
         /\ short = [amount |-> SumFunctionOnSet(t, O), proceeds |-> ys, basis |-> vs]
         /\ SideSays(sign, sold, ys, a * SumFunctionOnSet(t, O), sold * Cardinality(O),
                     3 * Cardinality(O))
         /\ Accounts(vs, SumFunctionOnSet(c, O), 0, 2 * Cardinality(O))
  <2>1. O = {p \in P : LongTerm(s, p, days) = FALSE}
    BY <1>6 DEF R
  <2> QED
    BY <1>0, <1>7, <1>8, <2>1
<1>11. PICK i \in Nat, j \in Nat, cl \in Nat, cs \in Nat, ql \in Nat, qs \in Nat :
         /\ i = SumFunctionOnSet(t, Q) /\ j = SumFunctionOnSet(t, O)
         /\ cl = SumFunctionOnSet(c, Q) /\ cs = SumFunctionOnSet(c, O)
         /\ ql = Cardinality(Q) /\ qs = Cardinality(O)
  <2>1. \A p \in Slots : t[p] \in Nat /\ c[p] \in Nat
    BY <1>2
  <2> QED
    BY <1>7, <2>1, SumNat
<1>12. i + j = sold /\ cl + cs = TrailCost(s) /\ ql + qs = n
  <2>1. \A p \in P : t[p] \in Int /\ c[p] \in Int
    BY <1>2
  <2>2. Q \in SUBSET P /\ O = P \ Q
    BY <1>5, <1>6
  <2>3. /\ SumFunctionOnSet(t, P) = SumFunctionOnSet(t, Q) + SumFunctionOnSet(t, P \ Q)
        /\ SumFunctionOnSet(c, P) = SumFunctionOnSet(c, Q) + SumFunctionOnSet(c, P \ Q)
    BY <1>2, <2>1, <2>2, SumSplit
  <2> QED
    BY <1>2, <1>7, <1>11, <2>2, <2>3
<1>13. /\ SideSays(sign, sold, yl, a * i, sold * ql, 3 * ql) /\ Accounts(vl, cl, 0, 2 * ql)
       /\ SideSays(sign, sold, ys, a * j, sold * qs, 3 * qs) /\ Accounts(vs, cs, 0, 2 * qs)
  BY <1>9, <1>10, <1>11
<1>14. /\ Accounts(sign * (yl + ys) * sold, a * (i + j), (ql + qs) * sold, 3 * (ql + qs))
       /\ Accounts(vl + vs, cl + cs, 0, 2 * (ql + qs))
  <2>1. sign \in Signs /\ sold \in Nat \ {0}
    BY <1>2, <1>4
  <2> QED
    BY ONLY <1>13, <2>1, a \in Nat, yl \in Int, vl \in Nat, ql \in Nat, i \in Nat, ys \in Int,
            vs \in Nat, qs \in Nat, j \in Nat, cl \in Nat, cs \in Nat, SidesTogether
<1>15. /\ long.amount = i /\ long.proceeds = yl /\ long.basis = vl
       /\ short.amount = j /\ short.proceeds = ys /\ short.basis = vs
  <2>1. /\ long = [amount |-> i, proceeds |-> yl, basis |-> vl]
        /\ short = [amount |-> j, proceeds |-> ys, basis |-> vs]
    BY <1>9, <1>10, <1>11
  <2> QED
    BY ONLY <2>1, ReadBucket
<1>16. Accounts(d.basis, TrailCost(s), 0, 2 * n)
  BY <1>0, <1>1 DEF CostInv, BasisInv, Covers
<1>17. a * sold = sign * d.proceeds * sold
  BY <1>1, <1>4
<1>18. /\ Accounts(sign * (yl + ys) * sold, a * sold, n * sold, 3 * n)
       /\ Accounts(vl + vs, TrailCost(s), 0, 2 * n)
  BY <1>12, <1>14
<1>19. Whole(d, long, short, n, sold, sign, TrailCost(s))
  BY <1>12, <1>15, <1>16, <1>17, <1>18 DEF Whole
<1> QED
  BY <1>0, <1>1, <1>19

(* The short- and long-term portions of a disposal make up the disposal    *)
(* (lots.py:126-135), for every ledger and every cutoff: its amount        *)
(* exactly, its proceeds and the cost of the lots it consumed up to the    *)
(* roundings of the sums.                                                  *)
THEOREM HoldingSplits == Spec => []HoldingSplitComplete
<1>1. Inv /\ CostInv => HoldingSplitComplete
  <2> SUFFICES ASSUME Inv, CostInv, phase = "done", NEW k \in DOMAIN disposals,
                      NEW days \in DaysAsked, HoldingRefusal(days).code = "none"
               PROVE  LET d == disposals[k]
                          long == Bucket(d, TRUE, days)
                          short == Bucket(d, FALSE, days)
                          n == Cardinality(Portions(d.slot))
                          sold == parsed[d.slot].amount
                          sign == IF d.proceeds < 0 THEN -1 ELSE 1
                      IN  /\ long.amount + short.amount = sold
                          /\ Accounts(sign * (long.proceeds + short.proceeds) * sold,
                                      sign * d.proceeds * sold, n * sold, 3 * n)
                          /\ Accounts(long.basis + short.basis, TrailCost(d.slot), 0, 2 * n)
                          /\ Accounts(d.basis, TrailCost(d.slot), 0, 2 * n)
    BY DEF HoldingSplitComplete, TrailCost, TrailCosts
  <2>1. ~Pooled
    BY DEF HoldingRefusal
  <2> QED
    BY <2>1, HoldingSplit DEF Whole
<1> QED
  BY <1>1, CostInvariant, PTL

(***************************************************************************)
(* What the engine has read                                                *)
(***************************************************************************)

(* Trade t of the request, with the number n, as it is read. *)
ReadAs(t, n) ==
  [i |-> n, side |-> t.side, asset |-> Upper[t.asset],
   amount |-> t.amount, price |-> t.price, fee |-> t.fee, time |-> t.time]

Accepted == \A i \in DOMAIN Trades : Refusal(Trades[i]) = "none"

(* The sorted ledger is a rearrangement of the trades of the request. *)
Ordered ==
  /\ HeaderRefusal = "none" /\ Accepted
  /\ Len(parsed) = Len(Trades)
  /\ Comparable(parsed)
  /\ \A j, k \in DOMAIN parsed : j < k => Before(parsed[j], parsed[k])
  /\ \A k \in DOMAIN parsed : /\ parsed[k].i \in DOMAIN Trades
                              /\ parsed[k] = ReadAs(Trades[parsed[k].i], parsed[k].i)
  /\ \A i \in DOMAIN Trades : \E k \in DOMAIN parsed : parsed[k].i = i

Oversell == phase = "failed" /\ error.code = "INSUFFICIENT_INVENTORY"

(* Why a call failed that did not reach the matching. *)
Malformed ==
  \/ HeaderRefusal # "none"
  \/ \E i \in DOMAIN Trades : Refusal(Trades[i]) # "none"
  \/ Accepted /\ \E i, j \in DOMAIN Trades : Trades[i].time.kind # Trades[j].time.kind

ReadInv ==
  /\ phase = "parse" => /\ HeaderRefusal = "none" /\ Len(parsed) <= Len(Trades)
                        /\ \A k \in DOMAIN parsed : /\ Refusal(Trades[k]) = "none"
                                                    /\ parsed[k] = ReadAs(Trades[k], k)
  /\ phase \in {"match", "consume", "done"} \/ Oversell => Ordered
  /\ phase = "failed" /\ ~Oversell => Malformed

LEMMA TradesType ==
  ASSUME TypeOK
  PROVE  /\ Trades \in Seq(RawTrades) /\ Len(Trades) \in Nat /\ DOMAIN Trades = 1..Len(Trades)
         /\ IsFiniteSet(DOMAIN Trades)
         /\ \A i \in DOMAIN Trades : i \in Nat /\ Trades[i] \in RawTrades
<1>1. Trades \in Seq(RawTrades)
  BY RequestsAssumption DEF TypeOK, Trades
<1> QED
  BY <1>1, FS_Interval

(* All trades are read once the header is accepted. *)
LEMMA TradesRead ==
  ASSUME HeaderRefusal = "none"
  PROVE  Trades = request.trades
BY DEF HeaderRefusal, Trades

LEMMA ReadInit == Init => ReadInv
BY DEF Init, ReadInv, Oversell

(* Sorting: a rearrangement without repetitions leaves no trade out. *)
LEMMA SortOrders ==
  ASSUME TypeOK, TypeOK', ReadInv, SortTrades, phase' = "match"
  PROVE  Ordered'
<1>1. /\ phase = "parse" /\ Len(parsed) = Len(request.trades) /\ UNCHANGED request
      /\ Comparable(parsed)
      /\ HeaderRefusal = "none" /\ Trades = request.trades
      /\ \A k \in DOMAIN parsed : Refusal(Trades[k]) = "none" /\ parsed[k] = ReadAs(Trades[k], k)
  BY TradesRead DEF SortTrades, ReadInv, Fail
<1>2. PICK f \in [DOMAIN parsed -> DOMAIN parsed] :
        /\ \A j, k \in DOMAIN parsed : j < k => Before(parsed[f[j]], parsed[f[k]])
        /\ parsed' = [k \in DOMAIN parsed |-> parsed[f[k]]]
  BY <1>1 DEF SortTrades, Fail
<1> DEFINE D == DOMAIN parsed
<1>3. /\ D = 1..Len(parsed) /\ Len(parsed) \in Nat /\ D = DOMAIN Trades /\ IsFiniteSet(D)
      /\ \A k \in D : k \in Nat
  BY <1>1, DomainParsed, TradesType
<1>4. \A k \in D : parsed[k].i = k /\ parsed[k].time.rank \in Int
  <2>1. \A k \in D : parsed[k].i = k
    BY <1>1 DEF ReadAs
  <2>2. \A k \in D : parsed[k].time \in {t.time : t \in RawTrades \ {NotAnObject}} \ {NoTime}
    BY DomainParsed DEF ParsedTrades
  <2> QED
    BY <2>1, <2>2, TimesAssumption
<1>5. \A j, k \in D : f[j] = f[k] => j = k
  <2>1. \A j, k \in D : j < k => f[j] # f[k]
    BY <1>2, <1>3, <1>4 DEF Before
  <2> QED
    BY <1>3, <2>1
<1>6. \A i \in D : \E k \in D : f[k] = i
  <2>1. f \in Injection(D, D)
    BY <1>5 DEF Injection, IsInjective
  <2>2. f \in Surjection(D, D)
    BY <1>3, <2>1, FS_Injection
  <2> QED
    BY <2>2 DEF Surjection
<1>7. /\ Len(parsed') = Len(parsed) /\ DOMAIN parsed' = D
      /\ \A k \in D : parsed'[k] = parsed[f[k]] /\ f[k] \in D
  BY <1>2, <1>3
<1>8. /\ HeaderRefusal' = "none" /\ Accepted' /\ Trades' = Trades
      /\ Len(parsed') = Len(Trades')
  BY <1>1, <1>3, <1>7 DEF HeaderRefusal, Accepted, Trades
<1>9. Comparable(parsed')
  BY <1>1, <1>7 DEF Comparable
<1>10. \A j, k \in DOMAIN parsed' : j < k => Before(parsed'[j], parsed'[k])
  BY <1>2, <1>7
<1>11. \A k \in DOMAIN parsed' :
         /\ parsed'[k].i \in DOMAIN Trades'
         /\ parsed'[k] = ReadAs(Trades'[parsed'[k].i], parsed'[k].i)
  <2>1. \A k \in D : parsed'[k].i = f[k] /\ parsed'[k] = ReadAs(Trades[f[k]], f[k])
    BY <1>1, <1>4, <1>7
  <2> QED
    BY <1>3, <1>7, <1>8, <2>1
<1>12. \A i \in DOMAIN Trades' : \E k \in DOMAIN parsed' : parsed'[k].i = i
  <2>1. \A k \in D : parsed'[k].i = f[k]
    BY <1>4, <1>7
  <2>2. \A i \in D : \E k \in D : parsed'[k].i = i
    BY <1>6, <2>1
  <2>3. DOMAIN Trades' = D /\ DOMAIN parsed' = D
    BY <1>3, <1>7, <1>8
  <2> HIDE DEF D
  <2> QED
    BY <2>2, <2>3
<1> QED
  BY <1>8, <1>9, <1>10, <1>11, <1>12 DEF Ordered

LEMMA ReadStep == Inv /\ Inv' /\ ReadInv /\ [Next]_vars => ReadInv'
<1> SUFFICES ASSUME Inv, Inv', ReadInv, [Next]_vars PROVE ReadInv'
  OBVIOUS
<1>1. TypeOK /\ TypeOK'
  BY DEF Inv, TypeInv
<1>2. CASE CheckHeader
  <2>1. UNCHANGED <<request, parsed>> /\ parsed = <<>> /\ Trades \in Seq(RawTrades)
    BY <1>1, <1>2, TradesType DEF CheckHeader, Inv, TypeInv, Progress
  <2>2. Len(parsed') <= Len(Trades') /\ DOMAIN parsed' = {}
    BY <2>1 DEF Trades
  <2>3. CASE HeaderRefusal = "none"
    BY <1>2, <2>1, <2>2, <2>3 DEF CheckHeader, ReadInv, HeaderRefusal, Oversell
  <2>4. CASE HeaderRefusal # "none"
    <3>1. phase' = "failed" /\ error'.code = HeaderRefusal /\ HeaderRefusal' = HeaderRefusal
      BY <1>2, <2>1, <2>4 DEF CheckHeader, Fail, HeaderRefusal
    <3>2. ~Oversell' /\ Malformed'
      BY <2>4, <3>1, RefusalsOfReading DEF Oversell, Malformed
    <3> QED
      BY <3>1, <3>2 DEF ReadInv
  <2> QED
    BY <2>3, <2>4
<1>3. CASE ParseTrade
  <2>1. PICK n, t : n = Len(parsed) + 1 /\ t = Trades[n]
    OBVIOUS
  <2>2. /\ phase = "parse" /\ phase' = "parse" /\ UNCHANGED request
        /\ Len(parsed) < Len(Trades) /\ Refusal(t) = "none"
        /\ parsed' = Append(parsed, ReadAs(t, n))
    BY <1>3, <2>1, TradesRead DEF ParseTrade, Reading, ReadAs, ReadInv
  <2>3. /\ Trades' = Trades /\ HeaderRefusal' = HeaderRefusal
        /\ Len(Trades) \in Nat /\ Len(parsed) \in Nat
        /\ DOMAIN parsed = 1..Len(parsed) /\ parsed \in Seq(ParsedTrades)
    BY <1>1, <2>2, TradesType, DomainParsed DEF Trades, HeaderRefusal, TypeOK
  <2>4. /\ Len(parsed') = n /\ DOMAIN parsed' = 1..n /\ parsed'[n] = ReadAs(t, n)
        /\ \A k \in DOMAIN parsed : parsed'[k] = parsed[k]
    BY <2>1, <2>2, <2>3
  <2>5. \A k \in DOMAIN parsed' : Refusal(Trades'[k]) = "none" /\ parsed'[k] = ReadAs(Trades'[k], k)
    <3>1. \A k \in 1..n : k \in DOMAIN parsed \/ k = n
      BY <2>1, <2>3
    <3> QED
      BY <2>1, <2>2, <2>3, <2>4, <3>1 DEF ReadInv
  <2> QED
    BY <2>1, <2>2, <2>3, <2>4, <2>5 DEF ReadInv, Oversell
<1>4. CASE RefuseTrade
  <2>1. PICK n : n = Len(parsed) + 1
    OBVIOUS
  <2>2. /\ phase' = "failed" /\ Refusal(Trades[n]) # "none" /\ error'.code = Refusal(Trades[n])
        /\ UNCHANGED request /\ Len(parsed) < Len(Trades)
    BY <1>4, <2>1, TradesRead DEF RefuseTrade, Reading, Fail, ReadInv
  <2>3. n \in DOMAIN Trades /\ Trades' = Trades
    BY <1>1, <2>1, <2>2, TradesType, DomainParsed DEF Trades
  <2>4. ~Oversell' /\ Malformed'
    BY <2>2, <2>3, RefusalsOfReading DEF Oversell, Malformed
  <2> QED
    BY <2>2, <2>4 DEF ReadInv
<1>5. CASE SortTrades
  <2>1. CASE phase' = "match"
    <3>1. Ordered'
      BY <1>1, <1>5, <2>1, SortOrders
    <3> QED
      BY <2>1, <3>1 DEF ReadInv
  <2>2. CASE phase' # "match"
    <3>1. /\ phase = "parse" /\ phase' = "failed" /\ error'.code = "BAD_TIMESTAMP"
          /\ ~Comparable(parsed) /\ Len(parsed) = Len(Trades) /\ Trades' = Trades
      <4>1. Trades = request.trades
        BY <1>5, TradesRead DEF SortTrades, ReadInv
      <4>2. Trades' = Trades
        BY <1>5 DEF SortTrades, Trades
      <4> QED
        BY <1>5, <2>2, <4>1, <4>2 DEF SortTrades, Fail
    <3>2. DOMAIN parsed = DOMAIN Trades
      BY <1>1, <3>1, TradesType, DomainParsed
    <3>3. \A k \in DOMAIN Trades : /\ Refusal(Trades[k]) = "none"
                                   /\ parsed[k].time = Trades[k].time
      BY <3>1, <3>2 DEF ReadInv, ReadAs
    <3>4. \E i, j \in DOMAIN Trades : Trades[i].time.kind # Trades[j].time.kind
      BY <3>1, <3>2, <3>3 DEF Comparable
    <3>5. ~Oversell' /\ Malformed'
      BY <3>1, <3>3, <3>4 DEF Oversell, Malformed, Accepted
    <3> QED
      BY <3>1, <3>5 DEF ReadInv
  <2> QED
    BY <2>1, <2>2
<1>6. CASE Match \/ Report
  <2>1. /\ UNCHANGED <<request, parsed>> /\ phase \in {"match", "consume"}
        /\ phase' \in {"match", "consume", "done"} \/ Oversell'
    BY <1>6 DEF Match, OpenLot, MergeIntoPool, RefuseSell, BeginSell, ConsumeLot,
                FinishSell, Report, Matching, Fail, Oversell
  <2>2. Ordered'
    <3>1. Ordered
      BY <2>1 DEF ReadInv
    <3> QED
      BY <2>1, <3>1 DEF Ordered, HeaderRefusal, Accepted, Trades
  <2> QED
    BY <2>1, <2>2 DEF ReadInv, Oversell
<1>7. CASE UNCHANGED vars
  BY <1>7 DEF vars, ReadInv, Ordered, HeaderRefusal, Accepted, Trades, Oversell, Malformed
<1> QED
  BY <1>2, <1>3, <1>4, <1>5, <1>6, <1>7 DEF Next

(***************************************************************************)
(* The position after each trade of the ledger                             *)
(***************************************************************************)

AmountsOf(l) == [q \in DOMAIN l |-> l[q].amount]
Moves(l, n, side, a) == {q \in 1..n : l[q].side = side /\ l[q].asset = a}

(* The position of asset a after the first n trades of the ledger l. *)
NetAfter(l, n, a) ==
  SumFunctionOnSet(AmountsOf(l), Moves(l, n, "buy", a))
    - SumFunctionOnSet(AmountsOf(l), Moves(l, n, "sell", a))

LEMMA MovesGrow ==
  ASSUME NEW l, NEW n \in Nat \ {0}, 1..n \subseteq DOMAIN l,
         \A q \in 1..n : l[q].amount \in Nat,
         NEW side, NEW a
  PROVE  /\ SumFunctionOnSet(AmountsOf(l), Moves(l, n, side, a)) \in Int
         /\ SumFunctionOnSet(AmountsOf(l), Moves(l, n - 1, side, a)) \in Int
         /\ SumFunctionOnSet(AmountsOf(l), Moves(l, n, side, a))
              = SumFunctionOnSet(AmountsOf(l), Moves(l, n - 1, side, a))
                + IF l[n].side = side /\ l[n].asset = a THEN l[n].amount ELSE 0
<1> DEFINE f == AmountsOf(l)
           S == Moves(l, n, side, a)
           T == Moves(l, n - 1, side, a)
<1>1. 1..n = 1..(n - 1) \cup {n} /\ n \notin 1..(n - 1) /\ n \in 1..n
  OBVIOUS
<1>2. IsFiniteSet(S) /\ IsFiniteSet(T)
  <2>1. IsFiniteSet(1..n) /\ IsFiniteSet(1..(n - 1))
    BY FS_Interval
  <2> QED
    BY <2>1, FS_Subset DEF Moves
<1>3. \A q \in 1..n : f[q] = l[q].amount /\ f[q] \in Int
  BY DEF AmountsOf
<1>4. S \subseteq 1..n /\ T \subseteq 1..n
  BY <1>1 DEF Moves
<1>5. \A q \in S : f[q] \in Int
  BY <1>3, <1>4
<1>6. \A q \in T : f[q] \in Int
  BY <1>3, <1>4
<1> HIDE DEF f
<1>7. SumFunctionOnSet(f, S) \in Int /\ SumFunctionOnSet(f, T) \in Int
  BY <1>2, <1>5, <1>6, SumRemove
<1>8. CASE l[n].side = side /\ l[n].asset = a
  <2>1. n \in S /\ S \ {n} = T
    BY <1>1, <1>8 DEF Moves
  <2>2. SumFunctionOnSet(f, S) = f[n] + SumFunctionOnSet(f, S \ {n})
    BY <1>2, <1>5, <2>1, SumRemove
  <2>3. PICK x, y : x = SumFunctionOnSet(f, S) /\ y = SumFunctionOnSet(f, T)
    OBVIOUS
  <2>4. x \in Int /\ y \in Int /\ f[n] \in Int /\ l[n].amount = f[n]
    BY <1>1, <1>3, <1>7, <2>3
  <2>5. x = f[n] + y
    BY <2>1, <2>2, <2>3
  <2>6. x = y + l[n].amount
    BY <2>4, <2>5
  <2> QED
    BY <1>7, <1>8, <2>3, <2>6 DEF f
<1>9. CASE ~(l[n].side = side /\ l[n].asset = a)
  <2>1. S = T
    BY <1>1, <1>9 DEF Moves
  <2> QED
    BY <1>7, <1>9, <2>1 DEF f
<1> QED
  BY <1>8, <1>9

Readable(l, n) ==
  1..n \subseteq DOMAIN l /\ \A q \in 1..n : l[q].amount \in Nat /\ l[q].side \in Sides

LEMMA NetGrows ==
  ASSUME NEW l, NEW n \in Nat \ {0}, Readable(l, n), NEW a
  PROVE  /\ NetAfter(l, n, a) \in Int /\ NetAfter(l, n - 1, a) \in Int
         /\ NetAfter(l, n, a) = NetAfter(l, n - 1, a)
              + IF l[n].asset # a THEN 0
                ELSE IF l[n].side = "buy" THEN l[n].amount ELSE -l[n].amount
<1>1. /\ l[n].side \in Sides /\ l[n].amount \in Nat
      /\ 1..n \subseteq DOMAIN l /\ \A q \in 1..n : l[q].amount \in Nat
  BY DEF Readable
<1>2. PICK b, b1, c, c1 :
        /\ b = SumFunctionOnSet(AmountsOf(l), Moves(l, n, "buy", a))
        /\ b1 = SumFunctionOnSet(AmountsOf(l), Moves(l, n - 1, "buy", a))
        /\ c = SumFunctionOnSet(AmountsOf(l), Moves(l, n, "sell", a))
        /\ c1 = SumFunctionOnSet(AmountsOf(l), Moves(l, n - 1, "sell", a))
  OBVIOUS
<1>3. /\ b \in Int /\ b1 \in Int
      /\ b = b1 + IF l[n].side = "buy" /\ l[n].asset = a THEN l[n].amount ELSE 0
  BY <1>1, <1>2, MovesGrow
<1>4. /\ c \in Int /\ c1 \in Int
      /\ c = c1 + IF l[n].side = "sell" /\ l[n].asset = a THEN l[n].amount ELSE 0
  BY <1>1, <1>2, MovesGrow
<1>5. NetAfter(l, n, a) = b - c /\ NetAfter(l, n - 1, a) = b1 - c1
  BY <1>2 DEF NetAfter
<1>6. b - c = b1 - c1 + IF l[n].asset # a THEN 0
                        ELSE IF l[n].side = "buy" THEN l[n].amount ELSE -l[n].amount
  BY <1>1, <1>3, <1>4 DEF Sides
<1> QED
  BY <1>3, <1>4, <1>5, <1>6

LEMMA NetAtFirst == \A l, a : NetAfter(l, 0, a) = 0
<1>1. \A l, side, a : Moves(l, 0, side, a) = {}
  BY DEF Moves
<1>2. \A f : SumFunctionOnSet(f, {}) = 0
  BY FS_EmptySet, SumRemove
<1> QED
  BY <1>1, <1>2 DEF NetAfter

(* What was honoured could be honoured, and what is refused could not. *)
NetInv ==
  phase \in {"match", "consume", "done"} \/ Oversell =>
    /\ \A a \in Assets : Position[a] = NetAfter(parsed, pos - 1, a)
    /\ \A n \in 1..(pos - 1) :
         parsed[n].side = "sell" =>
           parsed[n].amount <= NetAfter(parsed, n - 1, parsed[n].asset)
    /\ phase = "done" => pos = Len(parsed) + 1
    /\ Oversell => /\ pos \in DOMAIN parsed /\ Current.side = "sell" /\ error.at = Current.i
                   /\ Current.amount > NetAfter(parsed, pos - 1, Current.asset)

(* The two ways in which a trade of the ledger is honoured. *)
LEMMA NetOfStep ==
  ASSUME TypeOK, TypeOK', NetInv, phase \in {"match", "consume"}, phase' = "match",
         Positions!Acquire \/ Positions!Dispose,
         UNCHANGED parsed, pos <= Len(parsed), pos' = pos + 1
  PROVE  NetInv'
<1>1. PICK n, l, c : n = pos /\ l = parsed /\ c = Current
  OBVIOUS
<1>2. /\ n \in Nat \ {0} /\ pos' = n + 1 /\ parsed' = l /\ c = l[n]
      /\ c \in ParsedTrades /\ n \in DOMAIN l /\ 1..n \subseteq DOMAIN l
      /\ \A q \in 1..n : l[q].amount \in Nat /\ l[q].side \in Sides
  <2>1. /\ n \in Nat \ {0} /\ pos' = n + 1 /\ parsed' = l /\ c = l[n]
        /\ c \in ParsedTrades /\ n \in DOMAIN l
    BY <1>1, CurrentType DEF Current, TypeOK
  <2>2. 1..n \subseteq DOMAIN l
    BY <1>1, <2>1, DomainParsed
  <2>3. \A q \in 1..n : l[q].amount \in Nat /\ l[q].side \in Sides
    BY <1>1, <2>2, DomainParsed DEF ParsedTrades
  <2> QED
    BY <2>1, <2>2, <2>3
<1>3. /\ OrderedLedger[n].side = c.side /\ OrderedLedger[n].asset = c.asset
      /\ OrderedLedger[n].amount = c.amount
  BY <1>1, EntryDue
<1>4. c.asset \in Assets /\ c.amount \in Nat /\ c.side \in Sides
  BY <1>2 DEF ParsedTrades
<1>5. \A a \in Assets : Position[a] = NetAfter(l, n - 1, a)
  BY <1>1 DEF NetInv
<1>6. \A a \in Assets : /\ NetAfter(l, n, a) \in Int /\ NetAfter(l, n - 1, a) \in Int
                        /\ NetAfter(l, n, a) = NetAfter(l, n - 1, a)
                             + IF c.asset # a THEN 0
                               ELSE IF c.side = "buy" THEN c.amount ELSE -c.amount
  <2> SUFFICES ASSUME NEW a \in Assets
               PROVE  /\ NetAfter(l, n, a) \in Int /\ NetAfter(l, n - 1, a) \in Int
                      /\ NetAfter(l, n, a) = NetAfter(l, n - 1, a)
                           + IF l[n].asset # a THEN 0
                             ELSE IF l[n].side = "buy" THEN l[n].amount ELSE -l[n].amount
    BY <1>2
  <2>1. Readable(l, n)
    BY <1>2 DEF Readable
  <2> QED
    BY <1>2, <2>1, NetGrows
<1>7. Position \in [Assets -> Int]
  <2>1. Position = [a \in Assets |-> Position[a]]
    BY DEF Position
  <2> QED
    BY <1>5, <1>6, <2>1
<1>8. /\ \A a \in Assets : Position'[a] = NetAfter(l, n, a)
      /\ c.side = "sell" => c.amount <= NetAfter(l, n - 1, c.asset)
  <2>1. CASE Positions!Acquire
    <3>1. /\ c.side = "buy"
          /\ Position' = [Position EXCEPT ![c.asset] = Position[c.asset] + c.amount]
      BY <1>1, <1>3, <2>1 DEF Positions!Acquire
    <3>2. \A a \in Assets : Position'[a] = IF a = c.asset THEN Position[a] + c.amount
                                           ELSE Position[a]
      BY <1>4, <1>7, <3>1
    <3> QED
      BY <1>4, <1>5, <1>6, <3>1, <3>2
  <2>2. CASE Positions!Dispose
    <3>1. /\ c.side = "sell" /\ c.amount <= Position[c.asset]
          /\ Position' = [Position EXCEPT ![c.asset] = Position[c.asset] - c.amount]
      BY <1>1, <1>3, <2>2 DEF Positions!Dispose
    <3>2. \A a \in Assets : Position'[a] = IF a = c.asset THEN Position[a] - c.amount
                                           ELSE Position[a]
      BY <1>4, <1>7, <3>1
    <3>3. c.amount <= NetAfter(l, n - 1, c.asset)
      BY <1>4, <1>5, <3>1
    <3>4. \A a \in Assets : Position'[a] = NetAfter(l, n, a)
      BY <1>4, <1>5, <1>6, <3>1, <3>2
    <3> QED
      BY <3>3, <3>4
  <2> QED
    BY <2>1, <2>2
<1>9. /\ \A a \in Assets : Position'[a] = NetAfter(parsed', pos' - 1, a)
      /\ phase' # "done" /\ ~Oversell'
  <2>1. pos' - 1 = n
    BY <1>2
  <2> QED
    BY <1>2, <1>8, <2>1 DEF Oversell
<1>10. \A m \in 1..(pos' - 1) :
         parsed'[m].side = "sell" =>
           parsed'[m].amount <= NetAfter(parsed', m - 1, parsed'[m].asset)
  <2>1. \A m \in 1..(n - 1) :
          l[m].side = "sell" => l[m].amount <= NetAfter(l, m - 1, l[m].asset)
    BY <1>1 DEF NetInv
  <2>2. \A m \in 1..(pos' - 1) : m \in 1..(n - 1) \/ m = n
    BY <1>2
  <2> QED
    BY <1>2, <1>8, <2>1, <2>2
<1> QED
  BY <1>9, <1>10 DEF NetInv

LEMMA NetInit == Init => NetInv
BY DEF Init, NetInv, Oversell

LEMMA NetOfReading ==
  ASSUME Inv, Inv', CheckHeader \/ ParseTrade \/ RefuseTrade \/ SortTrades
  PROVE  NetInv'
<1>1. TypeOK /\ TypeOK' /\ phase \in {"header", "parse"} /\ pos = 1 /\ pos' = 1
  BY DEF Inv, TypeInv, Progress, CheckHeader, ParseTrade, RefuseTrade, Reading, SortTrades
<1>2. ~Oversell' /\ phase' \in {"header", "parse", "match", "failed"}
  BY <1>1, RefusalsOfReading
    DEF CheckHeader, ParseTrade, RefuseTrade, Reading, SortTrades, Fail, Oversell
<1>3. Position' = [a \in Assets |-> 0]
  <2>1. Position = [a \in Assets |-> 0]
    BY <1>1, PositionAtRest, NothingAvailable
  <2>2. Position' = Position
    BY RefinementReading DEF Positions!Load, Positions!vars
  <2> QED
    BY <2>1, <2>2
<1>4. \A a \in Assets : Position'[a] = NetAfter(parsed', pos' - 1, a)
  BY <1>1, <1>3, NetAtFirst
<1> QED
  BY <1>1, <1>2, <1>4 DEF NetInv

LEMMA NetOfRefusal ==
  ASSUME Inv, NetInv, RefuseSell
  PROVE  NetInv'
<1>1. /\ TypeOK /\ phase = "match" /\ phase' = "failed" /\ pos <= Len(parsed)
      /\ error'.code = "INSUFFICIENT_INVENTORY" /\ error'.at = Current.i
      /\ Current.side = "sell"
      /\ UNCHANGED <<parsed, pos>>
  BY DEF Inv, TypeInv, RefuseSell, Matching, Fail
<1>2. /\ OrderedLedger[pos].asset = Current.asset
      /\ OrderedLedger[pos].amount = Current.amount
      /\ pos \in DOMAIN parsed /\ Current.asset \in Assets
  BY <1>1, EntryDue, CurrentType DEF ParsedTrades
<1>3. UNCHANGED Position /\ Current.amount > Position[Current.asset]
  BY <1>2, RefinementRefusal DEF Positions!Refuse
<1>4. Current' = Current /\ Oversell'
  BY <1>1 DEF Current, Oversell
<1> QED
  BY <1>1, <1>2, <1>3, <1>4 DEF NetInv

LEMMA NetStep == Inv /\ Inv' /\ NetInv /\ [Next]_vars => NetInv'
<1> SUFFICES ASSUME Inv, Inv', NetInv, [Next]_vars PROVE NetInv'
  OBVIOUS
<1>1. TypeOK /\ TypeOK'
  BY DEF Inv, TypeInv
<1>2. CASE CheckHeader \/ ParseTrade \/ RefuseTrade \/ SortTrades
  BY <1>2, NetOfReading
<1>3. CASE OpenLot \/ MergeIntoPool
  BY <1>1, <1>3, RefinementBuy, NetOfStep DEF OpenLot, MergeIntoPool, Matching
<1>4. CASE RefuseSell
  BY <1>4, NetOfRefusal
<1>5. CASE BeginSell \/ ConsumeLot
  <2>1. UNCHANGED <<Position, pos>>
    BY <1>5, RefinementBegin, RefinementRound DEF Positions!vars
  <2>2. /\ phase \in {"match", "consume"} /\ phase' \in {"match", "consume"}
        /\ UNCHANGED parsed
    BY <1>5 DEF BeginSell, ConsumeLot, Matching
  <2> QED
    BY <2>1, <2>2 DEF NetInv, Oversell
<1>6. CASE FinishSell
  <2>1. pos <= Len(parsed)
    BY <1>6 DEF FinishSell, Inv, TypeInv, Progress
  <2> QED
    BY <1>1, <1>6, <2>1, RefinementSell, NetOfStep DEF FinishSell
<1>7. CASE Report
  <2>1. /\ phase = "match" /\ phase' = "done" /\ pos > Len(parsed)
        /\ UNCHANGED <<parsed, pos>> /\ UNCHANGED Position
    BY <1>7, RefinementReport DEF Report, Positions!Complete
  <2>2. pos = Len(parsed) + 1
    <3>1. pos \in Nat /\ pos <= Len(parsed) + 1 /\ Len(parsed) \in Nat
      BY <1>1, DomainParsed DEF TypeOK
    <3> QED
      BY <2>1, <3>1
  <2> QED
    BY <2>1, <2>2 DEF NetInv, Oversell
<1>8. CASE UNCHANGED vars
  BY <1>8 DEF vars, NetInv, Oversell, Position, Available, Lots, Current
<1> QED
  BY <1>2, <1>3, <1>4, <1>5, <1>6, <1>7, <1>8 DEF Next, Match

LEMMA ViewsInvariant == Spec => [](Inv /\ ReadInv /\ NetInv)
<1>1. Init => ReadInv /\ NetInv
  BY ReadInit, NetInit
<1>2. Inv /\ Inv' /\ (ReadInv /\ NetInv) /\ [Next]_vars => (ReadInv /\ NetInv)'
  BY ReadStep, NetStep
<1> QED
  BY <1>1, <1>2, Invariant, PTL DEF Spec

(***************************************************************************)
(* balances                                                                *)
(***************************************************************************)

(* All that a sorted ledger says of the trades it was read from. *)
LEMMA OrderedTrades ==
  ASSUME TypeOK, Ordered
  PROVE  /\ Trades # <<>> /\ Len(Trades) <= MaxTrades
         /\ DOMAIN parsed = DOMAIN Trades
         /\ \A i \in DOMAIN Trades : Refusal(Trades[i]) = "none" /\ Trades[i] \in RawTrades
         /\ \A i, j \in DOMAIN Trades : Trades[i].time.kind = Trades[j].time.kind
         /\ \A k \in DOMAIN parsed :
              LET t == Trades[parsed[k].i]
              IN  /\ parsed[k].i \in DOMAIN Trades
                  /\ parsed[k].side = t.side /\ parsed[k].asset = Upper[t.asset]
                  /\ parsed[k].amount = t.amount /\ parsed[k].time = t.time
         /\ \A j, k \in DOMAIN parsed : parsed[j].i = parsed[k].i => j = k
<1>1. Trades # <<>> /\ Len(Trades) <= MaxTrades
  <2>1. Trades # <<>> /\ ~(Len(Trades) > MaxTrades)
    BY DEF Ordered, HeaderRefusal, Trades
  <2> QED
    BY <2>1, TradesType, BoundsAssumption
<1>2. DOMAIN parsed = DOMAIN Trades
  BY TradesType, DomainParsed DEF Ordered
<1>3. \A i \in DOMAIN Trades : Refusal(Trades[i]) = "none" /\ Trades[i] \in RawTrades
  BY TradesType DEF Ordered, Accepted
<1>4. \A k \in DOMAIN parsed :
        LET t == Trades[parsed[k].i]
        IN  /\ parsed[k].i \in DOMAIN Trades
            /\ parsed[k].side = t.side /\ parsed[k].asset = Upper[t.asset]
            /\ parsed[k].amount = t.amount /\ parsed[k].time = t.time
  <2> SUFFICES ASSUME NEW k \in DOMAIN parsed, NEW n, n = parsed[k].i
               PROVE  /\ n \in DOMAIN Trades
                      /\ parsed[k].side = Trades[n].side
                      /\ parsed[k].asset = Upper[Trades[n].asset]
                      /\ parsed[k].amount = Trades[n].amount
                      /\ parsed[k].time = Trades[n].time
    OBVIOUS
  <2>1. n \in DOMAIN Trades /\ parsed[k] = ReadAs(Trades[n], n)
    BY DEF Ordered
  <2> QED
    BY <2>1 DEF ReadAs
<1>5. \A i, j \in DOMAIN Trades : Trades[i].time.kind = Trades[j].time.kind
  <2> SUFFICES ASSUME NEW i \in DOMAIN Trades, NEW j \in DOMAIN Trades
               PROVE  Trades[i].time.kind = Trades[j].time.kind
    OBVIOUS
  <2>1. PICK k, m \in DOMAIN parsed : parsed[k].i = i /\ parsed[m].i = j
    BY DEF Ordered
  <2>2. parsed[k].time = Trades[i].time /\ parsed[m].time = Trades[j].time
    BY <1>4, <2>1
  <2>3. parsed[k].time.kind = parsed[m].time.kind
    BY DEF Ordered, Comparable
  <2> QED
    BY <2>2, <2>3
<1>6. \A j, k \in DOMAIN parsed : parsed[j].i = parsed[k].i => j = k
  <2> SUFFICES ASSUME NEW j \in DOMAIN parsed, NEW k \in DOMAIN parsed,
                      parsed[j].i = parsed[k].i, j # k
               PROVE  FALSE
    OBVIOUS
  <2>1. j \in Nat /\ k \in Nat
    BY DomainParsed
  <2>2. /\ parsed[j].time = parsed[k].time
        /\ parsed[j].time \in {t.time : t \in RawTrades \ {NotAnObject}} \ {NoTime}
        /\ parsed[j].i \in Nat
    BY <1>4, DomainParsed DEF ParsedTrades
  <2>3. parsed[j].time.rank \in Int
    BY <2>2, TimesAssumption
  <2>4. Before(parsed[j], parsed[k]) \/ Before(parsed[k], parsed[j])
    BY <2>1 DEF Ordered
  <2> QED
    BY <2>2, <2>3, <2>4 DEF Before
<1> QED
  BY <1>1, <1>2, <1>3, <1>4, <1>5, <1>6

(* balances asks less of a trade than the engine. *)
LEMMA BalancesFine ==
  ASSUME TypeOK, Ordered
  PROVE  BalancesError = "none"
<1>1. \A i \in DOMAIN Trades : BalancesRefusal(Trades[i]) = "none"
  <2> SUFFICES ASSUME NEW t, Refusal(t) = "none" PROVE BalancesRefusal(t) = "none"
    BY OrderedTrades
  <2>1. /\ t # NotAnObject /\ t.side \in Sides /\ t.asset \in DOMAIN Upper
        /\ DecRefusal(t.amount) = "none" /\ DecRefusal(t.fee) = "none"
        /\ ~(t.amount <= 0) /\ t.time # NoTime
    BY DEF Refusal, Negative
  <2> QED
    BY <2>1 DEF BalancesRefusal
<1>2. \A i \in DOMAIN Trades : BalancesTrouble(i) = "none"
  <2> SUFFICES ASSUME NEW i \in DOMAIN Trades PROVE BalancesTrouble(i) = "none"
    OBVIOUS
  <2>1. 1..(i - 1) \subseteq DOMAIN Trades
    BY TradesType
  <2>2. \A j \in 1..(i - 1) : Trades[j].time.kind = Trades[i].time.kind
    BY <2>1, OrderedTrades
  <2> QED
    BY <1>1, <2>2 DEF BalancesTrouble
<1>3. Trades # <<>> /\ ~(Len(Trades) > MaxTrades)
  BY OrderedTrades, TradesType, BoundsAssumption
<1> QED
  BY <1>2, <1>3 DEF BalancesError

RequestAmounts == [i \in DOMAIN Trades |-> Trades[i].amount]
Moved(side, a) ==
  {i \in DOMAIN Trades : Trades[i].side = side /\ Upper[Trades[i].asset] = a}

(* Sorting a ledger changes no sum over it. *)
LEMMA SameMoves ==
  ASSUME TypeOK, Ordered, NEW side, NEW a
  PROVE  SumFunctionOnSet(AmountsOf(parsed), Moves(parsed, Len(parsed), side, a))
           = SumFunctionOnSet(RequestAmounts, Moved(side, a))
<1> DEFINE S == Moves(parsed, Len(parsed), side, a)
           T == Moved(side, a)
           g == [k \in DOMAIN parsed |-> parsed[k].i]
           h == AmountsOf(parsed)
<1>1. \A k \in DOMAIN parsed :
        /\ parsed[k].i \in DOMAIN Trades /\ parsed[k].amount \in Nat
        /\ parsed[k].side = Trades[parsed[k].i].side
        /\ parsed[k].asset = Upper[Trades[parsed[k].i].asset]
        /\ parsed[k].amount = Trades[parsed[k].i].amount
  BY OrderedTrades, DomainParsed DEF ParsedTrades
<1>2. \A i \in DOMAIN Trades : \E k \in DOMAIN parsed : parsed[k].i = i
  BY DEF Ordered
<1>3. S = {k \in DOMAIN parsed : parsed[k].side = side /\ parsed[k].asset = a}
  BY DomainParsed DEF Moves
<1>4. IsFiniteSet(S) /\ IsFiniteSet(T)
  <2>1. IsFiniteSet(DOMAIN parsed) /\ IsFiniteSet(DOMAIN Trades)
    BY TradesType, OrderedTrades
  <2> QED
    BY <1>3, <2>1, FS_Subset DEF Moved
<1>5. \A k \in S : g[k] \in T /\ h[k] = RequestAmounts[g[k]]
  BY <1>1, <1>3 DEF AmountsOf, RequestAmounts, Moved
<1>6. \A j, k \in S : g[j] = g[k] => j = k
  BY <1>3, OrderedTrades
<1>7. \A i \in T : \E k \in S : g[k] = i
  <2> SUFFICES ASSUME NEW i \in T PROVE \E k \in S : g[k] = i
    OBVIOUS
  <2>1. PICK k \in DOMAIN parsed : parsed[k].i = i
    BY <1>2 DEF Moved
  <2>2. k \in S
    BY <1>1, <1>3, <2>1 DEF Moved
  <2> QED
    BY <2>1, <2>2
<1>8. \A i \in T : RequestAmounts[i] \in Int
  <2> SUFFICES ASSUME NEW i \in DOMAIN Trades PROVE RequestAmounts[i] \in Int
    BY DEF Moved
  <2>1. PICK k \in DOMAIN parsed : parsed[k].i = i
    BY <1>2
  <2> QED
    BY <1>1, <2>1 DEF RequestAmounts
<1> HIDE DEF S, T, g, h
<1>9. SumFunctionOnSet(h, S) = SumFunctionOnSet(RequestAmounts, T)
  BY <1>4, <1>5, <1>6, <1>7, <1>8, SumReindex
<1> QED
  BY <1>9 DEF S, T, h

(* The one pass of balances adds up what the sorted ledger adds up. *)
LEMMA NetOfLedger ==
  ASSUME TypeOK, Ordered, NEW a
  PROVE  Net(a) = NetAfter(parsed, Len(parsed), a)
<1>1. Net(a) = SumFunctionOnSet(RequestAmounts, Moved("buy", a))
                 - SumFunctionOnSet(RequestAmounts, Moved("sell", a))
  BY DEF Net, RequestAmounts, Moved
<1> QED
  BY <1>1, SameMoves DEF NetAfter

(* The net position balances reports is what every method leaves in the    *)
(* inventory (lots.py:165-173, 228, 482), for every ledger.                *)
THEOREM BalancesMatchEngine == Spec => []BalancesAgree
<1>1. Inv /\ ReadInv /\ NetInv => BalancesAgree
  <2> SUFFICES ASSUME Inv, ReadInv, NetInv, phase = "done"
               PROVE  BalancesError = "none" /\ \A a \in Assets : Net(a) = Available(a)
    BY DEF BalancesAgree
  <2>1. TypeOK /\ Ordered
    BY DEF Inv, TypeInv, ReadInv
  <2>2. \A a \in Assets : Position[a] = Available(a)
    BY <2>1, PositionAtRest
  <2>3. pos - 1 = Len(parsed)
    BY <2>1, DomainParsed DEF NetInv
  <2>4. \A a \in Assets : Position[a] = NetAfter(parsed, Len(parsed), a)
    BY <2>3 DEF NetInv
  <2> QED
    BY <2>1, <2>2, <2>4, BalancesFine, NetOfLedger
<1> QED
  BY <1>1, ViewsInvariant, PTL

(* A sell of more than is held stops the engine, never balances            *)
(* (lots.py:168-170), whatever the ledger.                                 *)
THEOREM BalancesSurviveOversells == Spec => []BalancesSurvive
<1>1. Inv /\ ReadInv => BalancesSurvive
  BY BalancesFine DEF Inv, TypeInv, ReadInv, Oversell, BalancesSurvive
<1> QED
  BY <1>1, ViewsInvariant, PTL

(***************************************************************************)
(* check_ledger                                                            *)
(***************************************************************************)

(* What the engine has accepted in a trade. *)
LEMMA FlawlessTrade ==
  ASSUME NEW t, Refusal(t) = "none"
  PROVE  /\ t # NotAnObject /\ t.side \in Sides /\ t.time # NoTime
         /\ t.asset \in DOMAIN Upper /\ t.asset # Nameless
         /\ t.amount \in Nat \ {0} /\ t.price \in Nat /\ t.fee \in Nat
         /\ TradeIssues(t) = {}
<1>1. /\ t # NotAnObject /\ t.side \in Sides /\ t.asset \in DOMAIN Upper
      /\ DecRefusal(t.amount) = "none" /\ DecRefusal(t.price) = "none"
      /\ DecRefusal(t.fee) = "none"
      /\ ~Negative(t) /\ t.time # NoTime
  BY DEF Refusal
<1>2. t.amount \in Int /\ t.price \in Int /\ t.fee \in Int
  BY <1>1 DEF DecRefusal
<1>3. t.amount \in Nat \ {0} /\ t.price \in Nat /\ t.fee \in Nat
  BY <1>1, <1>2 DEF Negative
<1>4. t.asset # Nameless
  BY <1>1, ViewsAssumption
<1>5. FloatLiteral \notin Numbers(t) /\ NotANumber \notin Numbers(t)
  BY <1>2, NumbersAssumption DEF Numbers
<1>6. ~Below(t.amount, 1) /\ ~Below(t.price, 0) /\ ~Below(t.fee, 0)
  BY <1>3 DEF Below
<1>7. TradeIssues(t) = UNION {{}, {}, {}, {}, {}, {}}
  <2> HIDE DEF TradeIssues
  <2>1. TradeIssues(t) = UNION {
          IF t.side \notin Sides THEN {"INVALID_SIDE"} ELSE {},
          IF t.asset \notin DOMAIN Upper THEN {"INVALID_ASSET"} ELSE {},
          IF FloatLiteral \in Numbers(t) THEN {"FLOAT_REJECTED"} ELSE {},
          IF NotANumber \in Numbers(t) THEN {"INVALID_NUMBER"} ELSE {},
          IF Numbers(t) \cap {FloatLiteral, NotANumber} = {}
             /\ (Below(t.amount, 1) \/ Below(t.price, 0) \/ Below(t.fee, 0))
            THEN {"INVALID_NUMBER"} ELSE {},
          IF t.time = NoTime THEN {"BAD_TIMESTAMP"} ELSE {}}
    BY <1>1 DEF TradeIssues
  <2> QED
    BY <1>1, <1>5, <1>6, <2>1
<1>8. TradeIssues(t) = {}
  BY <1>7
<1> QED
  BY <1>1, <1>3, <1>4, <1>8

LEMMA IntervalSize ==
  ASSUME NEW n \in Nat
  PROVE  IsFiniteSet(1..n) /\ Cardinality(1..n) = n
<1>1. IsFiniteSet(1..n) /\ Cardinality(1..n) = IF 1 > n THEN 0 ELSE n - 1 + 1
  BY FS_Interval
<1> QED
  BY <1>1

(* check_ledger settles a matchable ledger in the engine's order. *)
LEMMA CheckerReads ==
  ASSUME TypeOK, Ordered
  PROVE  /\ Usable = DOMAIN Trades /\ SortableTimes
         /\ \A i \in DOMAIN Trades : TradeIssues(Trades[i]) = {}
         /\ Clean = [k \in DOMAIN parsed |-> parsed[k].i]
<1> DEFINE D == DOMAIN Trades
           n == Len(parsed)
           time(i) == Trades[i].time
           Earlier(i, j) == \/ time(i).rank < time(j).rank
                            \/ time(i).rank = time(j).rank /\ i < j
           R == {pair \in D \X D : Earlier(pair[1], pair[2])}
           t == [k \in DOMAIN parsed |-> parsed[k].i]
<1>1. \A i \in D : /\ TradeIssues(Trades[i]) = {}
                   /\ Trades[i] \in RawTrades \ {NotAnObject} /\ time(i) # NoTime
  <2> SUFFICES ASSUME NEW i \in D, NEW q, q = Trades[i]
               PROVE  /\ TradeIssues(q) = {}
                      /\ q \in RawTrades \ {NotAnObject} /\ q.time # NoTime
    OBVIOUS
  <2>1. Refusal(q) = "none" /\ q \in RawTrades
    BY OrderedTrades
  <2> QED
    BY <2>1, FlawlessTrade
<1>2. Usable = D
  BY <1>1 DEF Usable
<1>3. SortableTimes
  BY <1>2, OrderedTrades DEF SortableTimes
<1>4. IsFiniteSet(D) /\ D = 1..n /\ n \in Nat /\ Cardinality(D) = n /\ DOMAIN parsed = 1..n
  <2>1. n \in Nat /\ DOMAIN parsed = 1..n /\ D = 1..n
    BY OrderedTrades, DomainParsed
  <2>2. Cardinality(1..n) = n /\ IsFiniteSet(1..n)
    BY <2>1, IntervalSize
  <2> QED
    BY <2>1, <2>2
<1>5. \A i \in D : i \in Nat /\ time(i).rank \in Int
  BY <1>1, <1>4, TimesAssumption
<1>6. Strict(R)
  BY <1>5 DEF Strict
<1>7. t \in [1..n -> D] /\ SortedBy(R, t)
  <2>1. \A k \in 1..n : t[k] \in D /\ t[k] = parsed[k].i /\ parsed[k].time = time(t[k])
    BY <1>4, OrderedTrades
  <2>2. \A j, k \in 1..n : j < k => Before(parsed[j], parsed[k])
    BY <1>4 DEF Ordered
  <2>3. \A j, k \in 1..n : j < k => Earlier(t[j], t[k])
    <3> SUFFICES ASSUME NEW j \in 1..n, NEW k \in 1..n, j < k PROVE Earlier(t[j], t[k])
      OBVIOUS
    <3>1. PICK x, y : x = parsed[j] /\ y = parsed[k]
      OBVIOUS
    <3>2. /\ x.time = time(t[j]) /\ y.time = time(t[k]) /\ x.i = t[j] /\ y.i = t[k]
          /\ Before(x, y)
      BY <2>1, <2>2, <3>1
    <3> HIDE DEF time, t
    <3> QED
      BY <3>2 DEF Before
  <2>4. DOMAIN t = 1..n
    BY <1>4
  <2> HIDE DEF t, Earlier
  <2>5. \A j, k \in DOMAIN t : j < k => <<t[j], t[k]>> \in R
    BY <2>1, <2>3, <2>4
  <2> QED
    BY <1>4, <2>1, <2>4, <2>5 DEF SortedBy, t
<1>8. Clean = CHOOSE s \in [1..n -> D] : \A j, k \in DOMAIN s : j < k => Earlier(s[j], s[k])
  BY <1>2, <1>3, <1>4 DEF Clean
<1>9. \A s \in [1..n -> D] :
        SortedBy(R, s) <=> \A j, k \in DOMAIN s : j < k => Earlier(s[j], s[k])
  <2> HIDE DEF D
  <2>1. \A x, y \in D : <<x, y>> \in R <=> Earlier(x, y)
    OBVIOUS
  <2> HIDE DEF Earlier, R
  <2> QED
    BY <2>1 DEF SortedBy
<1> HIDE DEF t, Earlier, R, D
<1>10. Clean \in [1..n -> D] /\ SortedBy(R, Clean)
  BY <1>7, <1>8, <1>9
<1>11. Clean = t
  BY <1>4, <1>6, <1>7, <1>10, SortedUnique
<1> QED
  BY <1>1, <1>2, <1>3, <1>11 DEF t, D

(* What check_ledger makes of a trade is what the engine read of it. *)
LEMMA SettledTrades ==
  ASSUME TypeOK, Ordered, NEW k \in DOMAIN parsed
  PROVE  /\ parsed[k] \in ParsedTrades
         /\ AssetOf(parsed[k].i) = parsed[k].asset
         /\ Trades[parsed[k].i].amount = parsed[k].amount
         /\ Trades[parsed[k].i].side = parsed[k].side
<1>1. PICK n, t : n = parsed[k].i /\ t = Trades[n]
  OBVIOUS
<1>2. /\ n \in DOMAIN Trades /\ Refusal(t) = "none" /\ parsed[k].side = t.side
      /\ parsed[k].asset = Upper[t.asset] /\ parsed[k].amount = t.amount
  BY <1>1, OrderedTrades
<1>3. t.asset # Nameless
  BY <1>2, FlawlessTrade
<1> QED
  BY <1>1, <1>2, <1>3, DomainParsed DEF AssetOf

LEMMA Greatest ==
  ASSUME NEW n \in Nat, NEW s \in SUBSET (1..n), s # {}
  PROVE  Max(s) \in s /\ \A y \in s : y <= Max(s)
<1> DEFINE T == {m \in Nat : \A y \in s : y <= m}
<1>1. n \in T
  OBVIOUS
<1>2. PICK m \in T : \A k \in T : ~(k < m)
  BY <1>1, LeastNatural
<1>3. m \in s
  <2> SUFFICES ASSUME m \notin s PROVE FALSE
    OBVIOUS
  <2>1. \A y \in s : y \in Nat /\ y > 0 /\ y <= m /\ y # m
    BY <1>2
  <2>2. m \in Nat /\ m > 0
    <3>1. PICK y \in s : TRUE
      OBVIOUS
    <3> QED
      BY <1>2, <2>1, <3>1
  <2> HIDE DEF T
  <2>3. m - 1 \in Nat /\ m - 1 < m /\ \A y \in s : y <= m - 1
    BY <2>1, <2>2
  <2> QED
    BY <1>2, <2>3 DEF T
<1>4. \E x \in s : \A y \in s : x >= y
  <2>1. \A y \in s : m >= y
    BY <1>2
  <2> QED
    BY <1>3, <2>1
<1> QED
  BY <1>4 DEF Max

Opening == [balance |-> [a \in Assets \cup {Nameless} |-> 0], oversells |-> <<>>]

(* R[m] is the state of the running balance after m trades. *)
Running(R) ==
  /\ R[0] = Opening
  /\ \A m \in DOMAIN parsed : R[m] = Settle(R[m - 1], parsed[m].i)
  /\ Oversells = R[Len(parsed)].oversells

States == [balance : [Assets \cup {Nameless} -> Nat], oversells : Seq(Nat)]

LEMMA SettleType ==
  ASSUME TypeOK, Ordered, NEW v \in States, NEW k \in DOMAIN parsed
  PROVE  Settle(v, parsed[k].i) \in States
<1> DEFINE c == parsed[k]
           a == AssetOf(c.i)
           n == Trades[c.i].amount
           has == v.balance[a]
           left == IF Trades[c.i].side = "buy" THEN Plus(has, n)
                   ELSE IF Exceeds(n, has) THEN 0 ELSE Minus(has, n)
<1>1. a = c.asset /\ n = c.amount /\ Trades[c.i].side = c.side /\ c \in ParsedTrades
  BY SettledTrades
<1>2. a \in Assets /\ n \in Nat /\ c.i \in Nat
  BY <1>1 DEF ParsedTrades
<1>3. has \in Nat
  BY <1>2 DEF States
<1>4. left \in Nat
  <2> HIDE DEF a, n, has
  <2>1. n \notin {Infinite} /\ has \notin {Infinite} /\ CheckerDigits \in Nat
    BY <1>2, <1>3, NumbersAssumption, ViewsAssumption
  <2>2. Plus(has, n) \in Nat
    <3>1. PICK t \in Nat : t = has + n
      BY <1>2, <1>3
    <3>2. Plus(has, n) = Rounded(t, CheckerDigits)
      BY <2>1, <3>1 DEF Plus
    <3> QED
      BY <2>1, <3>2, RoundedNat
  <2>3. ASSUME ~Exceeds(n, has) PROVE Minus(has, n) \in Nat
    <3>1. PICK t \in Nat : t = has - n
      BY <1>2, <1>3, <2>1, <2>3 DEF Exceeds
    <3>2. Minus(has, n) = Rounded(t, CheckerDigits)
      BY <2>1, <3>1 DEF Minus
    <3> QED
      BY <2>1, <3>2, RoundedNat
  <2> QED
    BY <2>2, <2>3
<1>5. Settle(v, c.i) =
        [balance |-> [v.balance EXCEPT ![a] = left],
         oversells |-> IF Trades[c.i].side # "buy" /\ Exceeds(n, has)
                       THEN Append(v.oversells, c.i) ELSE v.oversells]
  BY DEF Settle
<1>6. v.balance \in [Assets \cup {Nameless} -> Nat] /\ v.oversells \in Seq(Nat)
  BY DEF States
<1> HIDE DEF a, n, has, left, c
<1>7. [v.balance EXCEPT ![a] = left] \in [Assets \cup {Nameless} -> Nat]
  BY <1>4, <1>6
<1>8. Append(v.oversells, c.i) \in Seq(Nat)
  BY <1>2, <1>6
<1> QED
  BY <1>5, <1>6, <1>7, <1>8 DEF States, c

LEMMA SettleUnfold ==
  ASSUME TypeOK, Ordered
  PROVE  \E R : Running(R)
<1> DEFINE n == Len(parsed)
           D == 1..n
           op == [k \in D |-> [v \in States |-> Settle(v, parsed[k].i)]]
           pick == [s \in SUBSET D |-> Max(s)]
           Runs(g) == g = [s \in SUBSET D |->
                             IF s = {} THEN Opening
                             ELSE Settle(g[s \ {Max(s)}], Clean[Max(s)])]
           G == CHOOSE g : Runs(g)
<1>1. n \in Nat /\ D = DOMAIN parsed /\ IsFiniteSet(D)
  BY DomainParsed, IntervalSize
<1>2. DOMAIN Clean = D /\ \A k \in D : Clean[k] = parsed[k].i
  BY <1>1, CheckerReads
<1>3. \A s \in SUBSET D : s # {} => Max(s) \in s /\ s \ {Max(s)} \in SUBSET D
  BY <1>1, Greatest
<1>4. PicksFrom(pick, D)
  BY <1>3 DEF PicksFrom
<1>5. Opening \in States
  BY DEF Opening, States
<1>6. \A k \in D : \A v \in States : op[k][v] = Settle(v, parsed[k].i) /\ op[k][v] \in States
  BY <1>1, SettleType
<1>7. Closed(op, States, D)
  BY <1>6 DEF Closed
<1> HIDE DEF op, pick
<1>8. PICK g \in [SUBSET D -> States] : IsFold(op, Opening, pick, D, g)
  BY <1>1, <1>4, <1>5, <1>7, FoldExists
<1>9. Runs(g)
  <2>1. \A s \in SUBSET D : s # {} => op[pick[s]][g[s \ {pick[s]}]]
                                       = Settle(g[s \ {Max(s)}], Clean[Max(s)])
    <3> SUFFICES ASSUME NEW s \in SUBSET D, s # {}
                 PROVE  op[Max(s)][g[s \ {Max(s)}]] = Settle(g[s \ {Max(s)}], Clean[Max(s)])
      BY DEF pick
    <3>1. Max(s) \in D /\ g[s \ {Max(s)}] \in States
      BY <1>3, <1>8
    <3> QED
      BY <1>2, <1>6, <3>1
  <2> QED
    BY <1>8, <2>1 DEF IsFold
<1>10. Runs(G)
  BY <1>9
<1>11. Oversells = G[D].oversells
  BY <1>2 DEF Oversells, Settled, FoldLeft, MapThenFoldSet, Opening
<1> DEFINE R == [m \in 0..n |-> G[1..m]]
<1> HIDE DEF G
<1>12. R[0] = Opening
  <2>1. 1..0 = {} /\ 0 \in 0..n
    BY <1>1
  <2> QED
    BY <1>10, <2>1
<1>13. ASSUME NEW m \in D PROVE R[m] = Settle(R[m - 1], parsed[m].i)
  <2>1. 1..m \in SUBSET D /\ m \in 1..m /\ m \in 0..n /\ m - 1 \in 0..n /\ m \in Nat
    BY <1>1
  <2>2. Max(1..m) = m
    <3>1. PICK s : s = 1..m /\ s \in SUBSET (1..m) /\ m \in s /\ s # {}
      BY <2>1
    <3>2. Max(s) \in s /\ \A y \in s : y <= Max(s)
      BY <2>1, <3>1, Greatest
    <3>3. Max(s) \in Nat /\ Max(s) <= m /\ m <= Max(s)
      BY <2>1, <3>1, <3>2
    <3> QED
      BY <2>1, <3>1, <3>3
  <2>3. (1..m) \ {m} = 1..(m - 1)
    BY <2>1
  <2>4. G[1..m] = Settle(G[1..(m - 1)], Clean[m])
    BY <1>10, <2>1, <2>2, <2>3
  <2> QED
    BY <1>2, <2>1, <2>4
<1>14. R[n] = G[D]
  BY <1>1
<1> QED
  BY <1>1, <1>11, <1>12, <1>13, <1>14 DEF Running

(* A round of the running balance in terms of what the engine has read. *)
LEMMA SettleIs ==
  ASSUME TypeOK, Ordered, NEW k \in DOMAIN parsed, NEW v,
         v.balance[parsed[k].asset] \in Int
  PROVE  LET c == parsed[k]
             has == v.balance[c.asset]
             short == c.side = "sell" /\ c.amount > has
         IN  /\ Settle(v, c.i).oversells
                  = IF short THEN Append(v.oversells, c.i) ELSE v.oversells
             /\ Settle(v, c.i).balance
                  = [v.balance EXCEPT ![c.asset] =
                       IF c.side = "buy" THEN Rounded(has + c.amount, CheckerDigits)
                       ELSE IF short THEN 0 ELSE Rounded(has - c.amount, CheckerDigits)]
<1>1. PICK c, has : c = parsed[k] /\ has = v.balance[c.asset]
  OBVIOUS
<1>2. PICK a, n, side : a = c.asset /\ n = c.amount /\ side = c.side
  OBVIOUS
<1>3. /\ a = AssetOf(c.i) /\ n = Trades[c.i].amount /\ side = Trades[c.i].side
      /\ n \in Nat /\ side \in Sides /\ has \in Int
  BY <1>1, <1>2, SettledTrades DEF ParsedTrades
<1>4. Infinite \notin {has, n}
  BY <1>3, NumbersAssumption
<1>5. /\ Plus(has, n) = Rounded(has + n, CheckerDigits)
      /\ Minus(has, n) = Rounded(has - n, CheckerDigits)
      /\ Exceeds(n, has) <=> n > has
  BY <1>4 DEF Plus, Minus, Exceeds
<1>6. Settle(v, c.i) =
        [balance |-> [v.balance EXCEPT ![a] =
           IF side = "buy" THEN Plus(has, n)
           ELSE IF side # "buy" /\ Exceeds(n, has) THEN 0 ELSE Minus(has, n)],
         oversells |-> IF side # "buy" /\ Exceeds(n, has)
                       THEN Append(v.oversells, c.i) ELSE v.oversells]
  BY <1>1, <1>2, <1>3 DEF Settle
<1>7. side = "sell" <=> side # "buy"
  BY <1>3 DEF Sides
<1> QED
  BY <1>1, <1>2, <1>5, <1>6, <1>7

(* Every position of a ledger within the limits fits into the precision.   *)
LEMMA NetFits ==
  ASSUME TypeOK, Ordered, FitsChecker, NEW a \in Assets, NEW m \in 0..Len(parsed)
  PROVE  NetAfter(parsed, m, a) \in Int /\ NetAfter(parsed, m, a) < Pow10[CheckerDigits]
<1> DEFINE f == AmountsOf(parsed)
           S == Moves(parsed, Len(parsed), "buy", a)
           T == Moves(parsed, m, "buy", a)
           U == Moves(parsed, m, "sell", a)
           limit == Pow10[CheckerDigits]
<1>1. Len(parsed) \in Nat /\ DOMAIN parsed = 1..Len(parsed) /\ m \in Nat /\ m <= Len(parsed)
  BY DomainParsed
<1>2. IsFiniteSet(S) /\ T \subseteq S /\ IsFiniteSet(T) /\ IsFiniteSet(U)
  <2>1. 1..m \subseteq 1..Len(parsed) /\ IsFiniteSet(1..Len(parsed)) /\ IsFiniteSet(1..m)
    BY <1>1, IntervalSize
  <2>2. S \subseteq 1..Len(parsed) /\ T \subseteq S /\ U \subseteq 1..m
    BY <2>1 DEF Moves
  <2> HIDE DEF S, T, U
  <2> QED
    BY <2>1, <2>2, FS_Subset
<1>3. \A k \in DOMAIN parsed : f[k] \in Nat
  BY DomainParsed DEF AmountsOf, ParsedTrades
<1>4. (\A k \in S : f[k] \in Nat) /\ (\A k \in U : f[k] \in Nat)
  <2>1. S \subseteq DOMAIN parsed /\ U \subseteq DOMAIN parsed
    BY <1>1 DEF Moves
  <2> QED
    BY <1>3, <2>1
<1>5. SumFunctionOnSet(f, S) < limit
  <2>1. Moved("buy", a) = {i \in DOMAIN Trades :
                             /\ Refusal(Trades[i]) = "none"
                             /\ Trades[i].side = "buy" /\ Upper[Trades[i].asset] = a}
    BY OrderedTrades DEF Moved
  <2>2. SumFunctionOnSet(RequestAmounts, Moved("buy", a)) < limit
    BY <2>1 DEF FitsChecker, RequestAmounts
  <2> QED
    BY <2>2, SameMoves
<1> HIDE DEF f, S, T, U
<1>6. /\ SumFunctionOnSet(f, S) = SumFunctionOnSet(f, T) + SumFunctionOnSet(f, S \ T)
      /\ SumFunctionOnSet(f, T) \in Nat /\ SumFunctionOnSet(f, S \ T) \in Nat
      /\ SumFunctionOnSet(f, U) \in Nat
  <2>1. \A k \in S : f[k] \in Int
    BY <1>4
  <2>2. SumFunctionOnSet(f, S) = SumFunctionOnSet(f, T) + SumFunctionOnSet(f, S \ T)
    BY <1>2, <2>1, SumSplit
  <2>3. IsFiniteSet(S \ T) /\ (\A k \in S \ T : f[k] \in Nat) /\ (\A k \in T : f[k] \in Nat)
    BY <1>2, <1>4, FS_Subset
  <2> QED
    BY <1>2, <1>4, <2>2, <2>3, SumNat
<1>7. NetAfter(parsed, m, a) = SumFunctionOnSet(f, T) - SumFunctionOnSet(f, U)
  BY DEF NetAfter, f, T, U
<1>8. PICK w \in Nat : w = limit
  BY ViewsAssumption, PowersOfTen
<1> HIDE DEF limit
<1>9. PICK x \in Nat, y \in Nat, z \in Nat :
        x = SumFunctionOnSet(f, T) /\ y = SumFunctionOnSet(f, S \ T)
        /\ z = SumFunctionOnSet(f, U)
  BY <1>6
<1>10. x + y < w
  BY <1>5, <1>6, <1>8, <1>9
<1>11. x - z \in Int /\ x - z < w
  BY <1>10
<1> QED
  BY <1>7, <1>8, <1>9, <1>11 DEF limit

(* The first n sells are covered by what was bought before them. *)
Honoured(n) ==
  \A k \in 1..n :
    parsed[k].side = "sell" => parsed[k].amount <= NetAfter(parsed, k - 1, parsed[k].asset)

(* After m trades the running balance is the position. *)
Tracks(R, m) ==
  /\ R[m].oversells = <<>>
  /\ R[m].balance \in [Assets \cup {Nameless} -> Int]
  /\ \A a \in Assets : R[m].balance[a] = NetAfter(parsed, m, a) /\ NetAfter(parsed, m, a) >= 0

LEMMA TrackStep ==
  ASSUME TypeOK, Ordered, FitsChecker, NEW R, Running(R),
         NEW m \in DOMAIN parsed, Honoured(m), Tracks(R, m - 1)
  PROVE  Tracks(R, m)
<1>1. PICK v, c : v = R[m - 1] /\ c = parsed[m]
  OBVIOUS
<1>2. PICK a, n, side : a = c.asset /\ n = c.amount /\ side = c.side
  OBVIOUS
<1>3. /\ m \in Nat \ {0} /\ m \in 0..Len(parsed) /\ m - 1 \in 0..Len(parsed) /\ m \in 1..m
      /\ 1..m \subseteq DOMAIN parsed
  BY DomainParsed
<1>4. /\ a \in Assets /\ n \in Nat /\ side \in Sides
      /\ Readable(parsed, m)
  <2>1. \A q \in DOMAIN parsed : parsed[q].amount \in Nat /\ parsed[q].side \in Sides
    BY DomainParsed DEF ParsedTrades
  <2> QED
    BY <1>1, <1>2, <1>3, <2>1, DomainParsed DEF ParsedTrades, Readable
<1>5. /\ v.oversells = <<>>
      /\ v.balance \in [Assets \cup {Nameless} -> Int]
      /\ \A b \in Assets : /\ v.balance[b] = NetAfter(parsed, m - 1, b)
                           /\ NetAfter(parsed, m - 1, b) >= 0
  BY <1>1 DEF Tracks
<1>6. \A b \in Assets :
        /\ NetAfter(parsed, m, b) \in Int
        /\ NetAfter(parsed, m, b) < Pow10[CheckerDigits]
        /\ NetAfter(parsed, m, b) = NetAfter(parsed, m - 1, b)
             + IF a # b THEN 0 ELSE IF side = "buy" THEN n ELSE -n
  <2> SUFFICES ASSUME NEW b \in Assets
               PROVE  /\ NetAfter(parsed, m, b) \in Int
                      /\ NetAfter(parsed, m, b) < Pow10[CheckerDigits]
                      /\ NetAfter(parsed, m, b) = NetAfter(parsed, m - 1, b)
                           + IF parsed[m].asset # b THEN 0
                             ELSE IF parsed[m].side = "buy" THEN parsed[m].amount
                             ELSE -parsed[m].amount
    BY <1>1, <1>2
  <2>1. NetAfter(parsed, m, b) \in Int /\ NetAfter(parsed, m, b) < Pow10[CheckerDigits]
    BY <1>3, NetFits
  <2> QED
    BY <1>3, <1>4, <2>1, NetGrows
<1>7. PICK x, y : x = NetAfter(parsed, m - 1, a) /\ y = NetAfter(parsed, m, a)
  OBVIOUS
<1>8. /\ x \in Int /\ x >= 0 /\ y \in Int /\ y = x + (IF side = "buy" THEN n ELSE -n)
      /\ y < Pow10[CheckerDigits] /\ v.balance[a] = x
  BY <1>4, <1>5, <1>6, <1>7
<1>9. side = "sell" => n <= x
  BY <1>1, <1>2, <1>3, <1>7 DEF Honoured
<1>10. y \in Nat /\ (side = "sell" \/ side = "buy")
  BY <1>4, <1>8, <1>9 DEF Sides
<1>11. Rounded(y, CheckerDigits) = y
  BY <1>8, <1>10, RoundedFits, ViewsAssumption
<1>12. /\ R[m] = Settle(v, c.i)
       /\ R[m].oversells = v.oversells
       /\ R[m].balance = [v.balance EXCEPT ![a] = y]
  <2>1. R[m] = Settle(v, c.i)
    BY <1>1 DEF Running
  <2>2. v.balance[parsed[m].asset] \in Int
    BY <1>1, <1>2, <1>8
  <2>3. /\ Settle(v, c.i).oversells
             = IF side = "sell" /\ n > x THEN Append(v.oversells, c.i) ELSE v.oversells
        /\ Settle(v, c.i).balance
             = [v.balance EXCEPT ![a] =
                  IF side = "buy" THEN Rounded(x + n, CheckerDigits)
                  ELSE IF side = "sell" /\ n > x THEN 0 ELSE Rounded(x - n, CheckerDigits)]
    BY <1>1, <1>2, <1>8, <2>2, SettleIs
  <2>4. ~(side = "sell" /\ n > x)
    BY <1>4, <1>8, <1>9
  <2>5. y = IF side = "buy" THEN x + n ELSE x - n
    BY <1>4, <1>8
  <2> QED
    BY <1>11, <2>1, <2>3, <2>4, <2>5
<1>13. R[m].balance \in [Assets \cup {Nameless} -> Int]
  <2>1. PICK f, S : f = v.balance /\ S = Assets \cup {Nameless}
    OBVIOUS
  <2>2. f \in [S -> Int] /\ y \in Int
    BY <1>5, <1>8, <2>1
  <2>3. [f EXCEPT ![a] = y] \in [S -> Int]
    BY ONLY <2>2
  <2> QED
    BY <1>12, <2>1, <2>3
<1>14. \A b \in Assets : R[m].balance[b] = NetAfter(parsed, m, b) /\ NetAfter(parsed, m, b) >= 0
  <2> SUFFICES ASSUME NEW b \in Assets
               PROVE  R[m].balance[b] = NetAfter(parsed, m, b) /\ NetAfter(parsed, m, b) >= 0
    OBVIOUS
  <2>1. CASE b = a
    BY <1>4, <1>5, <1>7, <1>10, <1>12, <2>1
  <2>2. CASE b # a
    BY <1>5, <1>6, <1>12, <2>2
  <2> QED
    BY <2>1, <2>2
<1> QED
  BY <1>5, <1>12, <1>13, <1>14 DEF Tracks

LEMMA TracksAlways ==
  ASSUME TypeOK, Ordered, FitsChecker, NEW R, Running(R),
         NEW n \in 0..Len(parsed), Honoured(n)
  PROVE  Tracks(R, n)
<1> DEFINE T == {m \in 0..n : ~Tracks(R, m)}
<1>1. n \in Nat /\ DOMAIN parsed = 1..Len(parsed) /\ Len(parsed) \in Nat /\ n <= Len(parsed)
  BY DomainParsed
<1>2. Tracks(R, 0)
  <2>1. \A a : NetAfter(parsed, 0, a) = 0
    BY NetAtFirst
  <2> QED
    BY <2>1 DEF Tracks, Running, Opening
<1> SUFFICES ASSUME T # {} PROVE FALSE
  BY <1>1
<1>3. T \in SUBSET Nat
  BY <1>1
<1>4. PICK m \in T : \A k \in T : ~(k < m)
  BY <1>3, LeastNatural
<1>5. m \in 1..n /\ m - 1 \in 0..n /\ m - 1 < m
  BY <1>1, <1>2, <1>4
<1>6. Tracks(R, m - 1)
  BY <1>4, <1>5
<1>7. m \in DOMAIN parsed /\ Honoured(m)
  BY <1>1, <1>5 DEF Honoured
<1>8. Tracks(R, m)
  BY <1>6, <1>7, TrackStep
<1> QED
  BY <1>4, <1>8

LEMMA SettledType ==
  ASSUME TypeOK, Ordered, NEW R, Running(R)
  PROVE  \A m \in 0..Len(parsed) : R[m] \in States
<1> DEFINE T == {m \in 0..Len(parsed) : R[m] \notin States}
<1> SUFFICES ASSUME T # {} PROVE FALSE
  OBVIOUS
<1>1. DOMAIN parsed = 1..Len(parsed) /\ Len(parsed) \in Nat /\ T \in SUBSET Nat
  BY DomainParsed
<1>2. PICK m \in T : \A k \in T : ~(k < m)
  BY <1>1, LeastNatural
<1>3. R[0] \in States
  BY DEF Running, Opening, States
<1>4. m \in DOMAIN parsed /\ m - 1 \in 0..Len(parsed) /\ m - 1 < m
  <2>1. m # 0
    BY <1>2, <1>3
  <2> QED
    BY <1>1, <1>2, <2>1
<1>5. R[m - 1] \in States
  BY <1>2, <1>4
<1>6. PICK v : v = R[m - 1]
  OBVIOUS
<1>7. R[m] = Settle(v, parsed[m].i)
  BY <1>4, <1>6 DEF Running
<1> QED
  BY <1>2, <1>4, <1>5, <1>6, <1>7, SettleType

(* Once an oversell is noted it stays the first. *)
LEMMA OversellsKept ==
  ASSUME TypeOK, Ordered, NEW R, Running(R),
         NEW p \in DOMAIN parsed, NEW x, R[p].oversells = <<x>>
  PROVE  Oversells \in Seq(Nat) /\ Oversells # <<>> /\ Oversells[1] = x
<1> DEFINE Keeps(m) == R[m].oversells # <<>> /\ R[m].oversells[1] = x
           T == {m \in p..Len(parsed) : ~Keeps(m)}
<1>1. DOMAIN parsed = 1..Len(parsed) /\ Len(parsed) \in Nat
  BY DomainParsed
<1>2. Keeps(p)
  OBVIOUS
<1>3. T = {}
  <2> SUFFICES ASSUME T # {} PROVE FALSE
    OBVIOUS
  <2>1. T \in SUBSET Nat
    BY <1>1
  <2>2. PICK m \in T : \A k \in T : ~(k < m)
    BY <2>1, LeastNatural
  <2>3. m \in DOMAIN parsed /\ m - 1 \in p..Len(parsed) /\ m - 1 < m
    <3>1. m # p
      BY <1>2, <2>2
    <3>2. p \in 1..Len(parsed) /\ m \in p..Len(parsed)
      BY <1>1, <2>2
    <3> QED
      BY <1>1, <3>1, <3>2
  <2>4. Keeps(m - 1)
    BY <2>2, <2>3
  <2>5. PICK v, i : v = R[m - 1] /\ i = parsed[m].i
    OBVIOUS
  <2>6. v \in States /\ R[m] = Settle(v, i)
    <3>1. m - 1 \in 0..Len(parsed)
      BY <1>1, <2>3
    <3> QED
      BY <2>3, <2>5, <3>1, SettledType DEF Running
  <2>7. R[m].oversells = v.oversells \/ R[m].oversells = Append(v.oversells, i)
    BY <2>6 DEF Settle
  <2>8. v.oversells \in Seq(Nat) /\ v.oversells # <<>> /\ v.oversells[1] = x
    BY <2>4, <2>5, <2>6 DEF States
  <2>9. Append(v.oversells, i) # <<>> /\ Append(v.oversells, i)[1] = x
    BY <2>8
  <2> QED
    BY <2>2, <2>7, <2>8, <2>9
<1>4. Keeps(Len(parsed))
  BY <1>1, <1>3
<1>5. R[Len(parsed)] \in States
  BY <1>1, SettledType
<1> QED
  BY <1>4, <1>5 DEF Running, States

(* Where the engine stops at an oversell the checker notes one, the first. *)
LEMMA OversellFound ==
  ASSUME TypeOK, Ordered, FitsChecker, NetInv, Oversell
  PROVE  Oversells \in Seq(Nat) /\ Oversells # <<>> /\ Oversells[1] = error.at
<1>1. PICK p, c : p = pos /\ c = Current
  OBVIOUS
<1>2. /\ p \in DOMAIN parsed /\ c = parsed[p] /\ c.side = "sell" /\ error.at = c.i
      /\ c.amount > NetAfter(parsed, p - 1, c.asset)
      /\ Honoured(p - 1)
  BY <1>1 DEF NetInv, Honoured, Current
<1>3. p - 1 \in 0..Len(parsed)
  BY <1>2, DomainParsed
<1>4. PICK R : Running(R)
  BY SettleUnfold
<1>5. Tracks(R, p - 1)
  BY <1>2, <1>3, <1>4, TracksAlways
<1>6. PICK v : v = R[p - 1]
  OBVIOUS
<1>7. c.asset \in Assets
  BY <1>2, DomainParsed DEF ParsedTrades
<1>8. /\ v.oversells = <<>> /\ v.balance[c.asset] \in Int
      /\ v.balance[c.asset] = NetAfter(parsed, p - 1, c.asset)
  BY <1>5, <1>6, <1>7 DEF Tracks
<1>9. R[p] = Settle(v, c.i)
  BY <1>2, <1>4, <1>6 DEF Running
<1>10. R[p].oversells = <<c.i>>
  <2>1. v.balance[parsed[p].asset] \in Int
    BY <1>2, <1>8
  <2>2. Settle(v, c.i).oversells = IF c.side = "sell" /\ c.amount > v.balance[c.asset]
                                   THEN Append(v.oversells, c.i) ELSE v.oversells
    BY <1>2, <2>1, SettleIs
  <2>3. Settle(v, c.i).oversells = Append(<<>>, c.i)
    BY <1>2, <1>8, <2>2
  <2> QED
    BY <1>9, <2>3
<1> QED
  BY <1>2, <1>4, <1>10, OversellsKept

(* When the engine stops at an oversell, check_ledger reports that trade   *)
(* as the first oversell in time (lots.py:316-330, 436-440), for every     *)
(* ledger that fits its precision.                                         *)
THEOREM CheckerFindsEngineOversell == Spec => []CheckerFindsOversell
<1>1. Inv /\ ReadInv /\ NetInv => CheckerFindsOversell
  <2> SUFFICES ASSUME Inv, ReadInv, NetInv, Oversell, FitsChecker
               PROVE  Oversells # <<>> /\ Oversells[1] = error.at
    BY DEF CheckerFindsOversell, Oversell
  <2>1. TypeOK /\ Ordered
    BY DEF Inv, TypeInv, ReadInv
  <2> QED
    BY <2>1, OversellFound
<1> QED
  BY <1>1, ViewsInvariant, PTL

(* A ledger that the engine matches to its end has nothing wrong with it   *)
(* for check_ledger, duplicates aside (lots.py:242-248, 298-302), if it    *)
(* fits the checker's precision.                                           *)
THEOREM CheckerAcceptsMatched == Spec => []CheckerAccepts
<1>1. Inv /\ ReadInv /\ NetInv => CheckerAccepts
  <2> SUFFICES ASSUME Inv, ReadInv, NetInv, phase = "done", FitsChecker, NEW issue \in Issues
               PROVE  issue.code = "POSSIBLE_DUPLICATE"
    BY DEF CheckerAccepts
  <2>1. TypeOK /\ Ordered
    BY DEF Inv, TypeInv, ReadInv
  <2>2. /\ SortableTimes /\ \A i \in DOMAIN Trades : TradeIssues(Trades[i]) = {}
    BY <2>1, CheckerReads
  <2>3. PICK n : n = Len(parsed) /\ n \in 0..Len(parsed)
    <3>1. Len(parsed) \in Nat
      BY <2>1, DomainParsed
    <3>2. Len(parsed) \in 0..Len(parsed)
      BY <3>1
    <3> QED
      BY <3>2
  <2>4. Honoured(n)
    <3>1. pos - 1 = n
      BY <2>1, <2>3, DomainParsed DEF NetInv
    <3> QED
      BY <3>1 DEF NetInv, Honoured
  <2>5. PICK R : Running(R)
    BY <2>1, SettleUnfold
  <2>6. Oversells = <<>>
    <3>1. Tracks(R, n)
      BY <2>1, <2>3, <2>4, <2>5, TracksAlways
    <3> QED
      BY <2>3, <2>5, <3>1 DEF Tracks, Running
  <2>7. issue \in {[code |-> "POSSIBLE_DUPLICATE", at |-> i] : i \in Duplicates}
    <3>1. DOMAIN Oversells = {}
      BY <2>6
    <3> QED
      BY <2>2, <3>1 DEF Issues
  <2> QED
    BY <2>7
<1> QED
  BY <1>1, ViewsInvariant, PTL

(* With finite numbers, a trade the engine refuses has an issue. *)
LEMMA FaultyTrade ==
  ASSUME NEW t \in RawTrades, Refusal(t) # "none",
         t # NotAnObject => Numbers(t) \cap {Infinite, NaN} = {}
  PROVE  TradeIssues(t) # {}
<1>1. CASE t = NotAnObject
  BY <1>1 DEF TradeIssues
<1>2. CASE t # NotAnObject
  <2> DEFINE readable == Numbers(t) \cap {FloatLiteral, NotANumber} = {}
             low == Below(t.amount, 1) \/ Below(t.price, 0) \/ Below(t.fee, 0)
             parts == {IF t.side \notin Sides THEN {"INVALID_SIDE"} ELSE {},
                       IF t.asset \notin DOMAIN Upper THEN {"INVALID_ASSET"} ELSE {},
                       IF FloatLiteral \in Numbers(t) THEN {"FLOAT_REJECTED"} ELSE {},
                       IF NotANumber \in Numbers(t) THEN {"INVALID_NUMBER"} ELSE {},
                       IF readable /\ low THEN {"INVALID_NUMBER"} ELSE {},
                       IF t.time = NoTime THEN {"BAD_TIMESTAMP"} ELSE {}}
  <2>1. TradeIssues(t) = UNION parts
    BY <1>2 DEF TradeIssues
  <2>2. \/ t.side \notin Sides \/ t.asset \notin DOMAIN Upper \/ t.time = NoTime
        \/ ~readable \/ low
    <3> SUFFICES ASSUME t.side \in Sides, t.asset \in DOMAIN Upper, t.time # NoTime,
                        readable
                 PROVE  low
      OBVIOUS
    <3>1. t.amount \in Int /\ t.price \in Int /\ t.fee \in Int
      BY <1>2, FieldsAssumption DEF Numbers
    <3>2. Negative(t)
      BY <1>2, <3>1, NumbersAssumption DEF Refusal, DecRefusal
    <3> QED
      BY <3>1, <3>2, NumbersAssumption DEF Negative, Below
  <2>3. \E part \in parts : part # {}
    <3>1. ~readable => FloatLiteral \in Numbers(t) \/ NotANumber \in Numbers(t)
      OBVIOUS
    <3> HIDE DEF low
    <3>2. CASE ~readable
      BY <3>1, <3>2
    <3>3. CASE readable
      <4> HIDE DEF readable
      <4> QED
        BY <2>2, <3>3
    <3> QED
      BY <3>2, <3>3
  <2> HIDE DEF parts
  <2> QED
    BY <2>1, <2>3
<1> QED
  BY <1>1, <1>2

(* For a ledger the engine refuses check_ledger answers, and not with ok   *)
(* (lots.py:242-248, 332), whatever the ledger, as long as its numbers are *)
(* finite, its sums exact and its trades no more than the engine takes.    *)
THEOREM CheckerCompletes == Spec => []CheckerCompleteWithinLimits
<1>1. Inv /\ ReadInv /\ NetInv => CheckerCompleteWithinLimits
  <2> SUFFICES ASSUME Inv, ReadInv, NetInv, phase = "failed", request.method \in Methods,
                      Len(Trades) <= MaxTrades, FitsChecker,
                      \A i \in DOMAIN Trades :
                        Trades[i] # NotAnObject => Numbers(Trades[i]) \cap {Infinite, NaN} = {}
               PROVE  ~CheckRaises /\ ~CheckOk
    BY DEF CheckerCompleteWithinLimits
  <2>1. TypeOK
    BY DEF Inv, TypeInv
  <2>2. ~CheckRaises
    <3>1. ~ComparesNaN
      BY DEF ComparesNaN, Numbers
    <3>2. ~TakesInfinity
      <4> SUFFICES ASSUME NEW i \in Usable, Trades[i].amount = Infinite PROVE FALSE
        BY DEF TakesInfinity
      <4>1. i \in DOMAIN Trades /\ Trades[i] # NotAnObject
        BY DEF Usable, TradeIssues
      <4> QED
        BY <4>1 DEF Numbers
    <3> QED
      BY <3>1, <3>2 DEF CheckRaises
  <2>3. CASE Oversell
    <3>1. Oversells \in Seq(Nat) /\ Oversells # <<>>
      BY <2>1, <2>3, OversellFound DEF ReadInv
    <3>2. 1 \in DOMAIN Oversells
      BY <3>1
    <3>3. [code |-> "INSUFFICIENT_INVENTORY", at |-> Oversells[1]] \in Issues
      BY <3>2 DEF Issues
    <3> QED
      BY <2>2, <3>3 DEF CheckOk
  <2>4. CASE HeaderRefusal # "none"
    <3>1. Trades = <<>>
      BY <2>1, <2>4, TradesType, BoundsAssumption DEF HeaderRefusal, Trades
    <3> QED
      BY <2>2, <3>1 DEF CheckOk
  <2>5. CASE \E i \in DOMAIN Trades : Refusal(Trades[i]) # "none"
    <3>1. PICK i \in DOMAIN Trades : Refusal(Trades[i]) # "none"
      BY <2>5
    <3>2. TradeIssues(Trades[i]) # {}
      <4>1. PICK t : t = Trades[i]
        OBVIOUS
      <4>2. t \in RawTrades /\ Refusal(t) # "none"
        BY <2>1, <3>1, <4>1, TradesType
      <4>3. t # NotAnObject => Numbers(t) \cap {Infinite, NaN} = {}
        BY <4>1
      <4> QED
        BY <4>1, <4>2, <4>3, FaultyTrade
    <3>3. PICK c \in TradeIssues(Trades[i]) : TRUE
      BY <3>2
    <3>4. [code |-> c, at |-> i] \in Issues
      BY <3>3 DEF Issues
    <3> QED
      BY <2>2, <3>4 DEF CheckOk
  <2>6. CASE Accepted /\ \E i, j \in DOMAIN Trades : Trades[i].time.kind # Trades[j].time.kind
    <3>1. \A i \in DOMAIN Trades : TradeIssues(Trades[i]) = {}
      BY <2>6, FlawlessTrade DEF Accepted
    <3>2. Usable = DOMAIN Trades
      BY <3>1 DEF Usable
    <3>3. ~SortableTimes
      BY <2>6, <3>2 DEF SortableTimes
    <3>4. [code |-> "BAD_TIMESTAMP", at |-> 0] \in Issues
      BY <3>3 DEF Issues
    <3> QED
      BY <2>2, <3>4 DEF CheckOk
  <2> QED
    BY <2>3, <2>4, <2>5, <2>6 DEF ReadInv, Malformed
<1> QED
  BY <1>1, ViewsInvariant, PTL

(***************************************************************************)
(* The order of processing                                                 *)
(***************************************************************************)

LEMMA DivisionMonotone ==
  ASSUME NEW a \in Int, NEW b \in Int, a <= b, NEW d \in Nat \ {0}
  PROVE  a \div d <= b \div d
<1>1. PICK p \in Int, q \in Int : p = a \div d /\ q = b \div d
  OBVIOUS
<1>2. d * p <= a /\ b < d * q + d
  <2>1. a % d >= 0 /\ a = d * (a \div d) + (a % d)
    OBVIOUS
  <2>2. b % d < d /\ b = d * (b \div d) + (b % d)
    OBVIOUS
  <2> QED
    BY <1>1, <2>1, <2>2
<1>3. ASSUME p >= q + 1 PROVE FALSE
  <2>1. d * p >= d * (q + 1)
    BY <1>3
  <2>2. d * (q + 1) = d * q + d
    OBVIOUS
  <2> QED
    BY <1>2, <2>1, <2>2
<1> QED
  BY <1>1, <1>3

(* Two numbers in the same unit. *)
SameUnit(a, b) ==
  /\ a.kind = "number" /\ b.kind = "number"
  /\ a.rank >= MilliFrom <=> b.rank >= MilliFrom

(* Of two trades whose times are in the same unit the earlier is processed *)
(* first, and ties keep input order (lots.py:16).                          *)
ChronologicalWithinUnits ==
  phase \in {"match", "consume", "done"} =>
    \A j, k \in DOMAIN parsed :
      j < k /\ SameUnit(parsed[j].time, parsed[k].time) =>
        /\ parsed[j].time.epoch <= parsed[k].time.epoch
        /\ parsed[j].time.rank = parsed[k].time.rank => parsed[j].i < parsed[k].i

(* For any ledger the engine matches: the order of processing is that of   *)
(* the instants, except between numbers of different units (lots.py:404-413). *)
THEOREM UnitsAreChronological == Spec => []ChronologicalWithinUnits
<1>1. TypeOK /\ ReadInv => ChronologicalWithinUnits
  <2> SUFFICES ASSUME TypeOK, Ordered, NEW j \in DOMAIN parsed, NEW k \in DOMAIN parsed, j < k,
                      SameUnit(parsed[j].time, parsed[k].time)
               PROVE  /\ parsed[j].time.epoch <= parsed[k].time.epoch
                      /\ parsed[j].time.rank = parsed[k].time.rank => parsed[j].i < parsed[k].i
    BY DEF ReadInv, ChronologicalWithinUnits
  <2>1. Before(parsed[j], parsed[k])
    BY DEF Ordered
  <2>2. ASSUME NEW p \in DOMAIN parsed
        PROVE  /\ parsed[p].time.rank \in Int
               /\ parsed[p].time.kind = "number"
                    => parsed[p].time.epoch = EpochSeconds(parsed[p].time.rank)
    <3>1. PICK i \in DOMAIN Trades : i = parsed[p].i /\ parsed[p] = ReadAs(Trades[i], i)
      BY DEF Ordered
    <3>2. Trades[i] \in RawTrades /\ Refusal(Trades[i]) = "none"
      BY TradesType DEF Ordered, Accepted
    <3>3. Trades[i] # NotAnObject /\ Trades[i].time # NoTime
      BY <3>2 DEF Refusal
    <3>4. parsed[p].time = Trades[i].time
      BY <3>1 DEF ReadAs
    <3> QED
      BY <3>2, <3>3, <3>4, TimesAssumption
  <2>3. PICK a \in Int, b \in Int : a = parsed[j].time.rank /\ b = parsed[k].time.rank
    BY <2>2
  <2>4. a <= b /\ (a = b => parsed[j].i < parsed[k].i)
    BY <2>1, <2>3 DEF Before
  <2>5. EpochSeconds(a) <= EpochSeconds(b)
    <3>1. a >= MilliFrom <=> b >= MilliFrom
      BY <2>3 DEF SameUnit
    <3>2. a \div PerSecond <= b \div PerSecond
      BY <2>4, DivisionMonotone, BoundsAssumption
    <3> QED
      BY <2>4, <3>1, <3>2 DEF EpochSeconds
  <2>6. parsed[j].time.epoch = EpochSeconds(a) /\ parsed[k].time.epoch = EpochSeconds(b)
    BY <2>2, <2>3 DEF SameUnit
  <2> QED
    BY <2>3, <2>4, <2>5, <2>6
<1> QED
  BY <1>1, ViewsInvariant, PTL DEF Inv, TypeInv
===============================================================================
