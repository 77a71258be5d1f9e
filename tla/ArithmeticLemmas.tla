--------------------------- MODULE ArithmeticLemmas ---------------------------
(***************************************************************************)
(* Facts about the operators the models calculate with.  First, what       *)
(* SumFunctionOnSet and SumFunction of the community module Functions      *)
(* compute, for finite sets of indices and integer values: their           *)
(* definition takes indices in an order nobody knows, and the order does   *)
(* not matter.  Then folds over a sequence and sorted enumerations of a    *)
(* set, and what the rounding of DecimalMath does to a number.             *)
(***************************************************************************)
EXTENDS DecimalMath, Functions, FiniteSets, FiniteSetTheorems, WellFoundedInduction,
        TLAPS

(* Every set of naturals that is not empty has a least element. *)
LEMMA LeastNatural ==
  ASSUME NEW T \in SUBSET Nat, T # {}
  PROVE  \E x \in T : \A y \in T : ~(y < x)
<1> DEFINE R == {ss \in Nat \X Nat : ss[1] < ss[2]}
<1>1. IsWellFoundedOn(R, Nat)
  BY NatLessThanWellFounded DEF OpToRel
<1> HIDE DEF R
<1>2. \E x \in T : \A y \in T : ~(<<y, x>> \in R)
  BY <1>1, WFMin
<1>3. \A x, y \in Nat : y < x => <<y, x>> \in R
  BY DEF R
<1> QED
  BY <1>2, <1>3

(* Induction over naturals for a predicate given as a function. *)
LEMMA Induction ==
  ASSUME NEW P \in [Nat -> BOOLEAN], P[0], \A n \in Nat : P[n] => P[n + 1]
  PROVE  \A n \in Nat : P[n]
<1> SUFFICES ASSUME \E n \in Nat : ~P[n] PROVE FALSE
  OBVIOUS
<1> DEFINE T == {n \in Nat : ~P[n]}
<1>1. PICK x \in T : \A y \in T : ~(y < x)
  BY LeastNatural
<1>2. x # 0 /\ x - 1 \in Nat /\ x - 1 < x
  BY <1>1
<1>3. P[(x - 1) + 1]
  BY <1>1, <1>2
<1> QED
  BY <1>1, <1>2, <1>3

(* A property a finite set has when all its subsets with one element less  *)
(* have it, every finite set has.                                          *)
LEMMA SubsetInduction ==
  ASSUME NEW S, IsFiniteSet(S), NEW P \in [SUBSET S -> BOOLEAN],
         \A s \in SUBSET S : (\A x \in s : P[s \ {x}]) => P[s]
  PROVE  \A s \in SUBSET S : P[s]
<1> DEFINE Q == [n \in Nat |-> \A s \in SUBSET S : Cardinality(s) = n => P[s]]
<1>1. \A s \in SUBSET S :
        /\ Cardinality(s) \in Nat
        /\ s = {} <=> Cardinality(s) = 0
        /\ \A x \in s : Cardinality(s \ {x}) = Cardinality(s) - 1
  BY FS_Subset, FS_CardinalityType, FS_EmptySet, FS_RemoveElement
<1>2. Q \in [Nat -> BOOLEAN]
  OBVIOUS
<1>3. Q[0]
  BY <1>1
<1>4. ASSUME NEW n \in Nat, Q[n] PROVE Q[n + 1]
  <2> SUFFICES ASSUME NEW s \in SUBSET S, Cardinality(s) = n + 1 PROVE P[s]
    BY DEF Q
  <2>1. \A x \in s : s \ {x} \in SUBSET S /\ Cardinality(s \ {x}) = n
    BY <1>1
  <2> QED
    BY <1>4, <2>1
<1> HIDE DEF Q
<1>5. \A n \in Nat : Q[n]
  BY <1>2, <1>3, <1>4, Induction
<1> QED
  BY <1>1, <1>5 DEF Q

(***************************************************************************)
(* The recursive function of the definition                                *)
(***************************************************************************)

Chosen(s) == CHOOSE x \in s : TRUE

IsSum(f, S, g) ==
  g = [s \in SUBSET S |-> IF s = {} THEN 0 ELSE f[Chosen(s)] + g[s \ {Chosen(s)}]]

(* Such a function exists, with integer values. *)
LEMMA SumExists ==
  ASSUME NEW S, IsFiniteSet(S), NEW f, \A x \in S : f[x] \in Int
  PROVE  \E g \in [SUBSET S -> Int] : IsSum(f, S, g)
<1> DEFINE Small(n) == {s \in SUBSET S : Cardinality(s) <= n}
           Good(n, g) ==
             \A s \in Small(n) :
               g[s] = IF s = {} THEN 0 ELSE f[Chosen(s)] + g[s \ {Chosen(s)}]
           P == [n \in Nat |-> \E g \in [Small(n) -> Int] : Good(n, g)]
<1>1. \A s \in SUBSET S :
        /\ Cardinality(s) \in Nat
        /\ s = {} <=> Cardinality(s) = 0
        /\ s # {} => Chosen(s) \in s
        /\ \A x \in s : Cardinality(s \ {x}) = Cardinality(s) - 1
  BY FS_Subset, FS_CardinalityType, FS_EmptySet, FS_RemoveElement DEF Chosen
<1>2. P \in [Nat -> BOOLEAN]
  OBVIOUS
<1>3. P[0]
  <2> DEFINE g == [s \in Small(0) |-> 0]
  <2>1. \A s \in Small(0) : s = {}
    BY <1>1
  <2>2. g \in [Small(0) -> Int] /\ Good(0, g)
    BY <2>1
  <2> QED
    BY <2>2
<1>4. ASSUME NEW n \in Nat, P[n] PROVE P[n + 1]
  <2>1. PICK g \in [Small(n) -> Int] : Good(n, g)
    BY <1>4
  <2> DEFINE Next(s) == IF s = {} THEN 0 ELSE f[Chosen(s)] + g[s \ {Chosen(s)}]
             h == [s \in Small(n + 1) |-> Next(s)]
  <2>2. \A s \in Small(n + 1) : s # {} => Chosen(s) \in S /\ s \ {Chosen(s)} \in Small(n)
    BY <1>1
  <2>3. h \in [Small(n + 1) -> Int]
    BY <2>1, <2>2
  <2>4. \A s \in Small(n) : s \in Small(n + 1) /\ h[s] = g[s]
    BY <1>1, <2>1
  <2>5. Good(n + 1, h)
    BY <2>2, <2>4
  <2> HIDE DEF h, Good
  <2>6. \E k \in [Small(n + 1) -> Int] : Good(n + 1, k)
    BY <2>3, <2>5
  <2>7. n + 1 \in Nat
    OBVIOUS
  <2> QED
    BY <2>6, <2>7
<1>5. P[Cardinality(S)]
  <2> HIDE DEF P
  <2>1. \A n \in Nat : P[n]
    BY <1>2, <1>3, <1>4, Induction
  <2> QED
    BY <2>1, <1>1
<1>6. Small(Cardinality(S)) = SUBSET S /\ Cardinality(S) \in Nat
  BY <1>1, FS_Subset
<1> HIDE DEF Small, Good
<1>7. PICK g \in [SUBSET S -> Int] : Good(Cardinality(S), g)
  BY <1>5, <1>6
<1>8. IsSum(f, S, g)
  BY <1>6, <1>7 DEF IsSum, Good
<1> QED
  BY <1>7, <1>8

(* What it gives for a set does not depend on the set it is defined over. *)
LEMMA SumUnique ==
  ASSUME NEW S, NEW T \in SUBSET S, IsFiniteSet(S), NEW f, NEW g, NEW h,
         IsSum(f, S, g), IsSum(f, T, h)
  PROVE  \A s \in SUBSET T : g[s] = h[s]
<1> DEFINE P == [s \in SUBSET T |-> g[s] = h[s]]
<1>1. IsFiniteSet(T)
  BY FS_Subset
<1>2. P \in [SUBSET T -> BOOLEAN]
  OBVIOUS
<1>3. ASSUME NEW s \in SUBSET T, \A x \in s : P[s \ {x}] PROVE P[s]
  <2>1. s # {} => Chosen(s) \in s /\ P[s \ {Chosen(s)}] /\ s \ {Chosen(s)} \in SUBSET T
    BY <1>3 DEF Chosen
  <2>2. g[s] = IF s = {} THEN 0 ELSE f[Chosen(s)] + g[s \ {Chosen(s)}]
    BY DEF IsSum
  <2>3. h[s] = IF s = {} THEN 0 ELSE f[Chosen(s)] + h[s \ {Chosen(s)}]
    BY DEF IsSum
  <2> QED
    BY <2>1, <2>2, <2>3
<1> HIDE DEF P
<1>4. \A s \in SUBSET T : P[s]
  BY <1>1, <1>2, <1>3, SubsetInduction
<1> QED
  BY <1>4 DEF P

LEMMA SumUnfold ==
  ASSUME NEW S, NEW f, NEW h, IsSum(f, S, h)
  PROVE  \E g : IsSum(f, S, g) /\ SumFunctionOnSet(f, S) = g[S]
<1> DEFINE G == CHOOSE g : IsSum(f, S, g)
<1>1. IsSum(f, S, G)
  BY DEF IsSum
<1>2. SumFunctionOnSet(f, S) = G[S]
  BY DEF IsSum, Chosen, SumFunctionOnSet, FoldFunctionOnSet, MapThenFoldSet
<1> QED
  BY <1>1, <1>2

LEMMA SumOf ==
  ASSUME NEW S, IsFiniteSet(S), NEW f, NEW g, IsSum(f, S, g),
         \A x \in S : f[x] \in Int
  PROVE  \A T \in SUBSET S : SumFunctionOnSet(f, T) = g[T]
<1> SUFFICES ASSUME NEW T \in SUBSET S PROVE SumFunctionOnSet(f, T) = g[T]
  OBVIOUS
<1>1. IsFiniteSet(T)
  BY FS_Subset
<1>2. \E h : IsSum(f, T, h)
  BY <1>1, SumExists
<1>3. PICK h : IsSum(f, T, h) /\ SumFunctionOnSet(f, T) = h[T]
  BY <1>2, SumUnfold
<1>4. g[T] = h[T]
  BY <1>3, SumUnique
<1> QED
  BY <1>3, <1>4

(***************************************************************************)
(* The lemmas to cite                                                      *)
(***************************************************************************)

(* An empty sum is zero, a sum of integers an integer, and any element     *)
(* may be taken out first.                                                 *)
LEMMA SumRemove ==
  ASSUME NEW S, IsFiniteSet(S), NEW f, \A x \in S : f[x] \in Int
  PROVE  /\ SumFunctionOnSet(f, S) \in Int
         /\ S = {} => SumFunctionOnSet(f, S) = 0
         /\ \A x \in S : SumFunctionOnSet(f, S) = f[x] + SumFunctionOnSet(f, S \ {x})
<1>1. PICK g \in [SUBSET S -> Int] : IsSum(f, S, g)
  BY SumExists
<1>2. \A T \in SUBSET S : SumFunctionOnSet(f, T) = g[T]
  BY <1>1, SumOf
<1> DEFINE P == [s \in SUBSET S |-> \A x \in s : g[s] = f[x] + g[s \ {x}]]
<1>3. P \in [SUBSET S -> BOOLEAN]
  OBVIOUS
<1>4. \A s \in SUBSET S : g[s] = IF s = {} THEN 0 ELSE f[Chosen(s)] + g[s \ {Chosen(s)}]
  BY <1>1 DEF IsSum
<1>5. ASSUME NEW s \in SUBSET S, \A x \in s : P[s \ {x}] PROVE P[s]
  <2> SUFFICES ASSUME NEW x \in s PROVE g[s] = f[x] + g[s \ {x}]
    BY DEF P
  <2> DEFINE c == Chosen(s)
  <2>1. c \in s /\ g[s] = f[c] + g[s \ {c}]
    BY <1>4 DEF Chosen
  <2> HIDE DEF c
  <2>2. CASE x = c
    BY <2>1, <2>2
  <2>3. CASE x # c
    <3>1. g[s \ {c}] = f[x] + g[(s \ {c}) \ {x}]
      BY <1>5, <2>1, <2>3
    <3>2. g[s \ {x}] = f[c] + g[(s \ {x}) \ {c}]
      BY <1>5, <2>1, <2>3
    <3>3. (s \ {c}) \ {x} = (s \ {x}) \ {c} /\ (s \ {c}) \ {x} \in SUBSET S
      OBVIOUS
    <3>4. f[x] \in Int /\ f[c] \in Int /\ g[(s \ {c}) \ {x}] \in Int
      BY <1>1, <2>1, <3>3
    <3>5. g[(s \ {x}) \ {c}] = g[(s \ {c}) \ {x}]
      BY <3>3
    <3> HIDE DEF P
    <3> QED
      BY <2>1, <3>1, <3>2, <3>4, <3>5
  <2> QED
    BY <2>2, <2>3
<1> HIDE DEF P
<1>6. P[S]
  BY <1>3, <1>5, SubsetInduction
<1> QED
  BY <1>1, <1>2, <1>4, <1>6 DEF P

(* Functions that agree on the indices have the same sum. *)
LEMMA SumAgree ==
  ASSUME NEW S, IsFiniteSet(S), NEW f, NEW g,
         \A x \in S : f[x] \in Int /\ f[x] = g[x]
  PROVE  SumFunctionOnSet(f, S) = SumFunctionOnSet(g, S)
<1>1. PICK h \in [SUBSET S -> Int] : IsSum(f, S, h)
  BY SumExists
<1>2. \A s \in SUBSET S : s # {} => Chosen(s) \in S
  BY DEF Chosen
<1>3. IsSum(g, S, h)
  BY <1>1, <1>2 DEF IsSum
<1> QED
  BY <1>1, <1>3, SumOf

(* Changing the value at one index changes the sum by as much. *)
LEMMA SumChange ==
  ASSUME NEW S, IsFiniteSet(S), NEW f, NEW g, NEW i \in S,
         \A x \in S : f[x] \in Int /\ g[x] \in Int,
         \A x \in S \ {i} : f[x] = g[x]
  PROVE  SumFunctionOnSet(g, S) = SumFunctionOnSet(f, S) - f[i] + g[i]
<1>1. IsFiniteSet(S \ {i})
  BY FS_Subset
<1>2. SumFunctionOnSet(f, S \ {i}) = SumFunctionOnSet(g, S \ {i})
  BY <1>1, SumAgree
<1>3. SumFunctionOnSet(f, S \ {i}) \in Int
  BY <1>1, SumRemove
<1>4. /\ SumFunctionOnSet(f, S) = f[i] + SumFunctionOnSet(f, S \ {i})
      /\ SumFunctionOnSet(g, S) = g[i] + SumFunctionOnSet(g, S \ {i})
  BY SumRemove
<1> QED
  BY <1>2, <1>3, <1>4

(* A sum of naturals is a natural, and zero if they all are. *)
LEMMA SumNat ==
  ASSUME NEW S, IsFiniteSet(S), NEW f, \A x \in S : f[x] \in Nat
  PROVE  /\ SumFunctionOnSet(f, S) \in Nat
         /\ (\A x \in S : f[x] = 0) => SumFunctionOnSet(f, S) = 0
         /\ \A x \in S : f[x] <= SumFunctionOnSet(f, S)
<1> DEFINE P == [s \in SUBSET S |->
                   /\ SumFunctionOnSet(f, s) \in Nat
                   /\ (\A x \in s : f[x] = 0) => SumFunctionOnSet(f, s) = 0]
<1>1. P \in [SUBSET S -> BOOLEAN]
  OBVIOUS
<1>2. ASSUME NEW s \in SUBSET S, \A x \in s : P[s \ {x}] PROVE P[s]
  <2>1. IsFiniteSet(s)
    BY FS_Subset
  <2>2. /\ s = {} => SumFunctionOnSet(f, s) = 0
        /\ \A x \in s : SumFunctionOnSet(f, s) = f[x] + SumFunctionOnSet(f, s \ {x})
    BY <2>1, SumRemove
  <2>3. CASE s = {}
    BY <2>2, <2>3
  <2>4. CASE s # {}
    <3>1. PICK x \in s : TRUE
      BY <2>4
    <3>2. f[x] \in Nat /\ SumFunctionOnSet(f, s) = f[x] + SumFunctionOnSet(f, s \ {x})
      BY <2>2, <3>1
    <3>3. P[s \ {x}] /\ s \ {x} \in SUBSET S
      BY <1>2, <3>1
    <3> QED
      BY <3>2, <3>3
  <2> QED
    BY <2>3, <2>4
<1> HIDE DEF P
<1>3. \A s \in SUBSET S : P[s]
  BY <1>1, <1>2, SubsetInduction
<1>4. \A x \in S : SumFunctionOnSet(f, S) = f[x] + SumFunctionOnSet(f, S \ {x})
  BY SumRemove
<1>5. \A x \in S : SumFunctionOnSet(f, S \ {x}) \in Nat
  BY <1>3 DEF P
<1>6. ASSUME NEW x \in S PROVE f[x] <= SumFunctionOnSet(f, S)
  <2>1. f[x] \in Nat /\ SumFunctionOnSet(f, S \ {x}) \in Nat
    BY <1>5
  <2>2. SumFunctionOnSet(f, S) = f[x] + SumFunctionOnSet(f, S \ {x})
    BY <1>4
  <2> QED
    BY <2>1, <2>2
<1> QED
  BY <1>3, <1>6 DEF P

(* Indices of value zero may be left out. *)
LEMMA SumSupport ==
  ASSUME NEW S, IsFiniteSet(S), NEW f, \A x \in S : f[x] \in Int,
         NEW T \in SUBSET S, \A x \in S \ T : f[x] = 0
  PROVE  SumFunctionOnSet(f, T) = SumFunctionOnSet(f, S)
<1> DEFINE P == [s \in SUBSET (S \ T) |->
                   SumFunctionOnSet(f, T \cup s) = SumFunctionOnSet(f, T)]
<1>1. P \in [SUBSET (S \ T) -> BOOLEAN] /\ IsFiniteSet(S \ T)
  BY FS_Subset
<1>2. ASSUME NEW s \in SUBSET (S \ T), \A x \in s : P[s \ {x}] PROVE P[s]
  <2>1. CASE s = {}
    BY <2>1
  <2>2. CASE s # {}
    <3>1. PICK x \in s : TRUE
      BY <2>2
    <3>2. IsFiniteSet(T \cup s) /\ IsFiniteSet((T \cup s) \ {x})
      BY FS_Subset
    <3>3. SumFunctionOnSet(f, T \cup s) = f[x] + SumFunctionOnSet(f, (T \cup s) \ {x})
      BY <3>1, <3>2, SumRemove
    <3>4. (T \cup s) \ {x} = T \cup (s \ {x}) /\ f[x] = 0
      BY <3>1
    <3>5. SumFunctionOnSet(f, T \cup (s \ {x})) \in Int
      BY <3>2, <3>4, SumRemove
    <3>6. SumFunctionOnSet(f, T \cup s) = SumFunctionOnSet(f, T \cup (s \ {x}))
      BY <3>3, <3>4, <3>5
    <3>7. P[s \ {x}] /\ s \ {x} \in SUBSET (S \ T)
      BY <1>2, <3>1
    <3> QED
      BY <3>6, <3>7
  <2> QED
    BY <2>1, <2>2
<1> HIDE DEF P
<1>3. \A s \in SUBSET (S \ T) : P[s]
  BY <1>1, <1>2, SubsetInduction
<1>4. SumFunctionOnSet(f, T \cup (S \ T)) = SumFunctionOnSet(f, T)
  BY <1>3 DEF P
<1>5. T \cup (S \ T) = S
  OBVIOUS
<1> QED
  BY <1>4, <1>5

(* A bound that holds index by index holds for the sums. *)
LEMMA SumCompare ==
  ASSUME NEW S, IsFiniteSet(S), NEW a, NEW b, NEW f, NEW t, NEW m \in Int,
         \A x \in S : a[x] \in Int /\ b[x] \in Int /\ f[x] \in Int /\ t[x] \in Int,
         \A x \in S : a[x] - b[x] <= m * (f[x] - t[x])
  PROVE  SumFunctionOnSet(a, S) - SumFunctionOnSet(b, S)
           <= m * (SumFunctionOnSet(f, S) - SumFunctionOnSet(t, S))
<1> DEFINE P == [s \in SUBSET S |->
                   SumFunctionOnSet(a, s) - SumFunctionOnSet(b, s)
                     <= m * (SumFunctionOnSet(f, s) - SumFunctionOnSet(t, s))]
<1>1. P \in [SUBSET S -> BOOLEAN]
  OBVIOUS
<1>2. ASSUME NEW s \in SUBSET S, \A x \in s : P[s \ {x}] PROVE P[s]
  <2>1. IsFiniteSet(s)
    BY FS_Subset
  <2>2. CASE s = {}
    <3>1. /\ SumFunctionOnSet(a, s) = 0 /\ SumFunctionOnSet(b, s) = 0
          /\ SumFunctionOnSet(f, s) = 0 /\ SumFunctionOnSet(t, s) = 0
      BY <2>1, <2>2, SumRemove
    <3>2. 0 - 0 <= m * (0 - 0)
      OBVIOUS
    <3> QED
      BY <3>1, <3>2
  <2>3. CASE s # {}
    <3>1. PICK x \in s : TRUE
      BY <2>3
    <3> DEFINE A == SumFunctionOnSet(a, s \ {x})
               B == SumFunctionOnSet(b, s \ {x})
               F == SumFunctionOnSet(f, s \ {x})
               T == SumFunctionOnSet(t, s \ {x})
    <3>2. IsFiniteSet(s \ {x}) /\ s \ {x} \in SUBSET S
      BY FS_Subset
    <3>3. A \in Int /\ B \in Int /\ F \in Int /\ T \in Int
      BY <3>2, SumRemove
    <3>4. /\ SumFunctionOnSet(a, s) = a[x] + A
          /\ SumFunctionOnSet(b, s) = b[x] + B
          /\ SumFunctionOnSet(f, s) = f[x] + F
          /\ SumFunctionOnSet(t, s) = t[x] + T
      BY <2>1, <3>1, SumRemove
    <3>5. A - B <= m * (F - T)
      BY <1>2, <3>1, <3>2
    <3>6. /\ a[x] \in Int /\ b[x] \in Int /\ f[x] \in Int /\ t[x] \in Int
          /\ a[x] - b[x] <= m * (f[x] - t[x])
      BY <3>1
    <3> HIDE DEF A, B, F, T
    <3>7. (a[x] + A) - (b[x] + B) <= m * ((f[x] + F) - (t[x] + T))
      BY <3>3, <3>5, <3>6
    <3> QED
      BY <3>4, <3>7
  <2> QED
    BY <2>2, <2>3
<1> HIDE DEF P
<1>3. P[S]
  BY <1>1, <1>2, SubsetInduction
<1> QED
  BY <1>3 DEF P

(* A set of indices may be summed in two parts. *)
LEMMA SumSplit ==
  ASSUME NEW S, IsFiniteSet(S), NEW f, \A x \in S : f[x] \in Int, NEW T \in SUBSET S
  PROVE  SumFunctionOnSet(f, S) = SumFunctionOnSet(f, T) + SumFunctionOnSet(f, S \ T)
<1> DEFINE Parts(s) == SumFunctionOnSet(f, s \cap T) + SumFunctionOnSet(f, s \ T)
           P == [s \in SUBSET S |-> SumFunctionOnSet(f, s) = Parts(s)]
<1>1. P \in [SUBSET S -> BOOLEAN]
  OBVIOUS
<1>2. ASSUME NEW s \in SUBSET S, \A x \in s : P[s \ {x}] PROVE P[s]
  <2>1. IsFiniteSet(s) /\ IsFiniteSet(s \cap T) /\ IsFiniteSet(s \ T)
    BY FS_Subset
  <2>2. CASE s = {}
    <3>1. s \cap T = {} /\ s \ T = {} /\ SumFunctionOnSet(f, {}) = 0
      BY <2>2, FS_EmptySet, SumRemove
    <3>2. SumFunctionOnSet(f, s) = Parts(s)
      BY <2>2, <3>1
    <3> QED
      BY <3>2
  <2>3. CASE s # {}
    <3>1. PICK x \in s : TRUE
      BY <2>3
    <3> DEFINE A == SumFunctionOnSet(f, (s \ {x}) \cap T)
               B == SumFunctionOnSet(f, (s \ {x}) \ T)
    <3>2. SumFunctionOnSet(f, s) = f[x] + SumFunctionOnSet(f, s \ {x})
      BY <2>1, <3>1, SumRemove
    <3>3. SumFunctionOnSet(f, s \ {x}) = A + B
      BY <1>2, <3>1
    <3>4. A \in Int /\ B \in Int /\ f[x] \in Int
      <4>1. IsFiniteSet((s \ {x}) \cap T) /\ IsFiniteSet((s \ {x}) \ T)
        BY FS_Subset
      <4> QED
        BY <3>1, <4>1, SumRemove
    <3> HIDE DEF P
    <3>5. ASSUME x \in T PROVE SumFunctionOnSet(f, s) = Parts(s)
      <4>1. (s \cap T) \ {x} = (s \ {x}) \cap T /\ s \ T = (s \ {x}) \ T
        BY <3>5
      <4>2. SumFunctionOnSet(f, s \cap T) = f[x] + SumFunctionOnSet(f, (s \cap T) \ {x})
        BY <2>1, <3>1, <3>5, SumRemove
      <4>3. Parts(s) = (f[x] + A) + B
        BY <4>1, <4>2
      <4> QED
        BY <3>2, <3>3, <3>4, <4>3
    <3>6. ASSUME x \notin T PROVE SumFunctionOnSet(f, s) = Parts(s)
      <4>1. (s \ T) \ {x} = (s \ {x}) \ T /\ s \cap T = (s \ {x}) \cap T
        BY <3>6
      <4>2. SumFunctionOnSet(f, s \ T) = f[x] + SumFunctionOnSet(f, (s \ T) \ {x})
        BY <2>1, <3>1, <3>6, SumRemove
      <4>3. Parts(s) = A + (f[x] + B)
        BY <4>1, <4>2
      <4> QED
        BY <3>2, <3>3, <3>4, <4>3
    <3> QED
      BY <3>5, <3>6 DEF P
  <2> QED
    BY <2>2, <2>3
<1> HIDE DEF P
<1>3. P[S]
  BY <1>1, <1>2, SubsetInduction
<1>4. S \cap T = T
  OBVIOUS
<1> QED
  BY <1>3, <1>4 DEF P

(* A bound on each index bounds the sums by the number of indices. *)
LEMMA SumBound ==
  ASSUME NEW S, IsFiniteSet(S), NEW f, NEW g, NEW a \in Int, NEW b \in Int, NEW c \in Int,
         \A x \in S : f[x] \in Int /\ g[x] \in Int,
         \A x \in S : a * f[x] + b * g[x] <= c
  PROVE  a * SumFunctionOnSet(f, S) + b * SumFunctionOnSet(g, S) <= c * Cardinality(S)
<1> DEFINE P == [s \in SUBSET S |->
                   a * SumFunctionOnSet(f, s) + b * SumFunctionOnSet(g, s)
                     <= c * Cardinality(s)]
<1>1. P \in [SUBSET S -> BOOLEAN]
  OBVIOUS
<1>2. ASSUME NEW s \in SUBSET S, \A x \in s : P[s \ {x}] PROVE P[s]
  <2>1. IsFiniteSet(s)
    BY FS_Subset
  <2>2. CASE s = {}
    <3>1. /\ SumFunctionOnSet(f, s) = 0 /\ SumFunctionOnSet(g, s) = 0
          /\ Cardinality(s) = 0
      BY <2>1, <2>2, SumRemove, FS_EmptySet
    <3>2. a * 0 + b * 0 <= c * 0
      OBVIOUS
    <3> QED
      BY <3>1, <3>2
  <2>3. CASE s # {}
    <3>1. PICK x \in s : TRUE
      BY <2>3
    <3> DEFINE F == SumFunctionOnSet(f, s \ {x})
               G == SumFunctionOnSet(g, s \ {x})
               n == Cardinality(s \ {x})
    <3>2. IsFiniteSet(s \ {x})
      BY FS_Subset
    <3>3. F \in Int /\ G \in Int /\ n \in Nat
      BY <3>2, SumRemove, FS_CardinalityType
    <3>4. /\ SumFunctionOnSet(f, s) = f[x] + F
          /\ SumFunctionOnSet(g, s) = g[x] + G
          /\ Cardinality(s) = n + 1
      <4>1. n = Cardinality(s) - 1 /\ Cardinality(s) \in Nat
        BY <2>1, <3>1, FS_RemoveElement, FS_CardinalityType
      <4>2. \A y \in s : f[y] \in Int /\ g[y] \in Int
        OBVIOUS
      <4>3. SumFunctionOnSet(f, s) = f[x] + F /\ SumFunctionOnSet(g, s) = g[x] + G
        BY <2>1, <3>1, <4>2, SumRemove
      <4>4. Cardinality(s) = n + 1
        BY <4>1
      <4> QED
        BY <4>3, <4>4
    <3>5. a * F + b * G <= c * n
      BY <1>2, <3>1
    <3>6. f[x] \in Int /\ g[x] \in Int /\ a * f[x] + b * g[x] <= c
      BY <3>1
    <3> HIDE DEF F, G, n
    <3>7. a * (f[x] + F) + b * (g[x] + G) <= c * (n + 1)
      BY <3>3, <3>5, <3>6
    <3> QED
      BY <3>4, <3>7
  <2> QED
    BY <2>2, <2>3
<1> HIDE DEF P
<1>3. P[S]
  BY <1>1, <1>2, SubsetInduction
<1> QED
  BY <1>3 DEF P

(* A sum does not depend on how its indices are called. *)
LEMMA SumReindex ==
  ASSUME NEW S, IsFiniteSet(S), NEW T, IsFiniteSet(T), NEW g,
         \A x \in S : g[x] \in T,
         \A x, y \in S : g[x] = g[y] => x = y,
         \A y \in T : \E x \in S : g[x] = y,
         NEW f, NEW h, \A y \in T : f[y] \in Int, \A x \in S : h[x] = f[g[x]]
  PROVE  SumFunctionOnSet(h, S) = SumFunctionOnSet(f, T)
<1> DEFINE Pre(U) == {x \in S : g[x] \in U}
           G == [U \in SUBSET T |-> SumFunctionOnSet(h, Pre(U))]
<1>1. \A x \in S : h[x] \in Int
  OBVIOUS
<1>2. \A U \in SUBSET T : U # {} => G[U] = f[Chosen(U)] + G[U \ {Chosen(U)}]
  <2> SUFFICES ASSUME NEW U \in SUBSET T, U # {}
               PROVE  G[U] = f[Chosen(U)] + G[U \ {Chosen(U)}]
    OBVIOUS
  <2>1. PICK y : y = Chosen(U)
    OBVIOUS
  <2>2. y \in U /\ y \in T
    BY <2>1 DEF Chosen
  <2>3. PICK x \in S : g[x] = y
    BY <2>2
  <2>4. x \in Pre(U) /\ Pre(U) \ {x} = Pre(U \ {y})
    BY <2>2, <2>3
  <2>5. IsFiniteSet(Pre(U)) /\ \A z \in Pre(U) : h[z] \in Int
    BY <1>1, FS_Subset
  <2> HIDE DEF Pre
  <2>6. SumFunctionOnSet(h, Pre(U)) = h[x] + SumFunctionOnSet(h, Pre(U) \ {x})
    BY <2>4, <2>5, SumRemove
  <2>7. h[x] = f[y]
    BY <2>3
  <2>8. /\ G[U] = SumFunctionOnSet(h, Pre(U))
        /\ G[U \ {y}] = SumFunctionOnSet(h, Pre(U \ {y}))
    OBVIOUS
  <2> HIDE DEF G
  <2> QED
    BY <2>1, <2>4, <2>6, <2>7, <2>8
<1>3. G[{}] = 0
  BY FS_EmptySet, SumRemove
<1>4. IsSum(f, T, G)
  <2>1. G = [U \in SUBSET T |-> G[U]]
    OBVIOUS
  <2> HIDE DEF G
  <2>2. \A U \in SUBSET T :
          G[U] = IF U = {} THEN 0 ELSE f[Chosen(U)] + G[U \ {Chosen(U)}]
    BY <1>2, <1>3
  <2> QED
    BY <2>1, <2>2 DEF IsSum
<1>5. SumFunctionOnSet(f, T) = G[T]
  <2> HIDE DEF G
  <2> QED
    BY <1>4, SumOf
<1>6. Pre(T) = S
  OBVIOUS
<1> QED
  BY <1>5, <1>6

(***************************************************************************)
(* Recursive functions                                                     *)
(***************************************************************************)

(* Up to n, g is what the recursion F computes. *)
Computes(g, F, n) == \A m \in Nat : m < n => g[m] = F[m][g]

(* F[n][f] is the value at n of a function f with values in V, found from  *)
(* its values at smaller numbers.                                          *)
GoesBack(V, F) ==
  /\ \A n \in Nat : \A f \in [Nat -> V] : F[n][f] \in V
  /\ \A n \in Nat : \A f, g \in [Nat -> V] :
       (\A m \in Nat : m < n => f[m] = g[m]) => F[n][f] = F[n][g]

(* A recursion that goes back to smaller numbers computes a function.      *)
LEMMA RecursionExists ==
  ASSUME NEW V, NEW F, GoesBack(V, F), V # {}
  PROVE  \E g \in [Nat -> V] : \A n \in Nat : g[n] = F[n][g]
<1>0. /\ \A n \in Nat : \A f \in [Nat -> V] : F[n][f] \in V
      /\ \A n \in Nat : \A f, g \in [Nat -> V] :
           (\A m \in Nat : m < n => f[m] = g[m]) => F[n][f] = F[n][g]
  BY DEF GoesBack
<1> PICK v : v \in V
  OBVIOUS
<1> DEFINE Functs == [Nat -> V]
           P == [n \in Nat |-> \E g \in Functs : Computes(g, F, n)]
<1>1. \A n \in Nat : P[n]
  <2>1. P[0]
    <3>1. [n \in Nat |-> v] \in Functs
      OBVIOUS
    <3>2. \A g : Computes(g, F, 0)
      BY DEF Computes
    <3> QED
      BY <3>1, <3>2
  <2>2. ASSUME NEW n \in Nat, P[n] PROVE P[n + 1]
    <3>1. PICK g \in Functs : Computes(g, F, n)
      BY <2>2
    <3>2. PICK h : h = [g EXCEPT ![n] = F[n][g]]
      OBVIOUS
    <3>3. /\ h \in Functs /\ h[n] = F[n][g]
          /\ \A m \in Nat : m < n => h[m] = g[m]
      BY <1>0, <3>1, <3>2
    <3>4. ASSUME NEW m \in Nat, m < n + 1 PROVE h[m] = F[m][h]
      <4>1. \A k \in Nat : k < m => g[k] = h[k]
        BY <3>3, <3>4
      <4>2. F[m][g] = F[m][h]
        BY <1>0, <3>1, <3>3, <4>1
      <4>3. CASE m = n
        BY <3>3, <4>2, <4>3
      <4>4. CASE m < n
        BY <3>1, <3>3, <4>2, <4>4 DEF Computes
      <4> QED
        BY <3>4, <4>3, <4>4
    <3>5. Computes(h, F, n + 1)
      BY <3>4 DEF Computes
    <3> QED
      BY <3>3, <3>5
  <2>3. P \in [Nat -> BOOLEAN]
    OBVIOUS
  <2> HIDE DEF P
  <2> QED
    BY <2>1, <2>2, <2>3, Induction
<1>2. ASSUME NEW n \in Nat, NEW k \in Nat, NEW g \in Functs, NEW h \in Functs,
             Computes(g, F, n), Computes(h, F, k)
      PROVE  \A m \in Nat : m < n /\ m < k => g[m] = h[m]
  <2> DEFINE T == {m \in Nat : m < n /\ m < k /\ g[m] # h[m]}
  <2> SUFFICES ASSUME T # {} PROVE FALSE
    OBVIOUS
  <2>1. PICK m \in T : \A j \in T : ~(j < m)
    BY LeastNatural
  <2>2. \A j \in Nat : j < m => g[j] = h[j]
    BY <2>1
  <2>3. g[m] = F[m][g] /\ h[m] = F[m][h]
    BY <1>2, <2>1 DEF Computes
  <2>4. F[m][g] = F[m][h]
    BY <1>0, <2>1, <2>2
  <2> QED
    BY <2>1, <2>3, <2>4
<1> DEFINE C(n) == CHOOSE g \in Functs : Computes(g, F, n)
           r == [n \in Nat |-> C(n + 1)[n]]
<1>3. \A n \in Nat : C(n) \in Functs /\ Computes(C(n), F, n)
  BY <1>1
<1> HIDE DEF C
<1>4. r \in Functs
  <2>1. \A n \in Nat : C(n + 1) \in Functs
    BY <1>3
  <2> QED
    BY <2>1
<1>5. ASSUME NEW n \in Nat PROVE r[n] = F[n][r]
  <2>1. PICK g : g = C(n + 1)
    OBVIOUS
  <2>2. g \in Functs /\ Computes(g, F, n + 1)
    BY <1>3, <2>1
  <2>3. r[n] = g[n] /\ g[n] = F[n][g]
    BY <2>1, <2>2 DEF Computes
  <2>4. \A m \in Nat : m < n => r[m] = g[m]
    <3> SUFFICES ASSUME NEW m \in Nat, m < n PROVE C(m + 1)[m] = g[m]
      OBVIOUS
    <3>1. C(m + 1) \in Functs /\ Computes(C(m + 1), F, m + 1)
      BY <1>3
    <3> QED
      BY <1>2, <2>2, <3>1
  <2>5. F[n][r] = F[n][g]
    BY <1>0, <1>4, <2>2, <2>4
  <2> QED
    BY <2>3, <2>5
<1> HIDE DEF r
<1> QED
  BY <1>4, <1>5

(***************************************************************************)
(* Folds over a finite set                                                 *)
(***************************************************************************)

(* g folds op over the subsets of S; pick takes an element out of each.    *)
IsFold(op, base, pick, S, g) ==
  g = [s \in SUBSET S |-> IF s = {} THEN base ELSE op[pick[s]][g[s \ {pick[s]}]]]
PicksFrom(pick, S) == \A s \in SUBSET S : s # {} => pick[s] \in s
Closed(op, V, S) == \A v \in V, x \in S : op[x][v] \in V

LEMMA FoldExists ==
  ASSUME NEW S, IsFiniteSet(S), NEW V, NEW base \in V,
         NEW op, Closed(op, V, S), NEW pick, PicksFrom(pick, S)
  PROVE  \E g \in [SUBSET S -> V] : IsFold(op, base, pick, S, g)
<1> DEFINE Small(n) == {s \in SUBSET S : Cardinality(s) <= n}
           Good(n, g) ==
             \A s \in Small(n) :
               g[s] = IF s = {} THEN base ELSE op[pick[s]][g[s \ {pick[s]}]]
           P == [n \in Nat |-> \E g \in [Small(n) -> V] : Good(n, g)]
<1>1. \A s \in SUBSET S :
        /\ Cardinality(s) \in Nat
        /\ s = {} <=> Cardinality(s) = 0
        /\ s # {} => pick[s] \in s
        /\ \A x \in s : Cardinality(s \ {x}) = Cardinality(s) - 1
  BY FS_Subset, FS_CardinalityType, FS_EmptySet, FS_RemoveElement DEF PicksFrom
<1>2. P \in [Nat -> BOOLEAN]
  OBVIOUS
<1>3. P[0]
  <2> DEFINE g == [s \in Small(0) |-> base]
  <2>1. \A s \in Small(0) : s = {}
    BY <1>1
  <2>2. g \in [Small(0) -> V] /\ Good(0, g)
    BY <2>1
  <2> QED
    BY <2>2
<1>4. ASSUME NEW n \in Nat, P[n] PROVE P[n + 1]
  <2>1. PICK g \in [Small(n) -> V] : Good(n, g)
    BY <1>4
  <2> DEFINE Next(s) == IF s = {} THEN base ELSE op[pick[s]][g[s \ {pick[s]}]]
             h == [s \in Small(n + 1) |-> Next(s)]
  <2>2. \A s \in Small(n + 1) : s # {} => pick[s] \in S /\ s \ {pick[s]} \in Small(n)
    BY <1>1
  <2>3. h \in [Small(n + 1) -> V]
    <3> SUFFICES ASSUME NEW s \in Small(n + 1) PROVE Next(s) \in V
      OBVIOUS
    <3>1. s # {} => g[s \ {pick[s]}] \in V /\ pick[s] \in S
      BY <2>1, <2>2
    <3> QED
      BY <3>1 DEF Closed
  <2>4. \A s \in Small(n) : s \in Small(n + 1) /\ h[s] = g[s]
    <3>1. \A s \in Small(n) : s \in Small(n + 1)
      BY <1>1
    <3>2. \A s \in Small(n) : g[s] = Next(s)
      BY <2>1
    <3> HIDE DEF Small, Next
    <3> QED
      BY <3>1, <3>2
  <2>5. Good(n + 1, h)
    BY <2>2, <2>4
  <2> HIDE DEF h, Good
  <2>6. \E k \in [Small(n + 1) -> V] : Good(n + 1, k)
    BY <2>3, <2>5
  <2>7. n + 1 \in Nat
    OBVIOUS
  <2> QED
    BY <2>6, <2>7
<1>5. P[Cardinality(S)]
  <2> HIDE DEF P
  <2>1. \A n \in Nat : P[n]
    BY <1>2, <1>3, <1>4, Induction
  <2> QED
    BY <2>1, <1>1
<1>6. Small(Cardinality(S)) = SUBSET S /\ Cardinality(S) \in Nat
  BY <1>1, FS_Subset
<1> HIDE DEF Small, Good
<1>7. PICK g \in [SUBSET S -> V] : Good(Cardinality(S), g)
  BY <1>5, <1>6
<1>8. IsFold(op, base, pick, S, g)
  BY <1>6, <1>7 DEF IsFold, Good
<1> QED
  BY <1>7, <1>8

(***************************************************************************)
(* Sorted enumerations                                                     *)
(***************************************************************************)

SortedBy(R, s) == \A j, k \in DOMAIN s : j < k => <<s[j], s[k]>> \in R
OneToOne(n, s) == \A j, k \in 1..n : s[j] = s[k] => j = k
Strict(R) == \A x, y : ~(<<x, y>> \in R /\ <<y, x>> \in R)

(* A sorted enumeration has no repetitions, so it leaves nothing out. *)
LEMMA SortedCovers ==
  ASSUME NEW D, IsFiniteSet(D), NEW n \in Nat, Cardinality(D) = n,
         NEW R, Strict(R), NEW s \in [1..n -> D], SortedBy(R, s)
  PROVE  OneToOne(n, s) /\ \A x \in D : \E k \in 1..n : s[k] = x
<1>1. \A j, k \in 1..n : s[j] = s[k] => j = k
  <2>1. \A j, k \in 1..n : j < k => s[j] # s[k]
    BY DEF SortedBy, Strict
  <2> QED
    BY <2>1
<1>2. s \in Injection(1..n, D)
  BY <1>1 DEF Injection, IsInjective
<1>3. Cardinality(1..n) = n
  BY FS_Interval
<1>4. s \in Surjection(1..n, D)
  BY <1>2, <1>3, FS_Injection
<1> QED
  BY <1>1, <1>4 DEF Surjection, OneToOne

(* There is only one. *)
LEMMA SortedUnique ==
  ASSUME NEW D, IsFiniteSet(D), NEW n \in Nat, Cardinality(D) = n,
         NEW R, Strict(R),
         NEW s \in [1..n -> D], SortedBy(R, s),
         NEW t \in [1..n -> D], SortedBy(R, t)
  PROVE  s = t
<1> DEFINE T == {k \in 1..n : s[k] # t[k]}
<1> SUFFICES ASSUME T # {} PROVE FALSE
  OBVIOUS
<1>1. T \in SUBSET Nat
  OBVIOUS
<1>2. PICK k \in T : \A j \in T : ~(j < k)
  BY <1>1, LeastNatural
<1>3. \A j \in 1..n : j < k => s[j] = t[j]
  BY <1>2
<1>4. OneToOne(n, s) /\ \A x \in D : \E m \in 1..n : s[m] = x
  BY SortedCovers
<1>5. OneToOne(n, t) /\ \A x \in D : \E m \in 1..n : t[m] = x
  BY SortedCovers
<1>6. PICK j \in 1..n : t[j] = s[k]
  BY <1>5
<1>7. PICK m \in 1..n : s[m] = t[k]
  BY <1>4
<1>8. k < j
  <2>1. j # k
    BY <1>2, <1>6
  <2>2. ~(j < k)
    BY <1>2, <1>3, <1>4, <1>6 DEF OneToOne
  <2> QED
    BY <1>2, <2>1, <2>2
<1>9. k < m
  <2>1. m # k
    BY <1>2, <1>7
  <2>2. ~(m < k)
    BY <1>2, <1>3, <1>5, <1>7 DEF OneToOne
  <2> QED
    BY <1>2, <2>1, <2>2
<1>10. <<t[k], t[j]>> \in R /\ <<s[k], s[m]>> \in R
  BY <1>8, <1>9 DEF SortedBy
<1> QED
  BY <1>6, <1>7, <1>10 DEF Strict

(***************************************************************************)
(* Rounded division                                                        *)
(***************************************************************************)

(* Rounded division of naturals is a natural (lots.py:427, 430, 433). *)
LEMMA RoundDivType ==
  ASSUME NEW n \in Nat, NEW d \in Nat \ {0}
  PROVE  RoundDiv(n, d) \in Nat
<1>1. n \div d \in Nat /\ n % d \in Nat
  OBVIOUS
<1> QED
  BY <1>1 DEF RoundDiv

(* It is off by half a unit of the division at most. *)
LEMMA RoundDivBound ==
  ASSUME NEW n \in Int, NEW d \in Nat \ {0}
  PROVE  /\ RoundDiv(n, d) \in Int
         /\ 2 * (RoundDiv(n, d) * d - n) <= d
         /\ -d <= 2 * (RoundDiv(n, d) * d - n)
<1> DEFINE q == n \div d
           r == n % d
<1>1. q \in Int /\ r \in Int /\ 0 <= r /\ r < d /\ n = d * q + r
  OBVIOUS
<1>2. RoundDiv(n, d) = IF 2 * r > d \/ (2 * r = d /\ q % 2 = 1) THEN q + 1 ELSE q
  BY DEF RoundDiv
<1> HIDE DEF q, r
<1>3. CASE 2 * r > d \/ (2 * r = d /\ q % 2 = 1)
  <2>1. RoundDiv(n, d) = q + 1 /\ 2 * r >= d
    BY <1>1, <1>2, <1>3
  <2>2. (q + 1) * d - n = d - r
    BY <1>1
  <2> QED
    BY <1>1, <2>1, <2>2
<1>4. CASE ~(2 * r > d \/ (2 * r = d /\ q % 2 = 1))
  <2>1. RoundDiv(n, d) = q /\ 2 * r <= d
    BY <1>1, <1>2, <1>4
  <2>2. q * d - n = -r
    BY <1>1
  <2> QED
    BY <1>1, <2>1, <2>2
<1> QED
  BY <1>3, <1>4

(* It keeps to the right side of any whole number that the quotient is     *)
(* within less than half a unit of.                                        *)
LEMMA RoundDivAtLeast ==
  ASSUME NEW n \in Int, NEW d \in Nat \ {0}, NEW m \in Int,
         2 * (m * d - n) < d
  PROVE  m <= RoundDiv(n, d)
<1>1. PICK R \in Int : R = RoundDiv(n, d) /\ -d <= 2 * (R * d - n)
  BY RoundDivBound
<1>2. 2 * (m * d - n) - 2 * (R * d - n) < 2 * d
  BY <1>1
<1>3. (m - R) * d < d
  BY <1>1, <1>2
<1>4. ASSUME m - R >= 1 PROVE FALSE
  <2>1. (m - R) * d >= d
    BY <1>1, <1>4
  <2> QED
    BY <1>3, <2>1, <1>1
<1> QED
  BY <1>1, <1>4

LEMMA RoundDivAtMost ==
  ASSUME NEW n \in Int, NEW d \in Nat \ {0}, NEW m \in Int,
         -d < 2 * (m * d - n)
  PROVE  RoundDiv(n, d) <= m
<1>1. PICK R \in Int : R = RoundDiv(n, d) /\ 2 * (R * d - n) <= d
  BY RoundDivBound
<1>2. 2 * (R * d - n) - 2 * (m * d - n) < 2 * d
  BY <1>1
<1>3. (R - m) * d < d
  BY <1>1, <1>2
<1>4. ASSUME R - m >= 1 PROVE FALSE
  <2>1. (R - m) * d >= d
    BY <1>1, <1>4
  <2> QED
    BY <1>3, <2>1, <1>1
<1> QED
  BY <1>1, <1>4

(***************************************************************************)
(* Decimal digits                                                          *)
(***************************************************************************)

LEMMA PowersOfTen ==
  /\ Pow10 \in [Nat -> Nat]
  /\ Pow10[0] = 1
  /\ \A k \in Nat : Pow10[k + 1] = 10 * Pow10[k] /\ Pow10[k] > 0
<1> DEFINE F == [k \in Nat |-> [f \in [Nat -> Nat] |-> IF k = 0 THEN 1 ELSE 10 * f[k - 1]]]
<1>1. \A k \in Nat : \A f \in [Nat -> Nat] :
        F[k][f] = (IF k = 0 THEN 1 ELSE 10 * f[k - 1]) /\ F[k][f] \in Nat
  OBVIOUS
<1>2. \A k \in Nat : \A f, g \in [Nat -> Nat] :
        (\A m \in Nat : m < k => f[m] = g[m]) => F[k][f] = F[k][g]
  <2> SUFFICES ASSUME NEW k \in Nat, k # 0, NEW f \in [Nat -> Nat], NEW g \in [Nat -> Nat],
                      \A m \in Nat : m < k => f[m] = g[m]
               PROVE  f[k - 1] = g[k - 1]
    BY <1>1
  <2>1. k - 1 \in Nat /\ k - 1 < k
    OBVIOUS
  <2> QED
    BY <2>1
<1> HIDE DEF F
<1>3. PICK p \in [Nat -> Nat] : \A k \in Nat : p[k] = F[k][p]
  <2>1. GoesBack(Nat, F)
    BY <1>1, <1>2 DEF GoesBack
  <2> QED
    BY <2>1, RecursionExists
<1>4. p = [k \in Nat |-> IF k = 0 THEN 1 ELSE 10 * p[k - 1]]
  BY <1>1, <1>3
<1>5. Pow10 = [k \in Nat |-> IF k = 0 THEN 1 ELSE 10 * Pow10[k - 1]]
  BY <1>4 DEF Pow10
<1>6. Pow10[0] = 1 /\ \A k \in Nat : Pow10[k + 1] = 10 * Pow10[k]
  <2>1. \A k \in Nat : k + 1 # 0 /\ (k + 1) - 1 = k
    OBVIOUS
  <2> QED
    BY <1>5, <2>1
<1>7. \A k \in Nat : Pow10[k] \in Nat /\ Pow10[k] > 0
  <2> DEFINE T == {k \in Nat : ~(Pow10[k] \in Nat /\ Pow10[k] > 0)}
  <2> SUFFICES ASSUME T # {} PROVE FALSE
    OBVIOUS
  <2>1. PICK k \in T : \A m \in T : ~(m < k)
    BY LeastNatural
  <2>2. k # 0
    BY <1>6, <2>1
  <2>3. PICK m \in Nat : k = m + 1 /\ m < k
    <3>1. k - 1 \in Nat /\ k = (k - 1) + 1 /\ k - 1 < k
      BY <2>1, <2>2
    <3> QED
      BY <3>1
  <2>4. Pow10[m] \in Nat /\ Pow10[m] > 0
    BY <2>1, <2>3
  <2> QED
    BY <1>6, <2>1, <2>3, <2>4
<1> QED
  BY <1>5, <1>6, <1>7

LEMMA DigitCounts ==
  /\ DigitCount \in [Nat -> Nat]
  /\ \A n \in Nat : /\ DigitCount[n] > 0
                    /\ DigitCount[n] = IF n < 10 THEN 1 ELSE 1 + DigitCount[n \div 10]
<1>0. \A n \in Nat : n >= 10 => n \div 10 \in Nat /\ n \div 10 < n
  OBVIOUS
<1> DEFINE V == Nat \ {0}
           F == [n \in Nat |-> [f \in [Nat -> V] |-> IF n < 10 THEN 1 ELSE 1 + f[n \div 10]]]
<1>1. \A n \in Nat : \A f \in [Nat -> V] :
        F[n][f] = (IF n < 10 THEN 1 ELSE 1 + f[n \div 10]) /\ F[n][f] \in V
  <2>1. \A n \in Nat : n \div 10 \in Nat
    OBVIOUS
  <2> QED
    BY <2>1
<1>2. \A n \in Nat : \A f, g \in [Nat -> V] :
        (\A m \in Nat : m < n => f[m] = g[m]) => F[n][f] = F[n][g]
  BY <1>0
<1> HIDE DEF F
<1>3. 1 \in V
  OBVIOUS
<1>4. PICK d \in [Nat -> V] : \A n \in Nat : d[n] = F[n][d]
  <2>1. GoesBack(V, F) /\ V # {}
    BY <1>1, <1>2, <1>3 DEF GoesBack
  <2> HIDE DEF V
  <2> QED
    BY <2>1, RecursionExists
<1>5. d = [n \in Nat |-> IF n < 10 THEN 1 ELSE 1 + d[n \div 10]]
  BY <1>1, <1>4
<1>6. DigitCount = [n \in Nat |-> IF n < 10 THEN 1 ELSE 1 + DigitCount[n \div 10]]
  BY <1>5 DEF DigitCount
<1>7. \A n \in Nat : DigitCount[n] \in Nat /\ DigitCount[n] > 0
  <2> DEFINE T == {n \in Nat : ~(DigitCount[n] \in Nat /\ DigitCount[n] > 0)}
  <2> SUFFICES ASSUME T # {} PROVE FALSE
    OBVIOUS
  <2>1. PICK n \in T : \A m \in T : ~(m < n)
    BY LeastNatural
  <2>2. CASE n < 10
    BY <1>6, <2>1, <2>2
  <2>3. CASE n >= 10
    <3>1. n \div 10 \in Nat /\ n \div 10 < n
      BY <1>0, <2>1, <2>3
    <3>2. DigitCount[n \div 10] \in Nat /\ DigitCount[n \div 10] > 0
      BY <2>1, <3>1
    <3> QED
      BY <1>6, <2>1, <2>3, <3>2
  <2> QED
    BY <2>1, <2>2, <2>3
<1> QED
  BY <1>6, <1>7

(* A number has at most d digits exactly if it is less than 10^d. *)
LEMMA DigitsFit ==
  \A d \in Nat : \A n \in Nat : DigitCount[n] <= d + 1 <=> n < Pow10[d + 1]
<1> DEFINE Fits(n, d) == DigitCount[n] <= d + 1 <=> n < Pow10[d + 1]
           P == [d \in Nat |-> \A n \in Nat : Fits(n, d)]
<1>1. Pow10[1] = 10
  BY PowersOfTen
<1>2. P[0]
  <2> SUFFICES ASSUME NEW n \in Nat PROVE DigitCount[n] <= 1 <=> n < 10
    BY <1>1
  <2>1. n \div 10 \in Nat
    OBVIOUS
  <2>2. DigitCount[n \div 10] \in Nat /\ DigitCount[n \div 10] > 0
    BY <2>1, DigitCounts
  <2> QED
    BY <2>2, DigitCounts
<1>3. ASSUME NEW d \in Nat, P[d] PROVE P[d + 1]
  <2> SUFFICES ASSUME NEW n \in Nat
               PROVE  DigitCount[n] <= d + 2 <=> n < Pow10[d + 2]
    OBVIOUS
  <2>1. PICK p \in Nat : p = Pow10[d + 1]
    BY PowersOfTen
  <2>2. Pow10[d + 2] = 10 * p /\ p > 0
    BY <2>1, PowersOfTen
  <2>3. Pow10[d + 2] >= 10
    BY <2>2
  <2>4. CASE n < 10
    BY <2>3, <2>4, <2>2, DigitCounts
  <2>5. CASE n >= 10
    <3>1. PICK m \in Nat : m = n \div 10
      OBVIOUS
    <3>2. n < 10 * p <=> m < p
      BY <3>1
    <3>3. DigitCount[m] <= d + 1 <=> m < p
      BY <1>3, <2>1
    <3>4. DigitCount[n] = 1 + DigitCount[m] /\ DigitCount[m] \in Nat
      BY <2>5, <3>1, DigitCounts
    <3> QED
      BY <2>2, <3>2, <3>3, <3>4
  <2> QED
    BY <2>4, <2>5
<1>4. P \in [Nat -> BOOLEAN]
  OBVIOUS
<1>5. \A d \in Nat : P[d] = (\A n \in Nat : Fits(n, d))
  OBVIOUS
<1> HIDE DEF P
<1>6. \A d \in Nat : P[d]
  BY <1>2, <1>3, <1>4, Induction
<1> QED
  BY <1>5, <1>6

(* Rounding leaves a natural number a natural number. *)
LEMMA RoundedNat ==
  ASSUME NEW n \in Nat, NEW prec \in Nat
  PROVE  Rounded(n, prec) \in Nat
<1>0. Abs(n) = n
  BY DEF Abs
<1>1. Surplus(n, prec) \in Nat
  BY DigitCounts DEF Surplus
<1>2. PICK u \in Nat \ {0} : u = Pow10[Surplus(n, prec)]
  BY <1>1, PowersOfTen
<1>3. RoundDiv(n, u) \in Nat
  BY RoundDivType
<1>4. RoundDiv(n, u) * u \in Nat
  BY <1>3
<1> QED
  BY <1>0, <1>2, <1>4 DEF Rounded

(* Shifting rounds to the precision alone, unless it leads below the       *)
(* smallest number.                                                        *)
LEMMA ShiftedNat ==
  ASSUME NEW n \in Nat, NEW k \in Int, NEW prec \in Nat, NEW places \in Nat
  PROVE  /\ Shifted(n, k, prec, places) \in Nat
         /\ k <= places => Shifted(n, k, prec, places) = Rounded(n, prec)
<1>1. Abs(n) = n
  BY DEF Abs
<1>2. PICK s \in Nat : s = Surplus(n, prec)
  BY DigitCounts DEF Surplus
<1>3. PICK e \in Nat : e = (IF k - places > s THEN k - places ELSE s)
  <2>1. k - places > s => k - places \in Nat
    OBVIOUS
  <2> QED
    BY <2>1
<1>4. PICK u \in Nat \ {0} : u = Pow10[e]
  BY PowersOfTen
<1>5. PICK q \in Nat : q = RoundDiv(n, u)
  BY RoundDivType
<1>6. Shifted(n, k, prec, places) = q * u
  BY <1>1, <1>2, <1>3, <1>4, <1>5 DEF Shifted
<1>7. k <= places => e = s
  BY <1>3
<1>8. k <= places => Rounded(n, prec) = q * u
  BY <1>1, <1>2, <1>4, <1>5, <1>7 DEF Rounded
<1>9. q * u \in Nat
  OBVIOUS
<1> QED
  BY <1>6, <1>8, <1>9

(* A number that fits into the coefficient is not rounded. *)
LEMMA RoundedFits ==
  ASSUME NEW n \in Nat, NEW prec \in Nat \ {0}, n < Pow10[prec] \/ DigitCount[n] <= prec
  PROVE  Rounded(n, prec) = n
<1>1. DigitCount[n] <= prec
  <2>1. PICK d \in Nat : prec = d + 1
    <3>1. prec - 1 \in Nat /\ prec = (prec - 1) + 1
      OBVIOUS
    <3> QED
      BY <3>1
  <2> QED
    BY <2>1, DigitsFit
<1>2. Surplus(n, prec) = 0 /\ Pow10[Surplus(n, prec)] = 1
  BY <1>1, DigitCounts, PowersOfTen DEF Surplus
<1>3. RoundDiv(n, 1) = n /\ Abs(n) = n
  BY DEF RoundDiv, Abs
<1> QED
  BY <1>2, <1>3 DEF Rounded

LEMMA PowersAdd ==
  \A a, b \in Nat : Pow10[a + b] = Pow10[a] * Pow10[b]
<1> SUFFICES ASSUME NEW a \in Nat PROVE \A b \in Nat : Pow10[a + b] = Pow10[a] * Pow10[b]
  OBVIOUS
<1> DEFINE P == [b \in Nat |-> Pow10[a + b] = Pow10[a] * Pow10[b]]
<1>1. \A b \in Nat : P[b] = (Pow10[a + b] = Pow10[a] * Pow10[b])
  OBVIOUS
<1>2. P[0]
  <2>1. PICK x \in Nat : x = Pow10[a]
    BY PowersOfTen
  <2>2. Pow10[a + 0] = Pow10[a] * Pow10[0]
    BY <2>1, PowersOfTen
  <2> QED
    BY <2>2
<1>3. ASSUME NEW b \in Nat, P[b] PROVE P[b + 1]
  <2>1. PICK x, y, z \in Nat : x = Pow10[a] /\ y = Pow10[b] /\ z = Pow10[a + b]
    <3>1. a + b \in Nat
      OBVIOUS
    <3> QED
      BY <3>1, PowersOfTen
  <2>2. Pow10[b + 1] = 10 * y /\ Pow10[a + (b + 1)] = 10 * z /\ z = x * y
    <3>1. a + (b + 1) = (a + b) + 1 /\ a + b \in Nat
      OBVIOUS
    <3> QED
      BY <1>3, <2>1, <3>1, PowersOfTen
  <2>3. x * (10 * y) = 10 * (x * y)
    OBVIOUS
  <2>4. Pow10[a + (b + 1)] = Pow10[a] * Pow10[b + 1]
    BY <2>1, <2>2, <2>3
  <2>5. b + 1 \in Nat
    OBVIOUS
  <2> HIDE DEF P
  <2> QED
    BY <1>1, <2>4, <2>5
<1>4. P \in [Nat -> BOOLEAN]
  OBVIOUS
<1> HIDE DEF P
<1>5. \A b \in Nat : P[b]
  BY <1>2, <1>3, <1>4, Induction
<1> QED
  BY <1>1, <1>5

(* What is divided without a remainder comes back by multiplication. *)
LEMMA Divides ==
  ASSUME NEW n \in Nat, NEW d \in Nat \ {0}
  PROVE  /\ n \div d \in Nat /\ n \div d <= n
         /\ n % d = 0 => (n \div d) * d = n
         /\ \A q \in Int : n = q * d => n % d = 0 /\ n \div d = q
<1>1. PICK q \in Int, r \in Int : q = n \div d /\ r = n % d
  OBVIOUS
<1>2. n = d * q + r /\ 0 <= r /\ r < d
  BY <1>1
<1>3. q >= 0
  <2>1. ASSUME q <= -1 PROVE FALSE
    <3>1. d * q <= -d
      BY <2>1
    <3> QED
      BY <1>2, <3>1
  <2> QED
    BY <2>1
<1>4. q <= d * q
  BY <1>3
<1>5. ASSUME NEW p \in Int, n = p * d PROVE r = 0 /\ q = p
  <2>1. r = (p - q) * d
    BY <1>2, <1>5
  <2>2. ~(p - q >= 1)
    <3> SUFFICES ASSUME p - q >= 1 PROVE FALSE
      OBVIOUS
    <3>1. (p - q) * d >= d
      OBVIOUS
    <3> QED
      BY <1>2, <2>1, <3>1
  <2>3. ~(p - q <= -1)
    <3> SUFFICES ASSUME p - q <= -1 PROVE FALSE
      OBVIOUS
    <3>1. (p - q) * d <= -d
      OBVIOUS
    <3> QED
      BY <1>2, <2>1, <3>1
  <2>4. p = q
    BY <2>2, <2>3
  <2> QED
    BY <2>1, <2>4
<1>6. r = 0 => q * d = n
  BY <1>2
<1> QED
  BY <1>1, <1>2, <1>3, <1>4, <1>5, <1>6

(* The unit that a number is rounded to leaves it prec digits at least.    *)
LEMMA RoundingUnit ==
  ASSUME NEW m \in Nat, NEW prec \in Nat \ {0}
  PROVE  \E unit \in Nat \ {0} :
           /\ unit = Pow10[Surplus(m, prec)]
           /\ unit = 1 \/ Pow10[prec - 1] * unit <= m
<1>1. PICK c \in Nat : c = DigitCount[m]
  BY DigitCounts
<1>2. CASE c <= prec
  BY <1>1, <1>2, PowersOfTen DEF Surplus
<1>3. CASE c > prec
  <2>1. PICK s \in Nat, d \in Nat : s = c - prec /\ d = (prec - 1) + (s - 1) /\ s > 0
    <3>1. c - prec \in Nat /\ (prec - 1) + ((c - prec) - 1) \in Nat /\ c - prec > 0
      BY <1>3
    <3> QED
      BY <3>1
  <2>2. Surplus(m, prec) = s /\ ~(c <= d + 1) /\ d + 1 = (prec - 1) + s /\ prec - 1 \in Nat
    BY <1>1, <1>3, <2>1 DEF Surplus
  <2>3. PICK L \in Nat, u \in Nat, x \in Nat :
          L = Pow10[prec - 1] /\ u = Pow10[s] /\ u > 0 /\ x = Pow10[d + 1]
    <3>1. d + 1 \in Nat
      OBVIOUS
    <3> QED
      BY <2>2, <3>1, PowersOfTen
  <2>4. x = L * u
    BY <2>1, <2>2, <2>3, PowersAdd
  <2>5. ~(m < x)
    BY <1>1, <2>2, <2>3, DigitsFit
  <2> QED
    BY <2>2, <2>3, <2>4, <2>5
<1> QED
  BY <1>2, <1>3

(* A quotient is rounded once: to a whole number, or by one part in        *)
(* 2 * 10^(prec - 1) at most.  It keeps its sign.                          *)
LEMMA QuotientBound ==
  ASSUME NEW n \in Int, NEW d \in Nat \ {0}, NEW prec \in Nat \ {0},
         NEW L \in Nat, L = Pow10[prec - 1]
  PROVE  \E y \in Int :
           /\ y = Quotient(n, d, prec)
           /\ 2 * L * (y * d - n) <= Abs(n) + L * d
           /\ 2 * L * (n - y * d) <= Abs(n) + L * d
           /\ n >= 0 => y >= 0
           /\ n <= 0 => y <= 0
<1>1. PICK a \in Nat : a = Abs(n)
  BY DEF Abs
<1>2. PICK m \in Nat : m = a \div d /\ m * d <= a
  <2>1. PICK q \in Int, r \in Int : q = a \div d /\ r = a % d
    OBVIOUS
  <2>2. a = d * q + r /\ 0 <= r
    BY <2>1
  <2>3. q \in Nat
    BY <2>1, Divides
  <2> QED
    BY <2>1, <2>2, <2>3
<1>3. PICK unit \in Nat \ {0} :
        /\ unit = Pow10[Surplus(m, prec)]
        /\ unit = 1 \/ L * unit <= m
  BY RoundingUnit
<1>4. PICK e \in Nat \ {0} : e = d * unit
  OBVIOUS
<1>5. PICK q \in Int :
        q = RoundDiv(n, e) /\ 2 * (q * e - n) <= e /\ -e <= 2 * (q * e - n)
  BY RoundDivBound
<1>6. PICK y \in Int : y = q * unit
  OBVIOUS
<1>7. y = Quotient(n, d, prec)
  BY <1>1, <1>2, <1>3, <1>4, <1>5, <1>6 DEF Quotient
<1>8. y * d = q * e
  <2>1. (q * unit) * d = q * (d * unit)
    OBVIOUS
  <2> QED
    BY <1>4, <1>6, <2>1
<1>9. PICK z \in Int : z = y * d - n /\ 2 * z <= e /\ -e <= 2 * z
  BY <1>5, <1>8
<1>10. PICK Ld \in Nat, Le \in Nat : Ld = L * d /\ Le = L * e
  OBVIOUS
<1>11. Le <= a + Ld
  <2>1. CASE unit = 1
    BY <1>4, <1>10, <2>1
  <2>2. CASE L * unit <= m
    <3>1. PICK v \in Nat : v = L * unit /\ v <= m
      BY <2>2
    <3>2. v * d <= m * d
      BY <3>1
    <3>3. L * (d * unit) = (L * unit) * d
      OBVIOUS
    <3>4. Le = v * d
      BY <1>4, <1>10, <3>1, <3>3
    <3> QED
      BY <1>2, <3>2, <3>4
  <2> QED
    BY <1>3, <2>1, <2>2
<1>12. 2 * L * z <= Le /\ 2 * L * (-z) <= Le
  <2>1. L * (e - 2 * z) >= 0 /\ L * (e + 2 * z) >= 0
    <3>1. e - 2 * z \in Nat /\ e + 2 * z \in Nat
      BY <1>9
    <3> QED
      BY <3>1
  <2> QED
    BY <1>10, <2>1
<1>13. n >= 0 => y >= 0
  <2> SUFFICES ASSUME n >= 0 PROVE y >= 0
    OBVIOUS
  <2>1. 0 <= q
    <3>1. 2 * (0 * e - n) < e
      OBVIOUS
    <3> QED
      BY <1>5, <3>1, RoundDivAtLeast
  <2> QED
    BY <1>6, <2>1
<1>14. n <= 0 => y <= 0
  <2> SUFFICES ASSUME n <= 0 PROVE y <= 0
    OBVIOUS
  <2>1. q <= 0
    <3>1. -e < 2 * (0 * e - n)
      OBVIOUS
    <3> QED
      BY <1>5, <3>1, RoundDivAtMost
  <2>2. (-q) * unit >= 0
    BY <2>1
  <2> QED
    BY <1>6, <2>2
<1>15. n - y * d = -z
  BY <1>9
<1> QED
  BY <1>1, <1>7, <1>9, <1>10, <1>11, <1>12, <1>13, <1>14, <1>15

(* A number rounded to prec digits is off by one part in 2 * 10^(prec - 1) *)
(* at most, and keeps its sign.                                            *)
LEMMA RoundedBound ==
  ASSUME NEW n \in Int, NEW prec \in Nat \ {0}, NEW L \in Nat, L = Pow10[prec - 1]
  PROVE  \E y \in Int :
           /\ y = Rounded(n, prec)
           /\ 2 * L * (y - n) <= Abs(n)
           /\ 2 * L * (n - y) <= Abs(n)
           /\ n >= 0 => y >= 0
           /\ n <= 0 => y <= 0
<1>1. PICK a \in Nat : a = Abs(n)
  BY DEF Abs
<1>2. PICK unit \in Nat \ {0} :
        /\ unit = Pow10[Surplus(a, prec)]
        /\ unit = 1 \/ L * unit <= a
  BY RoundingUnit
<1>3. PICK q \in Int :
        q = RoundDiv(n, unit) /\ 2 * (q * unit - n) <= unit /\ -unit <= 2 * (q * unit - n)
  BY RoundDivBound
<1>4. PICK y \in Int : y = q * unit
  OBVIOUS
<1>5. y = Rounded(n, prec)
  BY <1>1, <1>2, <1>3, <1>4 DEF Rounded
<1>6. 2 * L * (y - n) <= a /\ 2 * L * (n - y) <= a
  <2>1. CASE unit = 1
    BY <1>3, <1>4, <2>1
  <2>2. CASE L * unit <= a
    <3>1. PICK z \in Int : z = y - n /\ 2 * z <= unit /\ -unit <= 2 * z
      BY <1>3, <1>4
    <3>2. L * (unit - 2 * z) >= 0 /\ L * (unit + 2 * z) >= 0
      <4>1. unit - 2 * z \in Nat /\ unit + 2 * z \in Nat
        BY <3>1
      <4> QED
        BY <4>1
    <3>3. 2 * L * z <= L * unit /\ 2 * L * (-z) <= L * unit
      BY <3>2
    <3>4. n - y = -z
      BY <3>1
    <3> QED
      BY <2>2, <3>1, <3>3, <3>4
  <2> QED
    BY <1>2, <2>1, <2>2
<1>7. n >= 0 => y >= 0
  <2> SUFFICES ASSUME n >= 0 PROVE y >= 0
    OBVIOUS
  <2>1. 0 <= q
    <3>1. 2 * (0 * unit - n) < unit
      OBVIOUS
    <3> QED
      BY <1>3, <3>1, RoundDivAtLeast
  <2> QED
    BY <1>4, <2>1
<1>8. n <= 0 => y <= 0
  <2> SUFFICES ASSUME n <= 0 PROVE y <= 0
    OBVIOUS
  <2>1. q <= 0
    <3>1. -unit < 2 * (0 * unit - n)
      OBVIOUS
    <3> QED
      BY <1>3, <3>1, RoundDivAtMost
  <2>2. (-q) * unit >= 0
    BY <2>1
  <2> QED
    BY <1>4, <2>2
<1> QED
  BY <1>1, <1>5, <1>6, <1>7, <1>8

LEMMA RoundDivExact ==
  ASSUME NEW q \in Nat, NEW d \in Nat \ {0}
  PROVE  RoundDiv(q * d, d) = q
<1>1. PICK n \in Nat : n = q * d
  OBVIOUS
<1>2. n % d = 0 /\ n \div d = q
  BY <1>1, Divides
<1> QED
  BY <1>1, <1>2 DEF RoundDiv

(* Trailing zeros do not count against the precision. *)
LEMMA RoundedMultiple ==
  ASSUME NEW n \in Nat, NEW j \in Nat, NEW prec \in Nat \ {0}, n < Pow10[prec]
  PROVE  Rounded(n * Pow10[j], prec) = n * Pow10[j]
<1>1. PICK raw \in Nat, u \in Nat, w \in Nat :
        u = Pow10[j] /\ w = Pow10[prec] /\ raw = n * u
  <2>1. Pow10[j] \in Nat /\ Pow10[prec] \in Nat
    BY PowersOfTen
  <2>2. \A x, y \in Nat : x * y \in Nat
    OBVIOUS
  <2> QED
    BY <2>1, <2>2
<1>2. CASE DigitCount[raw] <= prec
  BY <1>1, <1>2, RoundedFits
<1>3. CASE DigitCount[raw] > prec
  <2>1. PICK s \in Nat \ {0} : s = Surplus(raw, prec) /\ DigitCount[raw] = prec + s
    BY <1>3, DigitCounts DEF Surplus
  <2>2. s <= j
    <3>1. raw < Pow10[prec + j]
      <4>1. Pow10[prec + j] = w * u
        BY <1>1, PowersAdd
      <4>2. u > 0
        BY <1>1, PowersOfTen
      <4>3. n * u < w * u
        BY <1>1, <4>2
      <4> QED
        BY <1>1, <4>1, <4>3
    <3>2. PICK d \in Nat : prec + j = d + 1
      <4>1. prec + j - 1 \in Nat /\ prec + j = (prec + j - 1) + 1
        OBVIOUS
      <4> QED
        BY <4>1
    <3>3. DigitCount[raw] <= prec + j
      BY <3>1, <3>2, DigitsFit
    <3> QED
      BY <2>1, <3>3
  <2>3. PICK i \in Nat : j = i + s
    <3>1. j - s \in Nat /\ j = (j - s) + s
      BY <2>2
    <3> QED
      BY <3>1
  <2>4. PICK a \in Nat, b \in Nat \ {0} : a = Pow10[i] /\ b = Pow10[s] /\ u = a * b
    <3>1. Pow10[i] \in Nat /\ Pow10[s] \in Nat \ {0}
      <4>1. \A k \in Nat : Pow10[k] \in Nat /\ Pow10[k] > 0
        BY PowersOfTen
      <4> QED
        BY <4>1
    <3>2. u = Pow10[i] * Pow10[s]
      BY <1>1, <2>3, PowersAdd
    <3> QED
      BY <3>1, <3>2
  <2>5. raw = (n * a) * b /\ n * a \in Nat
    BY <1>1, <2>4
  <2>6. RoundDiv(raw, b) = n * a
    BY <2>5, RoundDivExact
  <2>7. Abs(raw) = raw
    BY DEF Abs
  <2> QED
    BY <1>1, <2>1, <2>4, <2>5, <2>6, <2>7 DEF Rounded
<1> QED
  <2>1. DigitCount[raw] \in Nat
    BY DigitCounts
  <2> QED
    BY <1>2, <1>3, <2>1

(* Trailing zeros are taken off while there are decimal places. *)
LEMMA TrimmedPlaces ==
  ASSUME NEW n \in Nat, NEW k \in Nat
  PROVE  \E z \in 0..k : /\ Trimmed(n, k) = [n |-> n \div Pow10[z], k |-> k - z]
                         /\ n % Pow10[z] = 0
<1> DEFINE Ends(z) == z = k \/ n % Pow10[z + 1] # 0
           T == {z \in Nat : Ends(z)}
<1>1. PICK z \in T : \A y \in T : ~(y < z)
  <2>1. k \in T /\ T \subseteq Nat
    OBVIOUS
  <2> QED
    BY <2>1, LeastNatural
<1>2. z \in 0..k
  BY <1>1
<1>3. n % Pow10[z] = 0
  <2>1. CASE z = 0
    BY <2>1, PowersOfTen
  <2>2. CASE z # 0
    <3>1. z - 1 \in Nat /\ (z - 1) + 1 = z /\ z - 1 < z
      BY <1>1, <2>2
    <3>2. z - 1 \notin T
      BY <1>1, <3>1
    <3> QED
      BY <3>1, <3>2
  <2> QED
    BY <2>1, <2>2
<1>4. \E y \in 0..k : n % Pow10[y] = 0 /\ (y = k \/ n % Pow10[y + 1] # 0)
  BY <1>1, <1>2, <1>3
<1> QED
  BY <1>4 DEF Trimmed
===============================================================================
