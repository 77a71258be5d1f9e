--------------------------- MODULE LotLedger_proofs ---------------------------
(***************************************************************************)
(* Proofs about the tax-lot engine, for every set of requests, every bound *)
(* and every scale: type correctness; the discipline with which sells      *)
(* consume lots; that a sell moves what it consumes from the lots to its   *)
(* own trail, unit by unit, so that nothing is sold twice and nothing is   *)
(* clamped; and that the engine implements the position ledger: reading    *)
(* the request is its Load, a buy is an Acquire, the end of a sell a       *)
(* Dispose, and the rounds of the loop over the lots do not exist at its   *)
(* level.                                                                  *)
(***************************************************************************)
EXTENDS LotLedger, ArithmeticLemmas

(***************************************************************************)
(* Type correctness                                                        *)
(***************************************************************************)

(* What the phases know about the reading of the request: it is bounded    *)
(* once its header is accepted, and nothing is matched before it is sorted *)
Progress ==
  /\ phase = "header" => parsed = <<>>
  /\ phase = "parse" => /\ request.trades \in Seq(RawTrades)
                        /\ Len(request.trades) <= MaxTrades
                        /\ Len(parsed) <= Len(request.trades)
  /\ phase \in {"header", "parse"} => pos = 1
  /\ phase = "consume" => pos <= Len(parsed)

TypeInv == TypeOK /\ Progress

(* Roundings leave sums of money integers, and their signs. *)
LEMMA KeptType ==
  ASSUME NEW x \in Int
  PROVE  Kept(x) \in Int /\ (x >= 0 => Kept(x) \in Nat)
<1>1. PICK L \in Nat : L = Pow10[Digits - 1]
  <2>1. Digits - 1 \in Nat
    BY BoundsAssumption
  <2> QED
    BY <2>1, PowersOfTen
<1>2. PICK y \in Int : y = Rounded(x, Digits) /\ (x >= 0 => y >= 0)
  BY <1>1, BoundsAssumption, RoundedBound
<1> QED
  BY <1>2 DEF Kept

LEMMA UnitCostType ==
  ASSUME NEW x \in Nat, NEW d \in Nat \ {0}
  PROVE  UnitCost(x, d) \in Nat
<1>1. PICK L \in Nat : L = Pow10[Digits - 1]
  <2>1. Digits - 1 \in Nat
    BY BoundsAssumption
  <2> QED
    BY <2>1, PowersOfTen
<1>2. PICK y \in Int : y = Quotient(x, d, Digits) /\ (x >= 0 => y >= 0)
  BY <1>1, BoundsAssumption, QuotientBound
<1> QED
  BY <1>2 DEF UnitCost

LEMMA CostType ==
  ASSUME NEW t, t.amount \in Nat, t.price \in Nat, t.fee \in Nat
  PROVE  Cost(t) \in Nat
<1>1. t.amount * t.price * Scale \in Nat /\ t.fee * Scale \in Nat
  BY BoundsAssumption
<1>2. Kept(t.amount * t.price * Scale) \in Nat
  BY <1>1, KeptType
<1>3. Kept(t.amount * t.price * Scale) + t.fee * Scale \in Nat
  BY <1>1, <1>2
<1> QED
  BY <1>3, KeptType DEF Cost

(* A trade that no check refuses has the fields the engine relies on       *)
(* (lots.py:380-403).                                                      *)
LEMMA AcceptedTrade ==
  ASSUME NEW t \in RawTrades, Refusal(t) = "none"
  PROVE  /\ t # NotAnObject
         /\ t.side \in Sides
         /\ Upper[t.asset] \in Assets
         /\ t.amount \in Nat \ {0}
         /\ t.price \in Nat
         /\ t.fee \in Nat
         /\ t.time # NoTime
<1>1. /\ t # NotAnObject
      /\ t.side \in Sides
      /\ t.asset \in DOMAIN Upper
      /\ DecRefusal(t.amount) = "none"
      /\ DecRefusal(t.price) = "none"
      /\ DecRefusal(t.fee) = "none"
      /\ ~(t.amount <= 0 \/ t.price < 0 \/ t.fee < 0)
      /\ t.time # NoTime
  BY DEF Refusal, Negative
<1>2. t.amount \in Int /\ t.price \in Int /\ t.fee \in Int
  BY <1>1 DEF DecRefusal
<1> QED
  BY <1>1, <1>2, UpperAssumption

(* A refusal carries one of the documented codes. *)
LEMMA RefusalType ==
  ASSUME NEW t
  PROVE  Refusal(t) \in ErrorCodes
<1>1. \A v : DecRefusal(v) \in ErrorCodes
  BY DEF DecRefusal, ErrorCodes
<1> QED
  BY <1>1 DEF Refusal, ErrorCodes

(* Every place in the sorted ledger has a slot. *)
LEMMA DomainParsed ==
  ASSUME TypeOK
  PROVE  /\ Len(parsed) \in Nat
         /\ DOMAIN parsed = 1..Len(parsed)
         /\ DOMAIN parsed \subseteq Slots
         /\ \A k \in DOMAIN parsed : parsed[k] \in ParsedTrades
<1>1. parsed \in Seq(ParsedTrades) /\ Len(parsed) <= MaxTrades
  BY DEF TypeOK
<1>2. Len(parsed) \in Nat /\ DOMAIN parsed = 1..Len(parsed)
  BY <1>1
<1>3. DOMAIN parsed \subseteq Slots
  BY <1>1, <1>2, BoundsAssumption DEF Slots
<1>4. \A k \in DOMAIN parsed : parsed[k] \in ParsedTrades
  BY <1>1
<1> QED
  BY <1>2, <1>3, <1>4

(* What is known of the trade being matched. *)
LEMMA CurrentType ==
  ASSUME TypeOK, pos <= Len(parsed)
  PROVE  /\ pos \in Slots /\ pos \in DOMAIN parsed
         /\ Current \in ParsedTrades
         /\ Cost(Current) \in Nat
<1>1. pos \in 1..Len(parsed)
  BY DEF TypeOK
<1>2. pos \in Slots /\ pos \in DOMAIN parsed
  BY <1>1, BoundsAssumption DEF TypeOK, Slots
<1>3. Current \in ParsedTrades
  BY <1>1 DEF TypeOK, Current
<1>4. Current.amount \in Nat /\ Current.price \in Nat /\ Current.fee \in Nat
  BY <1>3 DEF ParsedTrades
<1>5. Cost(Current) \in Nat
  BY <1>4, CostType
<1> QED
  BY <1>2, <1>3, <1>5

LEMMA TypeInit == Init => TypeInv
<1> SUFFICES ASSUME Init PROVE TypeInv
  OBVIOUS
<1>1. TypeOK
  BY BoundsAssumption DEF Init, TypeOK, ErrorCodes, Slots
<1>2. Progress
  BY DEF Init, Progress
<1> QED
  BY <1>1, <1>2 DEF TypeInv

LEMMA TypeStep == TypeInv /\ [Next]_vars => TypeInv'
<1> SUFFICES ASSUME TypeInv, [Next]_vars PROVE TypeInv'
  OBVIOUS
<1> USE DEF TypeInv
<1>1. CASE CheckHeader
  <2>1. HeaderRefusal \in ErrorCodes
    BY DEF HeaderRefusal, ErrorCodes
  <2>2. TypeOK'
    BY <1>1, <2>1 DEF CheckHeader, Fail, TypeOK, inventory, sale, results
  <2>3. Progress'
    <3>1. CASE HeaderRefusal = "none"
      <4>1. request.trades \in Seq(RawTrades) /\ Len(request.trades) <= MaxTrades
        BY <3>1, RequestsAssumption, BoundsAssumption DEF HeaderRefusal, TypeOK
      <4>2. Len(parsed) = 0 /\ Len(request.trades) >= 0
        BY <1>1, <4>1 DEF CheckHeader, Progress, TypeOK
      <4> QED
        BY <1>1, <3>1, <4>1, <4>2 DEF CheckHeader, Progress
    <3>2. CASE HeaderRefusal # "none"
      BY <1>1, <3>2 DEF CheckHeader, Fail, Progress
    <3> QED
      BY <3>1, <3>2
  <2> QED
    BY <2>2, <2>3
<1>2. CASE ParseTrade
  <2> DEFINE i == Len(parsed) + 1
             t == request.trades[i]
             entry == [i |-> i, side |-> t.side, asset |-> Upper[t.asset],
                       amount |-> t.amount, price |-> t.price, fee |-> t.fee,
                       time |-> t.time]
  <2>1. i \in 1..Len(request.trades) /\ i \in Nat
    <3>1. Len(parsed) \in Nat /\ Len(parsed) < Len(request.trades)
      BY <1>2, DomainParsed DEF ParseTrade, Reading
    <3>2. Len(request.trades) \in Nat
      BY <1>2 DEF ParseTrade, Reading, Progress
    <3> QED
      BY <3>1, <3>2
  <2>2. t \in RawTrades
    BY <1>2, <2>1 DEF ParseTrade, Reading, Progress
  <2>3. Refusal(t) = "none" /\ parsed' = Append(parsed, entry)
    BY <1>2 DEF ParseTrade
  <2>4. entry \in ParsedTrades
    <3> HIDE DEF t, i
    <3> QED
      BY <2>1, <2>2, <2>3, AcceptedTrade DEF ParsedTrades
  <2>5. parsed' \in Seq(ParsedTrades) /\ Len(parsed') = i
    <3> HIDE DEF entry
    <3> QED
      BY <2>3, <2>4 DEF TypeOK
  <2>6. i <= MaxTrades /\ phase = "parse" /\ pos = 1
    BY <1>2, <2>1, RequestsAssumption, BoundsAssumption
      DEF ParseTrade, Reading, Progress, TypeOK
  <2> HIDE DEF i
  <2>7. TypeOK'
    BY <1>2, <2>1, <2>5, <2>6 DEF ParseTrade, TypeOK, inventory, sale, results
  <2>8. Progress'
    BY <1>2, <2>1, <2>5, <2>6 DEF ParseTrade, Progress
  <2> QED
    BY <2>7, <2>8
<1>3. CASE RefuseTrade
  <2>1. \A t : Refusal(t) \in ErrorCodes
    BY RefusalType
  <2>2. Len(parsed) + 1 \in Nat
    BY DEF TypeOK
  <2>3. TypeOK'
    BY <1>3, <2>1, <2>2 DEF RefuseTrade, Fail, TypeOK, inventory, sale, results
  <2>4. Progress'
    BY <1>3 DEF RefuseTrade, Fail, Progress
  <2> QED
    BY <2>3, <2>4
<1>4. CASE SortTrades
  <2>1. parsed' \in Seq(ParsedTrades) /\ Len(parsed') = Len(parsed)
    <3>1. CASE Comparable(parsed)
      <4>1. PICK f \in [DOMAIN parsed -> DOMAIN parsed] :
              parsed' = [k \in DOMAIN parsed |-> parsed[f[k]]]
        BY <1>4, <3>1 DEF SortTrades
      <4>2. DOMAIN parsed = 1..Len(parsed) /\ Len(parsed) \in Nat
        BY DomainParsed
      <4>3. \A k \in DOMAIN parsed : parsed[f[k]] \in ParsedTrades
        BY DomainParsed
      <4> QED
        BY <4>1, <4>2, <4>3
    <3>2. CASE ~Comparable(parsed)
      BY <1>4, <3>2 DEF SortTrades, TypeOK
    <3> QED
      BY <3>1, <3>2
  <2>2. TypeOK'
    BY <1>4, <2>1 DEF SortTrades, Fail, TypeOK, ErrorCodes, inventory, sale, results
  <2>3. Progress'
    BY <1>4 DEF SortTrades, Fail, Progress
  <2> QED
    BY <2>2, <2>3
<1>5. CASE OpenLot
  <2>1. pos <= Len(parsed) /\ phase = "match"
    BY <1>5 DEF OpenLot, Matching
  <2>2. Current.amount \in Nat \ {0} /\ Cost(Current) \in Nat /\ pos \in Slots
    BY <2>1, CurrentType DEF ParsedTrades
  <2>4. UnitCost(Cost(Current), Current.amount) \in Nat
    BY <2>2, UnitCostType
  <2>5. held' \in [Slots -> Nat] /\ unitCost' \in [Slots -> Nat]
    BY <1>5, <2>2, <2>4 DEF OpenLot, TypeOK
  <2>6. TypeOK'
    BY <1>5, <2>1, <2>5 DEF OpenLot, TypeOK, sale, results
  <2>7. Progress'
    BY <1>5, <2>1 DEF OpenLot, Progress
  <2> QED
    BY <2>6, <2>7
<1>6. CASE MergeIntoPool
  <2>1. pos <= Len(parsed) /\ phase = "match"
    BY <1>6 DEF MergeIntoPool, Matching
  <2>2. Current.amount \in Nat \ {0} /\ Cost(Current) \in Nat /\ pos \in Slots
    BY <2>1, CurrentType DEF ParsedTrades
  <2>3. PICK pool \in Lots(Current.asset) :
          /\ held' = [held EXCEPT ![pool] = held[pool] + Current.amount]
          /\ unitCost' = [unitCost EXCEPT ![pool] = PoolCost(pool, Current)]
    BY <1>6 DEF MergeIntoPool
  <2>4. pool \in Slots
    BY DomainParsed DEF Lots
  <2>5. held[pool] \in Nat /\ unitCost[pool] \in Nat
    BY <2>4 DEF TypeOK
  <2>6. held[pool] + Current.amount \in Nat \ {0}
    BY <2>2, <2>5
  <2>7. PoolCost(pool, Current) \in Nat
    <3>1. held[pool] * unitCost[pool] \in Nat
      BY <2>5
    <3>2. Kept(held[pool] * unitCost[pool]) \in Nat
      BY <3>1, KeptType
    <3>3. Kept(held[pool] * unitCost[pool]) + Cost(Current) \in Nat
      BY <2>2, <3>2
    <3>4. Kept(Kept(held[pool] * unitCost[pool]) + Cost(Current)) \in Nat
      BY <3>3, KeptType
    <3> QED
      BY <2>6, <3>4, UnitCostType DEF PoolCost
  <2>9. held' \in [Slots -> Nat] /\ unitCost' \in [Slots -> Nat]
    BY <2>3, <2>4, <2>6, <2>7 DEF TypeOK
  <2>10. UNCHANGED <<request, phase, error, parsed, sale, results>> /\ pos' = pos + 1
    BY <1>6 DEF MergeIntoPool
  <2>11. TypeOK'
    BY <2>1, <2>9, <2>10 DEF TypeOK, sale, results
  <2>12. Progress'
    BY <2>1, <2>10 DEF Progress
  <2> QED
    BY <2>11, <2>12
<1>7. CASE RefuseSell
  <2>1. Current.i \in Nat
    BY <1>7, CurrentType DEF RefuseSell, Matching, ParsedTrades
  <2>2. TypeOK'
    BY <1>7, <2>1 DEF RefuseSell, Fail, TypeOK, ErrorCodes, inventory, sale, results
  <2>3. Progress'
    BY <1>7 DEF RefuseSell, Fail, Progress
  <2> QED
    BY <2>2, <2>3
<1>8. CASE BeginSell
  <2>1. Current.amount \in Nat /\ pos <= Len(parsed)
    BY <1>8, CurrentType DEF BeginSell, Matching, ParsedTrades
  <2>2. TypeOK'
    BY <1>8, <2>1 DEF BeginSell, TypeOK, inventory, results
  <2>3. Progress'
    BY <1>8, <2>1 DEF BeginSell, Progress
  <2> QED
    BY <2>2, <2>3
<1>9. CASE ConsumeLot
  <2>1. pos \in Slots /\ phase = "consume" /\ pos <= Len(parsed)
    BY <1>9, CurrentType DEF ConsumeLot, Progress
  <2>2. PICK p \in Lots(Current.asset) :
          LET take == IF held[p] <= remaining THEN held[p] ELSE remaining
          IN  /\ held' = [held EXCEPT ![p] = @ - take]
              /\ remaining' = remaining - take
              /\ basis' = Kept(basis + Kept(take * unitCost[p]))
              /\ taken' = [taken EXCEPT ![pos][p] = @ + take]
    BY <1>9 DEF ConsumeLot, NextLots, Consume
  <2> DEFINE take == IF held[p] <= remaining THEN held[p] ELSE remaining
  <2>3. p \in Slots
    BY DomainParsed DEF Lots
  <2>4. /\ held[p] \in Nat /\ unitCost[p] \in Nat /\ take \in Nat
        /\ remaining \in Nat /\ take <= held[p] /\ take <= remaining
    BY <2>3 DEF TypeOK
  <2> HIDE DEF take
  <2>5. held[p] - take \in Nat /\ remaining - take \in Nat /\ take * unitCost[p] \in Nat
    BY <2>2, <2>4
  <2>6. /\ held' = [held EXCEPT ![p] = @ - take]
        /\ remaining' = remaining - take
        /\ basis' = Kept(basis + Kept(take * unitCost[p]))
        /\ taken' = [taken EXCEPT ![pos][p] = @ + take]
    BY <2>2 DEF take
  <2>7. held' \in [Slots -> Nat] /\ remaining' \in Nat /\ basis' \in Nat
    <3>1. held \in [Slots -> Nat] /\ basis \in Nat
      BY DEF TypeOK
    <3>2. Kept(take * unitCost[p]) \in Nat
      BY <2>5, KeptType
    <3>3. basis + Kept(take * unitCost[p]) \in Nat
      BY <3>1, <3>2
    <3>4. basis' \in Nat
      BY <2>6, <3>3, KeptType
    <3> QED
      BY <2>3, <2>5, <2>6, <3>1, <3>4
  <2>8. taken' \in [Slots -> [Slots -> Nat]]
    <3>1. taken \in [Slots -> [Slots -> Nat]]
      BY DEF TypeOK
    <3> QED
      BY <2>1, <2>3, <2>4, <2>6, <3>1
  <2>9. TypeOK'
    BY <1>9, <2>7, <2>8 DEF ConsumeLot, TypeOK, results
  <2>10. Progress'
    BY <1>9, <2>1 DEF ConsumeLot, Progress
  <2> QED
    BY <2>9, <2>10
<1>10. CASE FinishSell
  <2> DEFINE proceeds == Kept(Kept(Current.amount * Current.price * Scale)
                                - Current.fee * Scale)
  <2>1. pos \in Slots /\ phase = "consume" /\ pos <= Len(parsed)
    BY <1>10, CurrentType DEF FinishSell, Progress
  <2>2. proceeds \in Int
    <3>1. Current.amount \in Int /\ Current.price \in Int /\ Current.fee \in Int
      BY <2>1, CurrentType DEF ParsedTrades
    <3>2. Current.amount * Current.price * Scale \in Int /\ Current.fee * Scale \in Int
      BY <3>1, BoundsAssumption
    <3>3. Kept(Current.amount * Current.price * Scale) \in Int
      BY <3>2, KeptType
    <3>4. Kept(Current.amount * Current.price * Scale) - Current.fee * Scale \in Int
      BY <3>2, <3>3
    <3> QED
      BY <3>4, KeptType
  <2>3. /\ disposals' = Append(disposals,
             [slot |-> pos, proceeds |-> proceeds, basis |-> basis])
        /\ totals' = [proceeds |-> Kept(totals.proceeds + proceeds),
                      basis |-> Kept(totals.basis + basis)]
    BY <1>10 DEF FinishSell
  <2> HIDE DEF proceeds
  <2>4. disposals' \in Seq([slot : Slots, proceeds : Int, basis : Nat])
    <3> DEFINE D == [slot : Slots, proceeds : Int, basis : Nat]
    <3>1. [slot |-> pos, proceeds |-> proceeds, basis |-> basis] \in D
      BY <2>1, <2>2 DEF TypeOK
    <3>2. disposals \in Seq(D)
      BY DEF TypeOK
    <3> HIDE DEF D
    <3>3. disposals' \in Seq(D)
      BY <2>3, <3>1, <3>2
    <3> QED
      BY <3>3 DEF D
  <2>5. totals' \in [proceeds : Int, basis : Nat]
    <3>1. totals.proceeds \in Int /\ totals.basis \in Nat /\ basis \in Nat
      BY DEF TypeOK
    <3>2. totals.proceeds + proceeds \in Int /\ totals.basis + basis \in Nat
      BY <2>2, <3>1
    <3>3. Kept(totals.proceeds + proceeds) \in Int /\ Kept(totals.basis + basis) \in Nat
      BY <3>2, KeptType
    <3> QED
      BY <2>3, <3>3
  <2>6. pos' \in Nat \ {0} /\ pos' <= Len(parsed') + 1
    <3>1. pos' = pos + 1 /\ parsed' = parsed
      BY <1>10 DEF FinishSell
    <3>2. pos \in Nat /\ Len(parsed) \in Nat
      BY DomainParsed DEF TypeOK
    <3> QED
      BY <2>1, <3>1, <3>2
  <2>7. TypeOK'
    BY <1>10, <2>4, <2>5, <2>6 DEF FinishSell, TypeOK, inventory, sale
  <2>8. Progress'
    BY <1>10, <2>1 DEF FinishSell, Progress
  <2> QED
    BY <2>7, <2>8
<1>11. CASE Report
  <2>1. TypeOK'
    BY <1>11 DEF Report, TypeOK, inventory, sale, results
  <2>2. Progress'
    BY <1>11 DEF Report, Progress
  <2> QED
    BY <2>1, <2>2
<1>12. CASE UNCHANGED vars
  <2>1. TypeOK'
    BY <1>12 DEF vars, TypeOK
  <2>2. Progress'
    BY <1>12 DEF vars, Progress
  <2> QED
    BY <2>1, <2>2
<1> QED
  BY <1>1, <1>2, <1>3, <1>4, <1>5, <1>6, <1>7, <1>8, <1>9, <1>10, <1>11, <1>12
    DEF Next, Match

(* Type correctness: no trade with a non-positive amount or a negative     *)
(* price or fee reaches the matching loop, and no lot, remainder or cost   *)
(* ever becomes negative (lots.py:394-397, 452-461).                       *)
THEOREM TypeCorrect == Spec => []TypeOK
<1>1. Spec => []TypeInv
  BY TypeInit, TypeStep, PTL DEF Spec
<1>2. TypeInv => TypeOK
  BY DEF TypeInv
<1> QED
  BY <1>1, <1>2, PTL

(***************************************************************************)
(* The discipline of consumption                                           *)
(*                                                                         *)
(* ConsumptionDiscipline is not inductive by itself: that a preferred lot  *)
(* stays empty needs every lot to be opened once, by its own trade, and    *)
(* every sell to have taken from lots opened before it.                    *)
(***************************************************************************)

(* A slot holds something only after its own buy has been matched. *)
LotsOpened ==
  \A p \in Slots :
    held[p] > 0 => p < pos /\ p \in DOMAIN parsed /\ parsed[p].side = "buy"

MatchInv == LotsOpened /\ LotsOfThePast /\ ConsumptionDiscipline

(* No two lots are each preferred to the other (lots.py:442-450). *)
LEMMA PrecedesStrict ==
  ASSUME TypeOK, NEW p \in Slots, NEW q \in Slots, Precedes(p, q)
  PROVE  ~Precedes(q, p)
<1>1. p \in Int /\ q \in Int /\ unitCost[p] \in Int /\ unitCost[q] \in Int
  BY BoundsAssumption DEF Slots, TypeOK
<1>2. CASE request.method = "LIFO"
  BY <1>1, <1>2 DEF Precedes
<1>3. CASE request.method = "HIFO"
  BY <1>1, <1>3 DEF Precedes
<1>4. CASE request.method \notin {"LIFO", "HIFO"}
  BY <1>1, <1>4 DEF Precedes
<1> QED
  BY <1>2, <1>3, <1>4

(* While the request is being read, no slot holds or has given anything. *)
LEMMA NothingMatched ==
  ASSUME TypeInv, LotsOpened, LotsOfThePast, phase \in {"header", "parse"}
  PROVE  \A s, p \in Slots : ~(held[p] > 0) /\ ~(taken[s][p] > 0)
<1>1. pos = 1 /\ \A p \in Slots : p \in Nat /\ p >= 1
  BY BoundsAssumption DEF TypeInv, Progress, Slots
<1> QED
  BY <1>1 DEF LotsOpened, LotsOfThePast

(* A step that leaves the sorted ledger and the lots alone keeps all three *)
LEMMA MatchFrame ==
  ASSUME TypeInv, MatchInv, pos' \in {pos, pos + 1},
         UNCHANGED <<request, parsed, held, unitCost, taken>>
  PROVE  MatchInv'
<1>1. pos \in Nat /\ pos' \in Nat /\ pos <= pos'
  BY DEF TypeInv, TypeOK
<1>2. \A p \in Slots : p \in Int
  BY BoundsAssumption DEF Slots
<1>3. LotsOpened'
  BY <1>1, <1>2 DEF MatchInv, LotsOpened
<1>4. LotsOfThePast'
  BY <1>1, <1>2 DEF MatchInv, LotsOfThePast, Bought
<1>5. ConsumptionDiscipline'
  BY DEF MatchInv, ConsumptionDiscipline, Pooled, Bought, Precedes
<1> QED
  BY <1>3, <1>4, <1>5 DEF MatchInv

(* A step that reads the request keeps all three, for want of lots. *)
LEMMA MatchReading ==
  ASSUME TypeInv, MatchInv, phase \in {"header", "parse"},
         UNCHANGED <<held, taken>>
  PROVE  MatchInv'
<1>1. \A s, p \in Slots : ~(held[p] > 0) /\ ~(taken[s][p] > 0)
  BY NothingMatched DEF MatchInv
<1> QED
  BY <1>1 DEF MatchInv, LotsOpened, LotsOfThePast, ConsumptionDiscipline

LEMMA MatchInit == Init => MatchInv
<1> SUFFICES ASSUME Init PROVE MatchInv
  OBVIOUS
<1>1. \A s, p \in Slots : held[p] = 0 /\ taken[s][p] = 0
  BY DEF Init
<1> QED
  BY <1>1 DEF MatchInv, LotsOpened, LotsOfThePast, ConsumptionDiscipline

LEMMA MatchStep == TypeInv /\ TypeInv' /\ MatchInv /\ [Next]_vars => MatchInv'
<1> SUFFICES ASSUME TypeInv, TypeInv', MatchInv, [Next]_vars PROVE MatchInv'
  OBVIOUS
<1>0. TypeOK
  BY DEF TypeInv
<1>1. CASE CheckHeader
  BY <1>1, MatchReading DEF CheckHeader, inventory, sale
<1>2. CASE ParseTrade \/ RefuseTrade
  BY <1>2, MatchReading DEF ParseTrade, RefuseTrade, Reading, inventory, sale
<1>3. CASE SortTrades
  BY <1>3, MatchReading DEF SortTrades, inventory, sale
<1>4. CASE OpenLot
  <2>1. /\ pos \in Slots /\ pos \in DOMAIN parsed /\ pos \in Int
        /\ pos' = pos + 1 /\ parsed[pos].side = "buy"
    <3>1. pos <= Len(parsed) /\ Current.side = "buy" /\ pos' = pos + 1
      BY <1>4 DEF OpenLot, Matching
    <3>2. pos \in Slots /\ pos \in DOMAIN parsed
      BY <1>0, <3>1, CurrentType
    <3>3. pos \in Int
      BY <1>0 DEF TypeOK
    <3> QED
      BY <3>1, <3>2, <3>3 DEF Current
  <2>2. \A p \in Slots : p # pos =>
          held'[p] = held[p] /\ unitCost'[p] = unitCost[p]
    BY <1>4 DEF OpenLot, TypeInv, TypeOK
  <2>3. UNCHANGED <<request, parsed, taken>>
    BY <1>4 DEF OpenLot, sale
  <2>4. \A p \in Slots : p \in Int
    BY BoundsAssumption DEF Slots
  <2>5. LotsOpened'
    BY <2>1, <2>2, <2>3, <2>4 DEF MatchInv, LotsOpened
  <2>6. LotsOfThePast'
    BY <2>1, <2>3, <2>4 DEF MatchInv, LotsOfThePast, Bought
  <2>7. ConsumptionDiscipline'
    <3> SUFFICES ASSUME ~Pooled', NEW s \in Slots, NEW p \in Slots, NEW q \in Slots,
                        taken'[s][p] > 0, q < s, q # p,
                        Bought(q, parsed[s].asset)', Precedes(q, p)'
                 PROVE  held'[q] = 0
      BY <2>3 DEF ConsumptionDiscipline
    <3>1. p < s /\ s <= pos
      BY <2>3 DEF MatchInv, LotsOfThePast
    <3>2. p # pos /\ q # pos
      BY <2>1, <2>4, <3>1
    <3>3. Precedes(q, p)
      BY <2>2, <2>3, <3>2 DEF Precedes
    <3>4. held[q] = 0
      BY <2>3, <3>3 DEF MatchInv, ConsumptionDiscipline, Pooled, Bought
    <3> QED
      BY <2>2, <3>2, <3>4
  <2> QED
    BY <2>5, <2>6, <2>7 DEF MatchInv
<1>5. CASE MergeIntoPool
  <2>1. PICK pool \in Lots(Current.asset) :
          held' = [held EXCEPT ![pool] = held[pool] + Current.amount]
    BY <1>5 DEF MergeIntoPool
  <2>2. pool \in Slots /\ held[pool] > 0
    BY <1>0, DomainParsed DEF Lots
  <2>3. \A p \in Slots : held'[p] > 0 => held[p] > 0
    BY <1>0, <2>1, <2>2 DEF TypeOK
  <2>4. UNCHANGED <<request, parsed, taken>> /\ pos' = pos + 1 /\ Pooled
    BY <1>5 DEF MergeIntoPool, sale
  <2>5. pos \in Int /\ \A p \in Slots : p \in Int
    BY <1>0, BoundsAssumption DEF TypeOK, Slots
  <2>6. LotsOpened'
    BY <2>3, <2>4, <2>5 DEF MatchInv, LotsOpened
  <2>7. LotsOfThePast'
    BY <2>4, <2>5 DEF MatchInv, LotsOfThePast, Bought
  <2>8. ConsumptionDiscipline'
    BY <2>4 DEF ConsumptionDiscipline, Pooled
  <2> QED
    BY <2>6, <2>7, <2>8 DEF MatchInv
<1>6. CASE RefuseSell \/ BeginSell \/ FinishSell \/ Report
  BY <1>6, MatchFrame
    DEF RefuseSell, BeginSell, FinishSell, Report, inventory, sale
<1>7. CASE ConsumeLot
  <2>1. pos \in Slots /\ pos \in DOMAIN parsed /\ pos \in Int
    BY <1>0, <1>7, CurrentType DEF ConsumeLot, TypeInv, Progress, TypeOK
  <2>2. PICK lot \in Lots(Current.asset) :
          LET take == IF held[lot] <= remaining THEN held[lot] ELSE remaining
          IN  /\ \A q \in Lots(Current.asset) \ {lot} : Precedes(lot, q)
              /\ held' = [held EXCEPT ![lot] = @ - take]
              /\ taken' = [taken EXCEPT ![pos][lot] = @ + take]
    BY <1>7 DEF ConsumeLot, NextLots, Consume
  <2> DEFINE take == IF held[lot] <= remaining THEN held[lot] ELSE remaining
  <2>3. lot \in Slots /\ lot \in DOMAIN parsed /\ held[lot] > 0
        /\ parsed[lot].asset = parsed[pos].asset
    BY <1>0, DomainParsed DEF Lots, Current
  <2>4. take \in Nat /\ held[lot] \in Nat /\ take <= held[lot]
    BY <1>0, <2>3 DEF TypeOK
  <2>5. /\ held' = [held EXCEPT ![lot] = @ - take]
        /\ taken' = [taken EXCEPT ![pos][lot] = @ + take]
    BY <2>2
  <2> HIDE DEF take
  <2>6. \A p \in Slots : held[p] \in Nat /\ held'[p] \in Nat /\ held'[p] <= held[p]
    <3>1. held \in [Slots -> Nat]
      BY <1>0 DEF TypeOK
    <3> QED
      BY <2>3, <2>4, <2>5, <3>1
  <2>7. \A s, p \in Slots : taken'[s][p] > 0 => taken[s][p] > 0 \/ (s = pos /\ p = lot)
    BY <1>0, <2>1, <2>3, <2>5 DEF TypeOK
  <2>8. UNCHANGED <<request, parsed, pos, unitCost>>
    BY <1>7 DEF ConsumeLot
  <2>9. \A p \in Slots : p \in Int
    BY BoundsAssumption DEF Slots
  <2>10. LotsOpened'
    BY <2>6, <2>8 DEF MatchInv, LotsOpened
  <2>11. LotsOfThePast'
    <3>1. lot < pos /\ pos <= pos /\ Bought(lot, parsed[pos].asset)
      BY <2>1, <2>3 DEF MatchInv, LotsOpened, Bought
    <3> QED
      BY <2>7, <2>8, <3>1 DEF MatchInv, LotsOfThePast, Bought
  <2>12. ConsumptionDiscipline'
    <3> SUFFICES ASSUME ~Pooled', NEW s \in Slots, NEW p \in Slots, NEW q \in Slots,
                        taken'[s][p] > 0, q < s, q # p,
                        Bought(q, parsed[s].asset)', Precedes(q, p)'
                 PROVE  held'[q] = 0
      BY <2>8 DEF ConsumptionDiscipline
    <3>1. ~Pooled /\ Bought(q, parsed[s].asset) /\ Precedes(q, p)
      BY <2>8 DEF Pooled, Bought, Precedes
    <3>2. held[q] = 0
      <4>1. CASE taken[s][p] > 0
        BY <3>1, <4>1 DEF MatchInv, ConsumptionDiscipline
      <4>2. CASE s = pos /\ p = lot
        <5>1. ~Precedes(lot, q)
          BY <1>0, <2>3, <3>1, <4>2, PrecedesStrict
        <5>2. q \notin Lots(Current.asset)
          BY <2>2, <4>2, <5>1
        <5>3. ~(held[q] > 0)
          BY <3>1, <4>2, <5>2 DEF Lots, Bought, Current
        <5> QED
          BY <2>6, <5>3
      <4> QED
        BY <2>7, <4>1, <4>2
    <3> QED
      BY <2>6, <3>2
  <2> QED
    BY <2>10, <2>11, <2>12 DEF MatchInv
<1>8. CASE UNCHANGED vars
  BY <1>8, MatchFrame DEF vars
<1> QED
  BY <1>1, <1>2, <1>3, <1>4, <1>5, <1>6, <1>7, <1>8 DEF Next, Match

LEMMA MatchInvariant == Spec => [](TypeInv /\ MatchInv)
<1>1. Init => TypeInv /\ MatchInv
  BY TypeInit, MatchInit
<1>2. TypeInv /\ MatchInv /\ [Next]_vars => (TypeInv /\ MatchInv)'
  BY TypeStep, MatchStep
<1> QED
  BY <1>1, <1>2, PTL DEF Spec

(* FIFO, LIFO and HIFO hold to their order across a whole ledger           *)
(* (lots.py:17): no lot that the method prefers is left behind by a sell   *)
(* that touches another.                                                   *)
THEOREM DisciplineHolds == Spec => []ConsumptionDiscipline
<1>1. TypeInv /\ MatchInv => ConsumptionDiscipline
  BY DEF MatchInv
<1> QED
  BY <1>1, MatchInvariant, PTL

(* A sell never consumes a lot of another asset, or one bought at a later  *)
(* place of the sorted ledger (lots.py:415-416, 432).                      *)
THEOREM PastHolds == Spec => []LotsOfThePast
<1>1. TypeInv /\ MatchInv => LotsOfThePast
  BY DEF MatchInv
<1> QED
  BY <1>1, MatchInvariant, PTL

(***************************************************************************)
(* Quantities                                                              *)
(***************************************************************************)

(* What the sell at slot s has consumed so far. *)
Sold(s) == SumFunction(taken[s])

(* Only the sell in progress and those before it have consumed anything. *)
TrailsOfThePast ==
  \A s, p \in Slots : taken[s][p] > 0 => s < pos \/ phase = "consume"

(* The sell in progress is a sell; it still has to consume what it has not *)
(* consumed yet, and there is enough left for that.                        *)
SellInProgress ==
  phase = "consume" =>
    /\ Current.side = "sell"
    /\ remaining + Sold(pos) = Current.amount
    /\ remaining <= Available(Current.asset)

(* A sell that is over was honoured in full. *)
SellsHonoured ==
  \A k \in DOMAIN disposals :
    /\ disposals[k].slot < pos
    /\ disposals[k].slot \in DOMAIN parsed
    /\ Sold(disposals[k].slot) = parsed[disposals[k].slot].amount

QuantityInv == TrailsOfThePast /\ SellInProgress /\ SellsHonoured /\ LotsConserved

Inv == TypeInv /\ MatchInv /\ QuantityInv

(***************************************************************************)
(* Sums over slots                                                         *)
(***************************************************************************)

LEMMA SlotsFinite == IsFiniteSet(Slots) /\ \A p \in Slots : p \in Nat /\ p > 0
BY BoundsAssumption, FS_Interval DEF Slots

(* The lots of an asset are among the slots, and hold something. *)
LEMMA LotsType ==
  ASSUME TypeOK, NEW a
  PROVE  /\ Lots(a) \subseteq Slots /\ IsFiniteSet(Lots(a))
         /\ \A p \in Lots(a) : held[p] \in Nat /\ held[p] > 0
<1>1. Lots(a) \subseteq Slots
  BY DomainParsed DEF Lots
<1>2. IsFiniteSet(Lots(a))
  BY <1>1, SlotsFinite, FS_Subset
<1> QED
  BY <1>1, <1>2 DEF Lots, TypeOK

LEMMA AvailableType ==
  ASSUME TypeOK, NEW a
  PROVE  /\ Available(a) \in Nat
         /\ Lots(a) = {} => Available(a) = 0
         /\ \A p \in Lots(a) : held[p] <= Available(a)
BY LotsType, SumNat DEF Available

LEMMA SoldType ==
  ASSUME TypeOK, NEW s \in Slots
  PROVE  /\ Sold(s) \in Nat
         /\ (\A p \in Slots : ~(taken[s][p] > 0)) => Sold(s) = 0
<1>1. taken[s] \in [Slots -> Nat] /\ DOMAIN taken[s] = Slots
  BY DEF TypeOK
<1>2. \A p \in Slots : taken[s][p] \in Nat
  BY <1>1
<1>3. (\A p \in Slots : ~(taken[s][p] > 0)) => \A p \in Slots : taken[s][p] = 0
  BY <1>2
<1> QED
  BY <1>1, <1>2, <1>3, SlotsFinite, SumNat DEF Sold, SumFunction

LEMMA DisposalsType ==
  ASSUME TypeOK
  PROVE  /\ Len(disposals) \in Nat /\ DOMAIN disposals = 1..Len(disposals)
         /\ \A k \in DOMAIN disposals :
              disposals[k].slot \in Slots /\ disposals[k].slot \in Nat
<1> DEFINE D == [slot : Slots, proceeds : Int, basis : Nat]
<1>1. disposals \in Seq(D)
  BY DEF TypeOK
<1>2. \A d \in D : d.slot \in Slots /\ d.slot \in Nat
  BY SlotsFinite
<1> HIDE DEF D
<1>3. /\ Len(disposals) \in Nat /\ DOMAIN disposals = 1..Len(disposals)
      /\ \A k \in 1..Len(disposals) : disposals[k] \in D
  BY <1>1
<1> QED
  BY <1>2, <1>3

(***************************************************************************)
(* One round of the loop over the lots                                     *)
(***************************************************************************)

(* What a round takes leaves a lot of the asset being sold and reaches the *)
(* trail of the sell; nothing else changes (lots.py:454-463).              *)
LEMMA RoundMoves ==
  ASSUME TypeInv, TypeInv', ConsumeLot
  PROVE  \E p \in Lots(Current.asset), n \in Nat \ {0} :
           /\ n <= remaining /\ n <= held[p] /\ remaining' = remaining - n
           /\ n = held[p] \/ n = remaining
           /\ held' = [held EXCEPT ![p] = held[p] - n]
           /\ taken' = [taken EXCEPT ![pos][p] = taken[pos][p] + n]
           /\ basis' = Kept(basis + Kept(n * unitCost[p]))
           /\ Sold(pos)' = Sold(pos) + n
           /\ Available(Current.asset)' = Available(Current.asset) - n
<1>0. TypeOK /\ TypeOK' /\ phase = "consume" /\ UNCHANGED <<parsed, pos>>
  BY DEF TypeInv, ConsumeLot
<1>1. PICK p \in NextLots :
        Consume(p, IF held[p] <= remaining THEN held[p] ELSE remaining)
  BY DEF ConsumeLot
<1> DEFINE n == IF held[p] <= remaining THEN held[p] ELSE remaining
           a == Current.asset
<1>2. p \in Lots(a) /\ p \in Slots
  BY <1>0, <1>1, LotsType DEF NextLots
<1>3. remaining \in Nat /\ held \in [Slots -> Nat] /\ taken \in [Slots -> [Slots -> Nat]]
  BY <1>0 DEF TypeOK
<1>4. /\ n \in Nat /\ n <= remaining /\ n <= held[p] /\ held[p] \in Nat
      /\ n = held[p] \/ n = remaining
      /\ n # 0
  <2>1. remaining > 0 /\ held[p] > 0
    BY <1>2 DEF ConsumeLot, Lots
  <2> QED
    BY <1>2, <1>3, <2>1
<1>5. pos \in Slots
  BY <1>0, CurrentType DEF TypeInv, Progress
<1>6. /\ remaining' = remaining - n
      /\ held' = [held EXCEPT ![p] = held[p] - n]
      /\ taken' = [taken EXCEPT ![pos][p] = taken[pos][p] + n]
      /\ basis' = Kept(basis + Kept(n * unitCost[p]))
  BY <1>1, <1>3 DEF Consume
<1> HIDE DEF n
<1>7. Sold(pos)' = Sold(pos) + n
  <2> DEFINE f == taken[pos]
             g == taken'[pos]
  <2>1. f \in [Slots -> Nat] /\ g = [f EXCEPT ![p] = f[p] + n]
    BY <1>2, <1>3, <1>5, <1>6
  <2>2. DOMAIN f = Slots /\ DOMAIN g = Slots /\ f[p] \in Nat /\ g[p] = f[p] + n
    BY <1>2, <2>1
  <2>3. /\ \A x \in Slots : f[x] \in Int /\ g[x] \in Int
        /\ \A x \in Slots \ {p} : f[x] = g[x]
    BY <1>2, <1>4, <2>1
  <2> HIDE DEF f, g
  <2>4. SumFunctionOnSet(g, Slots) = SumFunctionOnSet(f, Slots) - f[p] + g[p]
    BY <1>2, <2>3, SlotsFinite, SumChange
  <2>5. SumFunctionOnSet(f, Slots) \in Int
    BY <2>3, SlotsFinite, SumRemove
  <2>6. SumFunctionOnSet(g, Slots) = SumFunctionOnSet(f, Slots) + n
    BY <1>4, <2>2, <2>4, <2>5
  <2> QED
    BY <1>0, <2>2, <2>6 DEF Sold, SumFunction, f, g
<1>8. Available(a)' = Available(a) - n
  <2> DEFINE S == Lots(a)
             T == Lots(a)'
  <2>1. /\ S = {q \in DOMAIN parsed : parsed[q].asset = a /\ held[q] > 0}
        /\ T = {q \in DOMAIN parsed : parsed[q].asset = a /\ held'[q] > 0}
    BY <1>0 DEF Lots, Current
  <2>2. S \subseteq Slots /\ IsFiniteSet(S)
    BY <1>0, LotsType
  <2>3. /\ \A q \in S : held[q] \in Int /\ held'[q] \in Int /\ held'[q] >= 0
        /\ \A q \in S \ {p} : held[q] = held'[q]
        /\ held'[p] = held[p] - n
    BY <1>2, <1>3, <1>4, <1>6, <2>2
  <2>4. T \subseteq S /\ \A q \in S \ T : held'[q] = 0
    BY <1>2, <1>3, <1>4, <1>6, <2>1, <2>2, <2>3
  <2> HIDE DEF S, T
  <2>5. p \in S
    BY <1>2 DEF S
  <2>6. SumFunctionOnSet(held', S) = SumFunctionOnSet(held, S) - held[p] + held'[p]
    BY <2>2, <2>3, <2>5, SumChange
  <2>7. SumFunctionOnSet(held', T) = SumFunctionOnSet(held', S)
    BY <2>2, <2>3, <2>4, SumSupport
  <2>8. SumFunctionOnSet(held, S) \in Int
    BY <2>2, <2>3, SumRemove
  <2>9. SumFunctionOnSet(held', T) = SumFunctionOnSet(held, S) - n
    BY <1>4, <2>3, <2>6, <2>7, <2>8
  <2> QED
    BY <1>0, <2>9 DEF Available, S, T, Current
<1> QED
  BY <1>2, <1>4, <1>6, <1>7, <1>8, <1>0 DEF Current

(***************************************************************************)
(* The invariant                                                           *)
(***************************************************************************)

LEMMA QuantityInit == Init => QuantityInv
<1> SUFFICES ASSUME Init PROVE QuantityInv
  OBVIOUS
<1>1. /\ \A s, p \in Slots : taken[s][p] = 0
      /\ phase = "header" /\ DOMAIN disposals = {} /\ pos = 1
  BY DEF Init
<1>2. Buys = {}
  BY <1>1 DEF Buys
<1> QED
  BY <1>1, <1>2
    DEF QuantityInv, TrailsOfThePast, SellInProgress, SellsHonoured, LotsConserved

(* A step that leaves the sorted ledger, the lots, the trails and the      *)
(* results alone, and does not start a sell, keeps all four.               *)
LEMMA QuantityFrame ==
  ASSUME Inv, UNCHANGED <<request, parsed, pos, held, taken, disposals>>,
         \/ phase # "consume" /\ phase' # "consume"
         \/ UNCHANGED <<phase, remaining>>
  PROVE  QuantityInv'
<1>1. TrailsOfThePast'
  BY DEF Inv, QuantityInv, TrailsOfThePast
<1>2. SellInProgress'
  BY DEF Inv, QuantityInv, SellInProgress, Current, Sold, Available, Lots
<1>3. SellsHonoured'
  BY DEF Inv, QuantityInv, SellsHonoured, Sold
<1>4. LotsConserved'
  BY DEF Inv, QuantityInv, LotsConserved, Pooled, Buys
<1> QED
  BY <1>1, <1>2, <1>3, <1>4 DEF QuantityInv

(* A step that reads the request keeps all four, for want of lots.         *)
LEMMA QuantityReading ==
  ASSUME Inv, phase \in {"header", "parse"}, phase' # "consume",
         UNCHANGED <<pos, held, taken, disposals>>
  PROVE  QuantityInv'
<1>1. \A s, p \in Slots : ~(taken[s][p] > 0)
  BY NothingMatched DEF Inv, MatchInv
<1>2. pos = 1 /\ pos' = 1
  BY DEF Inv, TypeInv, Progress
<1>3. DOMAIN disposals = {}
  <2>1. \A k \in DOMAIN disposals :
          disposals[k].slot \in Slots /\ disposals[k].slot < 1
    BY <1>2, DisposalsType DEF Inv, TypeInv, QuantityInv, SellsHonoured
  <2>2. \A p \in Slots : ~(p < 1)
    BY SlotsFinite
  <2> QED
    BY <2>1, <2>2
<1>4. Buys' = {}
  BY <1>2 DEF Buys
<1> QED
  BY <1>1, <1>3, <1>4
    DEF QuantityInv, TrailsOfThePast, SellInProgress, SellsHonoured, LotsConserved

(* A lot that was not opened yet has not been consumed.                    *)
LEMMA NotYetConsumed ==
  ASSUME Inv, NEW p \in Slots, pos <= p
  PROVE  SumFunction([s \in Slots |-> taken[s][p]]) = 0
<1> DEFINE f == [s \in Slots |-> taken[s][p]]
<1>1. \A s \in Slots : taken[s][p] \in Nat
  BY DEF Inv, TypeInv, TypeOK
<1>2. \A s \in Slots : ~(taken[s][p] > 0)
  <2>1. pos \in Nat
    BY DEF Inv, TypeInv, TypeOK
  <2> QED
    BY <2>1, SlotsFinite DEF Inv, MatchInv, LotsOfThePast
<1>3. \A s \in Slots : f[s] \in Nat /\ f[s] = 0
  BY <1>1, <1>2
<1>4. DOMAIN f = Slots
  OBVIOUS
<1> HIDE DEF f
<1>5. SumFunction(f) = 0
  BY <1>3, <1>4, SlotsFinite, SumNat DEF SumFunction
<1> QED
  BY <1>5 DEF f

LEMMA QuantityStep == Inv /\ TypeInv' /\ [Next]_vars => QuantityInv'
<1> SUFFICES ASSUME Inv, TypeInv', [Next]_vars PROVE QuantityInv'
  OBVIOUS
<1>0. /\ TypeInv /\ TypeOK /\ TypeOK' /\ MatchInv
      /\ TrailsOfThePast /\ SellInProgress /\ SellsHonoured /\ LotsConserved
      /\ pos \in Nat
  BY DEF Inv, TypeInv, QuantityInv, TypeOK
<1>1. CASE CheckHeader
  BY <1>1, QuantityReading DEF CheckHeader, Fail, inventory, sale, results
<1>2. CASE ParseTrade \/ RefuseTrade
  BY <1>2, QuantityReading
    DEF ParseTrade, RefuseTrade, Reading, Fail, inventory, sale, results
<1>3. CASE SortTrades
  BY <1>3, QuantityReading DEF SortTrades, Fail, inventory, sale, results
<1>4. CASE OpenLot
  <2>1. /\ phase = "match" /\ phase' = phase /\ pos' = pos + 1
        /\ Current.side = "buy" /\ pos <= Len(parsed)
        /\ UNCHANGED <<request, parsed, taken, disposals>>
        /\ held' = [held EXCEPT ![pos] = Current.amount]
    BY <1>4 DEF OpenLot, Matching, sale, results
  <2>2. pos \in Slots /\ pos \in DOMAIN parsed /\ Current.amount \in Nat
    BY <1>0, <2>1, CurrentType DEF ParsedTrades
  <2>3. TrailsOfThePast'
    BY <1>0, <2>1, SlotsFinite DEF TrailsOfThePast
  <2>4. SellInProgress'
    BY <2>1 DEF SellInProgress
  <2>5. SellsHonoured'
    <3>1. \A k \in DOMAIN disposals : disposals[k].slot \in Nat
      BY <1>0, DisposalsType
    <3> QED
      BY <1>0, <2>1, <3>1 DEF SellsHonoured, Sold
  <2>6. LotsConserved'
    <3> SUFFICES ASSUME ~Pooled', NEW p \in Buys'
                 PROVE  held'[p] + SumFunction([s \in Slots |-> taken[s][p]])
                          = parsed[p].amount
      BY <2>1 DEF LotsConserved
    <3>1. p \in 1..pos /\ parsed[p].side = "buy"
      BY <1>0, <2>1 DEF Buys
    <3>2. CASE p = pos
      <4>1. SumFunction([s \in Slots |-> taken[s][p]]) = 0
        BY <1>0, <2>2, <3>2, NotYetConsumed
      <4>2. held'[p] = parsed[p].amount
        BY <1>0, <2>1, <2>2, <3>2 DEF TypeOK, Current
      <4> QED
        BY <2>2, <3>2, <4>1, <4>2 DEF Current
    <3>3. CASE p # pos
      <4>1. p \in Buys /\ held'[p] = held[p]
        BY <1>0, <2>1, <2>2, <3>1, <3>3 DEF Buys, TypeOK
      <4> QED
        BY <1>0, <2>1, <4>1 DEF LotsConserved, Pooled
    <3> QED
      BY <3>2, <3>3
  <2> QED
    BY <2>3, <2>4, <2>5, <2>6 DEF QuantityInv
<1>5. CASE MergeIntoPool
  <2>1. /\ phase = "match" /\ phase' = phase /\ pos' = pos + 1 /\ Pooled
        /\ UNCHANGED <<request, parsed, taken, disposals>>
    BY <1>5 DEF MergeIntoPool, Matching, sale, results
  <2>2. TrailsOfThePast'
    BY <1>0, <2>1, SlotsFinite DEF TrailsOfThePast
  <2>3. SellInProgress'
    BY <2>1 DEF SellInProgress
  <2>4. SellsHonoured'
    <3>1. \A k \in DOMAIN disposals : disposals[k].slot \in Nat
      BY <1>0, DisposalsType
    <3> QED
      BY <1>0, <2>1, <3>1 DEF SellsHonoured, Sold
  <2>5. LotsConserved'
    BY <2>1 DEF LotsConserved, Pooled
  <2> QED
    BY <2>2, <2>3, <2>4, <2>5 DEF QuantityInv
<1>6. CASE RefuseSell \/ Report
  BY <1>6, QuantityFrame
    DEF RefuseSell, Report, Matching, Fail, inventory, sale, results
<1>7. CASE BeginSell
  <2>1. /\ phase = "match" /\ phase' = "consume" /\ remaining' = Current.amount
        /\ Current.side = "sell" /\ pos <= Len(parsed) /\ ~Oversold
        /\ UNCHANGED <<request, parsed, pos, held, taken, disposals>>
    BY <1>7 DEF BeginSell, Matching, inventory, results
  <2>2. pos \in Slots /\ Current.amount \in Nat
    BY <1>0, <2>1, CurrentType DEF ParsedTrades
  <2>3. TrailsOfThePast'
    BY <2>1 DEF TrailsOfThePast
  <2>4. SellInProgress'
    <3>1. \A p \in Slots : ~(taken[pos][p] > 0)
      <4>1. ~(pos < pos) /\ phase # "consume"
        BY <1>0, <2>1
      <4> QED
        BY <1>0, <2>2, <4>1 DEF TrailsOfThePast
    <3>2. Sold(pos) = 0
      BY <1>0, <2>2, <3>1, SoldType
    <3>3. Current.amount <= Available(Current.asset)
      BY <1>0, <2>1, <2>2, AvailableType DEF Oversold
    <3>4. /\ Current' = Current /\ Sold(pos)' = Sold(pos)
          /\ Available(Current.asset)' = Available(Current.asset)
      BY <2>1 DEF Current, Sold, Available, Lots
    <3> QED
      BY <2>1, <2>2, <3>2, <3>3, <3>4 DEF SellInProgress
  <2>5. SellsHonoured'
    BY <1>0, <2>1 DEF SellsHonoured, Sold
  <2>6. LotsConserved'
    BY <1>0, <2>1 DEF LotsConserved, Pooled, Buys
  <2> QED
    BY <2>3, <2>4, <2>5, <2>6 DEF QuantityInv
<1>8. CASE ConsumeLot
  <2>1. /\ phase = "consume" /\ phase' = phase
        /\ UNCHANGED <<request, parsed, pos, disposals>>
    BY <1>8 DEF ConsumeLot, results
  <2>2. PICK p \in Lots(Current.asset), n \in Nat :
           /\ n <= remaining /\ n <= held[p] /\ remaining' = remaining - n
           /\ held' = [held EXCEPT ![p] = held[p] - n]
           /\ taken' = [taken EXCEPT ![pos][p] = taken[pos][p] + n]
           /\ Sold(pos)' = Sold(pos) + n
           /\ Available(Current.asset)' = Available(Current.asset) - n
    BY <1>0, <1>8, RoundMoves
  <2>3. p \in Slots /\ pos \in Slots /\ held[p] \in Nat /\ remaining \in Nat
    BY <1>0, <2>1, LotsType, CurrentType DEF TypeInv, Progress, TypeOK
  <2>4. TrailsOfThePast'
    BY <2>1 DEF TrailsOfThePast
  <2>5. SellInProgress'
    <3>1. Current' = Current
      BY <2>1 DEF Current
    <3>2. Sold(pos) \in Nat /\ Available(Current.asset) \in Nat
      BY <1>0, <2>3, SoldType, AvailableType
    <3>3. /\ Current.side = "sell" /\ remaining + Sold(pos) = Current.amount
          /\ remaining <= Available(Current.asset)
      BY <1>0, <2>1 DEF SellInProgress
    <3>4. /\ remaining' + Sold(pos)' = Current.amount
          /\ remaining' <= Available(Current.asset)'
      BY <2>2, <2>3, <3>2, <3>3
    <3> QED
      BY <3>1, <3>3, <3>4 DEF SellInProgress
  <2>6. SellsHonoured'
    <3>1. \A s \in Slots : s < pos => taken'[s] = taken[s]
      BY <1>0, <2>2, <2>3, SlotsFinite DEF TypeOK
    <3>2. \A k \in DOMAIN disposals : disposals[k].slot \in Slots
      BY <1>0, DisposalsType
    <3>3. \A k \in DOMAIN disposals : Sold(disposals[k].slot)' = Sold(disposals[k].slot)
      BY <1>0, <2>1, <3>1, <3>2 DEF SellsHonoured, Sold
    <3> QED
      BY <1>0, <2>1, <3>3 DEF SellsHonoured
  <2>7. LotsConserved'
    <3> SUFFICES ASSUME ~Pooled', NEW q \in Buys'
                 PROVE  held'[q] + SumFunction([s \in Slots |-> taken'[s][q]])
                          = parsed[q].amount
      BY <2>1 DEF LotsConserved
    <3> DEFINE f == [s \in Slots |-> taken[s][q]]
               g == [s \in Slots |-> taken'[s][q]]
    <3>1. q \in Buys /\ held[q] + SumFunction(f) = parsed[q].amount
      BY <1>0, <2>1 DEF LotsConserved, Pooled, Buys
    <3>2. q \in Slots
      <4>1. q \in 1..Len(parsed)
        <5>1. q \in 1..(pos - 1)
          BY <3>1 DEF Buys
        <5>2. pos <= Len(parsed) /\ Len(parsed) \in Nat
          BY <1>0, <2>1, DomainParsed DEF TypeInv, Progress
        <5> QED
          BY <1>0, <5>1, <5>2
      <4> QED
        BY <1>0, <4>1, DomainParsed
    <3>3. /\ held \in [Slots -> Nat] /\ taken \in [Slots -> [Slots -> Nat]]
          /\ held' \in [Slots -> Nat] /\ taken' \in [Slots -> [Slots -> Nat]]
      BY <1>0 DEF TypeOK
    <3>4. CASE q = p
      <4>1. /\ \A s \in Slots : f[s] \in Int /\ g[s] \in Int
            /\ \A s \in Slots \ {pos} : f[s] = g[s]
            /\ g[pos] = f[pos] + n /\ f[pos] \in Nat
            /\ DOMAIN f = Slots /\ DOMAIN g = Slots
        BY <2>2, <2>3, <3>2, <3>3, <3>4
      <4>2. held'[q] = held[q] - n /\ held[q] \in Nat
        BY <2>2, <2>3, <3>3, <3>4
      <4> HIDE DEF f, g
      <4>3. SumFunctionOnSet(g, Slots) = SumFunctionOnSet(f, Slots) - f[pos] + g[pos]
        BY <2>3, <4>1, SlotsFinite, SumChange
      <4>4. SumFunctionOnSet(f, Slots) \in Int
        BY <4>1, SlotsFinite, SumRemove
      <4>5. SumFunction(g) = SumFunction(f) + n /\ SumFunction(f) \in Int
        BY <4>1, <4>3, <4>4 DEF SumFunction
      <4>6. held'[q] + SumFunction(g) = held[q] + SumFunction(f)
        BY <4>2, <4>5
      <4> QED
        BY <3>1, <4>6 DEF g
    <3>5. CASE q # p
      <4>1. held'[q] = held[q] /\ \A s \in Slots : taken'[s][q] = taken[s][q]
        BY <2>2, <2>3, <3>2, <3>3, <3>5
      <4>2. g = f
        BY <4>1
      <4> QED
        BY <3>1, <4>1, <4>2
    <3> QED
      BY <3>4, <3>5
  <2> QED
    BY <2>4, <2>5, <2>6, <2>7 DEF QuantityInv
<1>9. CASE FinishSell
  <2>1. /\ phase = "consume" /\ phase' = "match" /\ pos' = pos + 1
        /\ remaining = 0 \/ Lots(Current.asset) = {}
        /\ UNCHANGED <<request, parsed, held, taken>>
    BY <1>9 DEF FinishSell, inventory, sale
  <2>2. PICK r, b : disposals' = Append(disposals, [slot |-> pos, proceeds |-> r, basis |-> b])
    BY <1>9 DEF FinishSell
  <2>3. /\ pos \in Slots /\ pos \in DOMAIN parsed /\ Current.amount \in Nat
        /\ Current.side = "sell"
    BY <1>0, <2>1, CurrentType DEF TypeInv, Progress, ParsedTrades, SellInProgress
  <2>4. TrailsOfThePast'
    BY <1>0, <2>1, SlotsFinite DEF MatchInv, LotsOfThePast, TrailsOfThePast
  <2>5. SellInProgress'
    BY <2>1 DEF SellInProgress
  <2>6. SellsHonoured'
    <3>1. remaining = 0
      <4>1. remaining \in Nat /\ remaining <= Available(Current.asset)
        BY <1>0, <2>1 DEF SellInProgress, TypeOK
      <4>2. Lots(Current.asset) = {} => Available(Current.asset) = 0
        BY <1>0, AvailableType
      <4> QED
        BY <2>1, <4>1, <4>2
    <3>2. Sold(pos) = parsed[pos].amount
      BY <1>0, <2>1, <2>3, <3>1, SoldType DEF SellInProgress, Current
    <3>3. \A k \in DOMAIN disposals' :
            \/ k \in DOMAIN disposals /\ disposals'[k] = disposals[k]
            \/ disposals'[k].slot = pos
      <4> DEFINE d == [slot |-> pos, proceeds |-> r, basis |-> b]
      <4>1. d.slot = pos
        OBVIOUS
      <4>2. disposals \in Seq([slot : Slots, proceeds : Int, basis : Nat])
        BY <1>0 DEF TypeOK
      <4> HIDE DEF d
      <4>3. disposals' = Append(disposals, d)
        BY <2>2 DEF d
      <4>4. /\ Len(disposals) \in Nat /\ DOMAIN disposals = 1..Len(disposals)
            /\ DOMAIN disposals' = 1..(Len(disposals) + 1)
            /\ \A k \in 1..Len(disposals) : disposals'[k] = disposals[k]
            /\ disposals'[Len(disposals) + 1] = d
        BY <4>2, <4>3
      <4> QED
        BY <4>1, <4>4
    <3>4. \A k \in DOMAIN disposals : disposals[k].slot \in Nat
      BY <1>0, DisposalsType
    <3> QED
      BY <1>0, <2>1, <2>3, <3>2, <3>3, <3>4 DEF SellsHonoured, Sold
  <2>7. LotsConserved'
    <3>1. Buys' = Buys
      BY <1>0, <2>1, <2>3 DEF Buys, Current
    <3> QED
      BY <1>0, <2>1, <3>1 DEF LotsConserved, Pooled
  <2> QED
    BY <2>4, <2>5, <2>6, <2>7 DEF QuantityInv
<1>10. CASE UNCHANGED vars
  BY <1>10, QuantityFrame DEF vars
<1> QED
  BY <1>1, <1>2, <1>3, <1>4, <1>5, <1>6, <1>7, <1>8, <1>9, <1>10 DEF Next, Match

LEMMA Invariant == Spec => []Inv
<1>1. Init => Inv
  BY TypeInit, MatchInit, QuantityInit DEF Inv
<1>2. Inv /\ [Next]_vars => Inv'
  BY TypeStep, MatchStep, QuantityStep DEF Inv
<1> QED
  BY <1>1, <1>2, PTL DEF Spec

(* Under FIFO, LIFO and HIFO every unit of a lot is sold at most once      *)
(* (lots.py:458-460, 465), in any ledger.                                  *)
THEOREM LotsAreConserved == Spec => []LotsConserved
<1>1. Inv => LotsConserved
  BY DEF Inv, QuantityInv
<1> QED
  BY <1>1, Invariant, PTL

(* "Never a silently clamped number" (lots.py:8): whatever is asked of the *)
(* engine, a completed disposal has consumed its full amount.              *)
THEOREM NothingIsClamped == Spec => []NoSilentClamp
<1>1. Inv => NoSilentClamp
  BY DEF Inv, QuantityInv, SellInProgress, SellsHonoured, Sold, NoSilentClamp
<1> QED
  BY <1>1, Invariant, PTL

(***************************************************************************)
(* The position of an asset                                                *)
(***************************************************************************)

(* While the request is being read nothing is held. *)
LEMMA NothingAvailable ==
  ASSUME Inv, phase \in {"header", "parse"}
  PROVE  \A a : Available(a) = 0
<1>1. TypeOK
  BY DEF Inv, TypeInv
<1>2. \A p \in Slots : ~(held[p] > 0)
  BY NothingMatched DEF Inv, MatchInv
<1>3. \A a : Lots(a) = {}
  BY <1>1, <1>2, LotsType
<1> QED
  BY <1>1, <1>3, AvailableType

(* A change of one lot does not change what is held of another asset. *)
LEMMA OtherAssets ==
  ASSUME TypeOK, TypeOK', NEW a, NEW p \in Slots, parsed[p].asset # a,
         UNCHANGED parsed, \A q \in Slots \ {p} : held'[q] = held[q]
  PROVE  Available(a)' = Available(a)
<1> DEFINE S == Lots(a)
<1>1. S \subseteq Slots /\ IsFiniteSet(S) /\ \A q \in S : held[q] \in Nat /\ q # p
  BY LotsType DEF Lots
<1>2. Lots(a)' = {q \in DOMAIN parsed : parsed[q].asset = a /\ held'[q] > 0}
  BY DEF Lots
<1>3. Lots(a)' = S
  BY <1>2, DomainParsed DEF Lots
<1>4. \A q \in S : held[q] \in Int /\ held[q] = held'[q]
  BY <1>1
<1> HIDE DEF S
<1>5. SumFunctionOnSet(held, S) = SumFunctionOnSet(held', S)
  BY <1>1, <1>4, SumAgree
<1>6. Available(a)' = SumFunctionOnSet(held', Lots(a)')
  BY DEF Available
<1> QED
  BY <1>3, <1>5, <1>6 DEF Available, S

(* What is added to a lot is added to what is held of its asset. *)
LEMMA LotGrows ==
  ASSUME TypeOK, TypeOK', NEW a, NEW p \in DOMAIN parsed, parsed[p].asset = a,
         NEW n \in Nat \ {0},
         UNCHANGED parsed, held' = [held EXCEPT ![p] = held[p] + n]
  PROVE  Available(a)' = Available(a) + n
<1> DEFINE S == Lots(a)
           T == Lots(a) \cup {p}
           g == held'
<1>1. p \in Slots /\ held \in [Slots -> Nat]
  BY DomainParsed DEF TypeOK
<1>2. /\ S \subseteq T /\ T \subseteq Slots /\ IsFiniteSet(T)
      /\ p \in T /\ \A q \in T \ S : held[q] = 0
  <2>1. S \subseteq Slots
    BY LotsType
  <2>2. T \subseteq Slots /\ IsFiniteSet(T)
    BY <1>1, <2>1, SlotsFinite, FS_Subset
  <2>3. p \notin S => held[p] = 0
    BY <1>1 DEF Lots
  <2> QED
    BY <2>2, <2>3
<1>3. Lots(a)' = {q \in DOMAIN parsed : parsed[q].asset = a /\ held'[q] > 0}
  BY DEF Lots
<1>4. Lots(a)' = T
  <2>1. held'[p] = held[p] + n /\ held[p] \in Nat
        /\ \A q \in Slots \ {p} : held'[q] = held[q]
    BY <1>1
  <2>2. held'[p] > 0
    BY <2>1
  <2> QED
    BY <1>3, <2>1, <2>2, DomainParsed DEF Lots
<1>5. /\ \A q \in T : held[q] \in Int /\ g[q] \in Int
      /\ \A q \in T \ {p} : held[q] = g[q]
      /\ g[p] = held[p] + n
  BY <1>1, <1>2
<1>6. Available(a)' = SumFunctionOnSet(g, Lots(a)')
  BY DEF Available
<1> HIDE DEF S, T, g
<1>7. SumFunctionOnSet(held, S) = SumFunctionOnSet(held, T)
  BY <1>2, <1>5, SumSupport
<1>8. SumFunctionOnSet(g, T) = SumFunctionOnSet(held, T) - held[p] + g[p]
  BY ONLY <1>2, <1>5, SumChange
<1>9. SumFunctionOnSet(held, T) \in Int
  BY <1>2, <1>5, SumRemove
<1>10. SumFunctionOnSet(g, T) = SumFunctionOnSet(held, S) + n
  BY <1>1, <1>5, <1>7, <1>8, <1>9
<1> QED
  BY <1>4, <1>6, <1>10 DEF Available, S

(* Between two trades the position is what is held. *)
LEMMA PositionAtRest ==
  TypeOK /\ phase # "consume" => Position = [a \in Assets |-> Available(a)]
<1>1. TypeOK => \A a \in Assets : Available(a) + 0 = Available(a)
  BY AvailableType
<1> QED
  BY <1>1 DEF Position

(* In a sell, what it took so far counts as well. *)
LEMMA PositionInSale ==
  TypeOK /\ phase = "consume" =>
    Position = [a \in Assets |-> 
      IF Current.asset = a THEN Available(a) + Sold(pos) ELSE Available(a)]
<1>1. TypeOK => \A a \in Assets : Available(a) + 0 = Available(a)
  BY AvailableType
<1> QED
  BY <1>1 DEF Position, Sold

(* A buy adds its amount to the position of its asset. *)
LEMMA PositionGrows ==
  ASSUME TypeOK, TypeOK', phase = "match", phase' = "match", UNCHANGED parsed,
         pos <= Len(parsed),
         NEW p \in DOMAIN parsed, parsed[p].asset = Current.asset,
         held' = [held EXCEPT ![p] = held[p] + Current.amount]
  PROVE  Position' = [Position EXCEPT
                        ![Current.asset] = Position[Current.asset] + Current.amount]
<1>1. Current.asset \in Assets /\ Current.amount \in Nat \ {0}
  BY CurrentType DEF ParsedTrades
<1>2. p \in Slots /\ \A q \in Slots \ {p} : held'[q] = held[q]
  BY DomainParsed DEF TypeOK
<1>3. \A a \in Assets : a = Current.asset =>
        Available(a)' = Available(a) + Current.amount
  <2> SUFFICES ASSUME NEW a \in Assets, a = Current.asset,
                      NEW n \in Nat \ {0}, n = Current.amount
               PROVE  Available(a)' = Available(a) + n
    BY <1>1
  <2> QED
    BY LotGrows
<1>4. \A a \in Assets : a # Current.asset => Available(a)' = Available(a)
  BY <1>2, OtherAssets
<1>5. Position = [a \in Assets |-> Available(a)]
  BY PositionAtRest
<1>6. Position' = [a \in Assets |-> Available(a)']
  <2>1. (TypeOK /\ phase # "consume")'
    OBVIOUS
  <2>2. (TypeOK /\ phase # "consume" => Position = [a \in Assets |-> Available(a)])'
    BY PositionAtRest, PTL
  <2> QED
    BY <2>1, <2>2
<1> QED
  BY <1>1, <1>3, <1>4, <1>5, <1>6

(***************************************************************************)
(* The other variables of the position ledger                              *)
(***************************************************************************)

(* Before the ledger is in order, there is none. *)
LEMMA StatusOpen ==
  phase \in {"header", "parse"} => Status = "open" /\ OrderedLedger = <<>>
BY DEF Status, OrderedLedger

(* A failure other than an oversell leaves no ledger behind. *)
LEMMA StatusMalformed ==
  phase = "failed" /\ error.code # "INSUFFICIENT_INVENTORY" =>
    Status = "malformed" /\ OrderedLedger = <<>>
BY DEF Status, OrderedLedger

LEMMA StatusOrdered ==
  \/ phase \in {"match", "consume", "done"}
  \/ phase = "failed" /\ error.code = "INSUFFICIENT_INVENTORY"
  =>
  /\ Status = CASE phase \in {"match", "consume"} -> "running"
                [] phase = "done" -> "complete"
                [] OTHER -> "refused"
  /\ OrderedLedger = [k \in DOMAIN parsed |-> Entry(parsed[k])]
BY DEF Status, OrderedLedger

(* What is refused before the matching starts is not an oversell. *)
LEMMA RefusalsOfReading ==
  /\ \A t : Refusal(t) # "INSUFFICIENT_INVENTORY"
  /\ HeaderRefusal # "INSUFFICIENT_INVENTORY"
<1>1. \A v : DecRefusal(v) # "INSUFFICIENT_INVENTORY"
  BY DEF DecRefusal
<1> QED
  BY <1>1 DEF Refusal, HeaderRefusal

LEMMA SlotsOfParsed == TypeOK => DOMAIN parsed \subseteq Slots
BY DomainParsed

(* The ordered ledger is a ledger of the specification. *)
LEMMA EntriesType ==
  TypeOK => [k \in DOMAIN parsed |-> Entry(parsed[k])] \in Seq(Positions!Entries)
<1> SUFFICES ASSUME TypeOK
             PROVE  [k \in DOMAIN parsed |-> Entry(parsed[k])] \in Seq(Positions!Entries)
  OBVIOUS
<1>1. \A k \in DOMAIN parsed : Entry(parsed[k]) \in Positions!Entries
  BY DomainParsed DEF ParsedTrades, Entry, Sides, Positions!Entries
<1> QED
  BY <1>1, DomainParsed

(* The trade being matched is the entry that is due. *)
LEMMA EntryDue ==
  ASSUME TypeOK, phase \in {"match", "consume"}, pos <= Len(parsed)
  PROVE  /\ Positions!Due
         /\ OrderedLedger[pos].side = Current.side
         /\ OrderedLedger[pos].asset = Current.asset
         /\ OrderedLedger[pos].amount = Current.amount
<1>1. pos \in DOMAIN parsed
  BY CurrentType
<1>2. Status = "running" /\ OrderedLedger = [k \in DOMAIN parsed |-> Entry(parsed[k])]
  BY StatusOrdered
<1> QED
  BY <1>1, <1>2 DEF Positions!Due, Entry, Current

(***************************************************************************)
(* Every step is a step of the position ledger, or none                    *)
(***************************************************************************)

LEMMA RefinementInit == Init => Positions!Init
<1> SUFFICES ASSUME Init PROVE Positions!Init
  OBVIOUS
<1>1. Inv /\ TypeOK
  BY TypeInit, MatchInit, QuantityInit DEF Inv, TypeInv
<1>2. phase = "header" /\ pos = 1
  BY DEF Init
<1>3. Status = "open" /\ OrderedLedger = <<>>
  BY <1>2, StatusOpen
<1>4. Position = [a \in Assets |-> 0]
  BY <1>1, <1>2, PositionAtRest, NothingAvailable
<1> QED
  BY <1>2, <1>3, <1>4 DEF Positions!Init

(* Reading the request is Load, or nothing. *)
LEMMA RefinementReading ==
  ASSUME Inv, Inv', CheckHeader \/ ParseTrade \/ RefuseTrade \/ SortTrades
  PROVE  Positions!Load \/ UNCHANGED Positions!vars
<1>1. TypeOK /\ TypeOK' /\ phase \in {"header", "parse"} /\ UNCHANGED pos
  BY DEF Inv, TypeInv, CheckHeader, ParseTrade, RefuseTrade, Reading, SortTrades
<1>2. Status = "open" /\ OrderedLedger = <<>>
  BY <1>1, StatusOpen
<1>3. phase' # "consume" /\ UNCHANGED <<held, taken>>
  BY DEF CheckHeader, ParseTrade, RefuseTrade, Reading, SortTrades, Fail, inventory, sale
<1>4. UNCHANGED Position
  <2>1. Position = [a \in Assets |-> 0]
    BY <1>1, PositionAtRest, NothingAvailable
  <2>2. \A p \in Slots : ~(held'[p] > 0)
    BY <1>1, <1>3, NothingMatched DEF Inv, MatchInv
  <2>3. \A a : Lots(a)' = {}
    <3>1. DOMAIN parsed' \subseteq Slots
      <4>1. (TypeOK => DOMAIN parsed \subseteq Slots)'
        BY SlotsOfParsed, PTL
      <4> QED
        BY <1>1, <4>1
    <3>2. \A a : Lots(a)' = {p \in DOMAIN parsed' : parsed'[p].asset = a /\ held'[p] > 0}
      BY DEF Lots
    <3> QED
      BY <2>2, <3>1, <3>2
  <2>4. \A a : Available(a)' = SumFunctionOnSet(held', {})
    BY <2>3 DEF Available
  <2>5. SumFunctionOnSet(held', {}) = 0
    BY FS_EmptySet, SumRemove
  <2> QED
    BY <1>3, <2>1, <2>4, <2>5 DEF Position
<1>5. CASE phase' \in {"header", "parse"}
  <2>1. (Status = "open" /\ OrderedLedger = <<>>)'
    BY <1>5 DEF Status, OrderedLedger
  <2> QED
    BY <1>1, <1>2, <1>4, <2>1 DEF Positions!vars
<1>6. CASE phase' = "match"
  <2>1. (Status = "running" /\ OrderedLedger = [k \in DOMAIN parsed |-> Entry(parsed[k])])'
    BY <1>6 DEF Status, OrderedLedger
  <2>2. OrderedLedger' \in Seq(Positions!Entries)
    <3>1. (TypeOK =>
            [k \in DOMAIN parsed |-> Entry(parsed[k])] \in Seq(Positions!Entries))'
      BY EntriesType, PTL
    <3> QED
      BY <1>1, <2>1, <3>1 DEF Positions!Entries
  <2> QED
    BY <1>1, <1>2, <1>4, <2>1, <2>2 DEF Positions!Load
<1>7. CASE phase' = "failed"
  <2>1. error'.code # "INSUFFICIENT_INVENTORY"
    BY <1>7, RefusalsOfReading
      DEF CheckHeader, ParseTrade, RefuseTrade, Reading, SortTrades, Fail
  <2>2. (Status = "malformed" /\ OrderedLedger = <<>>)'
    BY <1>7, <2>1 DEF Status, OrderedLedger
  <2> QED
    BY <1>1, <1>2, <1>4, <2>2 DEF Positions!Load
<1> QED
  BY <1>1, <1>5, <1>6, <1>7
    DEF CheckHeader, ParseTrade, RefuseTrade, Reading, SortTrades, Fail

(* A buy is Acquire. *)
LEMMA RefinementBuy ==
  ASSUME Inv, Inv', OpenLot \/ MergeIntoPool
  PROVE  Positions!Acquire
<1>1. /\ TypeOK /\ TypeOK' /\ phase = "match" /\ phase' = "match"
      /\ pos <= Len(parsed) /\ Current.side = "buy"
      /\ pos' = pos + 1 /\ UNCHANGED <<parsed, error>>
  BY DEF Inv, TypeInv, OpenLot, MergeIntoPool, Matching
<1>2. PICK p \in DOMAIN parsed :
        /\ parsed[p].asset = Current.asset
        /\ held' = [held EXCEPT ![p] = held[p] + Current.amount]
  <2>1. CASE OpenLot
    <3>1. pos \in Slots /\ pos \in DOMAIN parsed /\ Current.amount \in Nat
      BY <1>1, CurrentType DEF ParsedTrades
    <3>2. held[pos] = 0
      <4>1. held[pos] \in Nat /\ pos \in Nat
        BY <1>1, <3>1 DEF TypeOK
      <4>2. ~(held[pos] > 0)
        BY <3>1, <4>1 DEF Inv, MatchInv, LotsOpened
      <4> QED
        BY <4>1, <4>2
    <3>3. held[pos] + Current.amount = Current.amount
      BY <3>1, <3>2
    <3>4. held' = [held EXCEPT ![pos] = Current.amount]
      BY <2>1 DEF OpenLot
    <3> QED
      BY <3>1, <3>3, <3>4 DEF Current
  <2>2. CASE MergeIntoPool
    BY <2>2 DEF MergeIntoPool, Lots
  <2> QED
    BY <2>1, <2>2
<1>3. Position' = [Position EXCEPT
                     ![Current.asset] = Position[Current.asset] + Current.amount]
  BY <1>1, <1>2, PositionGrows
<1>4. /\ Positions!Due
      /\ OrderedLedger[pos].side = Current.side
      /\ OrderedLedger[pos].asset = Current.asset
      /\ OrderedLedger[pos].amount = Current.amount
  BY <1>1, EntryDue
<1>5. UNCHANGED <<Status, OrderedLedger>>
  BY <1>1 DEF Status, OrderedLedger
<1> QED
  BY <1>1, <1>3, <1>4, <1>5 DEF Positions!Acquire

(* An oversell is Refuse. *)
LEMMA RefinementRefusal ==
  ASSUME Inv, RefuseSell
  PROVE  Positions!Refuse
<1>1. /\ TypeOK /\ phase = "match" /\ phase' = "failed"
      /\ error'.code = "INSUFFICIENT_INVENTORY"
      /\ pos <= Len(parsed) /\ Current.side = "sell" /\ Oversold
      /\ UNCHANGED <<parsed, pos, held, taken>>
  BY DEF Inv, TypeInv, RefuseSell, Matching, Fail, inventory, sale
<1>2. Current.asset \in Assets /\ Position[Current.asset] = Available(Current.asset)
  BY <1>1, CurrentType, PositionAtRest DEF ParsedTrades
<1>3. /\ Positions!Due
      /\ OrderedLedger[pos].side = Current.side
      /\ OrderedLedger[pos].asset = Current.asset
      /\ OrderedLedger[pos].amount = Current.amount
  BY <1>1, EntryDue
<1>4. UNCHANGED Position
  BY <1>1 DEF Position, Available, Lots
<1>5. Status' = "refused" /\ UNCHANGED OrderedLedger
  BY <1>1 DEF Status, OrderedLedger
<1> QED
  BY <1>1, <1>2, <1>3, <1>4, <1>5 DEF Positions!Refuse, Oversold

(* A sell that begins changes no position: it has taken nothing yet. *)
LEMMA RefinementBegin ==
  ASSUME Inv, Inv', BeginSell
  PROVE  UNCHANGED Positions!vars
<1>1. /\ TypeOK /\ TypeOK' /\ phase = "match" /\ phase' = "consume"
      /\ pos <= Len(parsed)
      /\ UNCHANGED <<parsed, pos, held, taken, error>>
  BY DEF Inv, TypeInv, BeginSell, Matching, inventory
<1>2. Sold(pos) = 0
  <2>1. pos \in Slots /\ pos \in Nat
    BY <1>1, CurrentType DEF TypeOK
  <2>2. ~(pos < pos) /\ phase # "consume"
    BY <1>1, <2>1
  <2>3. \A p \in Slots : ~(taken[pos][p] > 0)
    BY <2>1, <2>2 DEF Inv, QuantityInv, TrailsOfThePast
  <2> QED
    BY <1>1, <2>1, <2>3, SoldType
<1>3. UNCHANGED Position
  <2>1. SumFunction(taken[pos]) = 0
    BY <1>2 DEF Sold
  <2>2. \A a : Available(a)' = Available(a) /\ Current' = Current
    BY <1>1 DEF Available, Lots, Current
  <2> QED
    BY <1>1, <2>1, <2>2 DEF Position
<1>4. UNCHANGED <<Status, OrderedLedger>>
  BY <1>1 DEF Status, OrderedLedger
<1> QED
  BY <1>1, <1>3, <1>4 DEF Positions!vars

(* What a round takes from the lots the trail of the sell gains. *)
LEMMA RefinementRound ==
  ASSUME Inv, Inv', ConsumeLot
  PROVE  UNCHANGED Positions!vars
<1>1. /\ TypeInv /\ TypeInv' /\ TypeOK /\ TypeOK'
      /\ phase = "consume" /\ phase' = "consume" /\ pos <= Len(parsed)
      /\ UNCHANGED <<parsed, pos, error>>
  BY DEF Inv, TypeInv, Progress, ConsumeLot
<1>2. PICK p \in Lots(Current.asset), n \in Nat :
        /\ held' = [held EXCEPT ![p] = held[p] - n]
        /\ Sold(pos)' = Sold(pos) + n
        /\ Available(Current.asset)' = Available(Current.asset) - n
  BY <1>1, RoundMoves
<1>3. p \in Slots /\ parsed[p].asset = Current.asset
  BY <1>1, LotsType DEF Lots
<1>4. \A q \in Slots \ {p} : held'[q] = held[q]
  BY <1>1, <1>2, <1>3 DEF TypeOK
<1>5. Current' = Current
  BY <1>1 DEF Current
<1>6. UNCHANGED Position
  <2>1. /\ Position = [a \in Assets |->
             IF Current.asset = a THEN Available(a) + Sold(pos) ELSE Available(a)]
        /\ Position' = [a \in Assets |->
             IF Current.asset = a THEN Available(a)' + Sold(pos)' ELSE Available(a)']
    <3>1. (TypeOK /\ phase = "consume")'
      BY <1>1
    <3>2. (TypeOK /\ phase = "consume" =>
             Position = [a \in Assets |->
               IF Current.asset = a THEN Available(a) + Sold(pos) ELSE Available(a)])'
      BY PositionInSale, PTL
    <3> QED
      BY <1>1, <1>5, <3>1, <3>2, PositionInSale
  <2>2. \A a \in Assets : a # Current.asset => Available(a)' = Available(a)
    BY <1>1, <1>3, <1>4, OtherAssets
  <2>3. \A a \in Assets : a = Current.asset =>
          Available(a)' + Sold(pos)' = Available(a) + Sold(pos)
    <3>1. Available(Current.asset) \in Int /\ Sold(pos) \in Int
      BY <1>1, CurrentType, AvailableType, SoldType
    <3>2. \A a \in Assets : a = Current.asset =>
            Available(a)' = Available(Current.asset)'
      BY <1>5
    <3> QED
      BY <1>2, <3>1, <3>2
  <2> QED
    BY <2>1, <2>2, <2>3
<1>7. UNCHANGED <<Status, OrderedLedger>>
  BY <1>1 DEF Status, OrderedLedger
<1> QED
  BY <1>1, <1>6, <1>7 DEF Positions!vars

(* The end of a sell is Dispose: it has taken its full amount. *)
LEMMA RefinementSell ==
  ASSUME Inv, Inv', FinishSell
  PROVE  Positions!Dispose
<1>1. /\ TypeOK /\ TypeOK' /\ phase = "consume" /\ phase' = "match"
      /\ pos <= Len(parsed) /\ pos' = pos + 1
      /\ remaining = 0 \/ Lots(Current.asset) = {}
      /\ UNCHANGED <<parsed, held, taken, error>>
  BY DEF Inv, TypeInv, Progress, FinishSell, inventory, sale
<1>2. /\ Current.side = "sell" /\ remaining + Sold(pos) = Current.amount
      /\ remaining <= Available(Current.asset)
  BY <1>1 DEF Inv, QuantityInv, SellInProgress
<1>3. /\ pos \in Slots /\ Current.asset \in Assets /\ Current.amount \in Nat
      /\ remaining \in Nat /\ Sold(pos) \in Nat
      /\ \A a \in Assets : Available(a) \in Nat
      /\ Lots(Current.asset) = {} => Available(Current.asset) = 0
  BY <1>1, CurrentType, SoldType, AvailableType DEF ParsedTrades, TypeOK
<1>4. Sold(pos) = Current.amount
  BY <1>1, <1>2, <1>3
<1>5. Position = [a \in Assets |->
        IF Current.asset = a THEN Available(a) + Sold(pos) ELSE Available(a)]
  BY <1>1, PositionInSale
<1>6. Position' = [a \in Assets |-> Available(a)]
  <2>1. (TypeOK /\ phase # "consume")'
    BY <1>1
  <2>2. (TypeOK /\ phase # "consume" => Position = [a \in Assets |-> Available(a)])'
    BY PositionAtRest, PTL
  <2>3. \A a : Available(a)' = Available(a)
    BY <1>1 DEF Available, Lots
  <2> QED
    BY <2>1, <2>2, <2>3
<1>7. /\ Position[Current.asset] = Available(Current.asset) + Current.amount
      /\ Current.amount <= Position[Current.asset]
      /\ Position' = [Position EXCEPT
                        ![Current.asset] = Position[Current.asset] - Current.amount]
  <2>1. Position[Current.asset] = Available(Current.asset) + Current.amount
    BY <1>3, <1>4, <1>5
  <2>2. Position[Current.asset] - Current.amount = Available(Current.asset)
    BY <1>3, <2>1
  <2>3. Current.amount <= Position[Current.asset]
    BY <1>3, <2>1
  <2> QED
    BY <1>3, <1>5, <1>6, <2>1, <2>2, <2>3
<1>8. /\ Positions!Due
      /\ OrderedLedger[pos].side = Current.side
      /\ OrderedLedger[pos].asset = Current.asset
      /\ OrderedLedger[pos].amount = Current.amount
  BY <1>1, EntryDue
<1>9. UNCHANGED <<Status, OrderedLedger>>
  BY <1>1 DEF Status, OrderedLedger
<1> QED
  BY <1>1, <1>2, <1>7, <1>8, <1>9 DEF Positions!Dispose

(* The report is Complete. *)
LEMMA RefinementReport ==
  ASSUME Inv, Report
  PROVE  Positions!Complete
<1>1. /\ TypeOK /\ phase = "match" /\ phase' = "done" /\ pos > Len(parsed)
      /\ UNCHANGED <<parsed, pos, held, taken, error>>
  BY DEF Inv, TypeInv, Report, inventory, sale
<1>2. Status = "running" /\ OrderedLedger = [k \in DOMAIN parsed |-> Entry(parsed[k])]
  BY <1>1, StatusOrdered
<1>3. Len(OrderedLedger) = Len(parsed)
  BY <1>1, <1>2, DomainParsed
<1>4. UNCHANGED Position
  BY <1>1 DEF Position, Available, Lots
<1>5. Status' = "complete" /\ UNCHANGED OrderedLedger
  BY <1>1 DEF Status, OrderedLedger
<1> QED
  BY <1>1, <1>2, <1>3, <1>4, <1>5 DEF Positions!Complete

LEMMA RefinementStep ==
  Inv /\ Inv' /\ [Next]_vars => [Positions!Next]_(Positions!vars)
<1> SUFFICES ASSUME Inv, Inv', [Next]_vars
             PROVE  Positions!Next \/ UNCHANGED Positions!vars
  OBVIOUS
<1>1. CASE CheckHeader \/ ParseTrade \/ RefuseTrade \/ SortTrades
  BY <1>1, RefinementReading DEF Positions!Next
<1>2. CASE OpenLot \/ MergeIntoPool
  BY <1>2, RefinementBuy DEF Positions!Next
<1>3. CASE RefuseSell
  BY <1>3, RefinementRefusal DEF Positions!Next
<1>4. CASE BeginSell
  BY <1>4, RefinementBegin
<1>5. CASE ConsumeLot
  BY <1>5, RefinementRound
<1>6. CASE FinishSell
  BY <1>6, RefinementSell DEF Positions!Next
<1>7. CASE Report
  BY <1>7, RefinementReport DEF Positions!Next
<1>8. CASE UNCHANGED vars
  BY <1>8 DEF vars, Positions!vars, Status, OrderedLedger, Position, Available,
              Lots, Current
<1> QED
  BY <1>1, <1>2, <1>3, <1>4, <1>5, <1>6, <1>7, <1>8 DEF Next, Match

(* The engine honours a ledger entry by entry, up to its end or up to the  *)
(* first sell that exceeds the position, whatever the method and however   *)
(* long the ledger (lots.py:6-8, 415-440).                                 *)
THEOREM EngineImplementsPositions == Spec => ImplementsPositions
<1>1. Init => Positions!Init
  BY RefinementInit
<1>2. Inv /\ Inv' /\ [Next]_vars => [Positions!Next]_(Positions!vars)
  BY RefinementStep
<1>3. Spec => []Inv
  BY Invariant
<1> QED
  BY <1>1, <1>2, <1>3, PTL DEF Spec, ImplementsPositions, Positions!Spec
===============================================================================
