------------------------------ MODULE LotLedger ------------------------------
(***************************************************************************)
(* The tax-lot engine: _calculate of evm_canon/lots.py, the computation    *)
(* behind /lots, /lots/fifo, /lots/lifo, /lots/hifo, /lots/acb and the     *)
(* narrowed views.  One behaviour is one call: the request is checked,     *)
(* its trades are parsed one by one, sorted, and matched one by one; a     *)
(* sell consumes lots one by one.                                          *)
(*                                                                         *)
(* Quantities, prices and fees are integers (a decimal in its smallest     *)
(* unit).  What is computed from a price, that is every cost, unit cost    *)
(* and sum of money, is an integer number of 1/Scale, the finest fraction  *)
(* the decimal context has.  Each product, sum and quotient of money is    *)
(* rounded half to even to Digits significant digits, as the context of    *)
(* calculate_lots does (lots.py:60-63).  Sums of amounts are taken to fit. *)
(*                                                                         *)
(* The code keeps, per asset, a list of lots in the order they were        *)
(* bought, and drops a lot once it is empty.  Here a lot is named by the   *)
(* slot (the place in the sorted ledger) of the buy that opened it;        *)
(* held[p] is what is left of it, and the list of an asset is the          *)
(* increasing sequence of its slots with something left.                   *)
(***************************************************************************)
EXTENDS DecimalMath, Integers, Sequences, FiniteSets, Functions

CONSTANTS
  RawTrades,     \* trades as they may appear in a payload
  Requests,      \* the calls considered: records [method, trades]
  Assets,        \* asset symbols after upper-casing
  Upper,         \* how each spelling of an asset is upper-cased
  MaxTrades,     \* MAX_TRADES
  Digits,        \* PRECISION, 50
  Scale,         \* fractions of the quote unit, down to the least exponent
  MilliFrom,     \* 10**12: a number this large denotes milliseconds
  PerSecond,     \* 1000 milliseconds
  FloatLiteral,  \* a JSON float where a decimal string is expected
  NotANumber,    \* anything else Decimal() does not read, or a missing field
  Infinite,      \* "Infinity", which Decimal() does read
  NoTime,        \* a missing or null time
  NotAnObject,   \* a trade that is not a JSON object
  NoRaw,         \* in place of the trades: a raw that is not a JSON object
  NotAList       \* trades that are missing or not an array

ASSUME RequestsAssumption ==
  /\ \A r \in Requests : r.trades \in Seq(RawTrades) \cup {NoRaw, NotAList}
  /\ {NoRaw, NotAList} \cap Seq(RawTrades) = {}
ASSUME UpperAssumption == \A s \in DOMAIN Upper : Upper[s] \in Assets
ASSUME BoundsAssumption == 
  /\ MaxTrades \in Nat
  /\ Digits \in Nat \ {0} /\ Scale \in Nat \ {0}
  /\ MilliFrom \in Nat /\ PerSecond \in Nat \ {0}

(* A rounding to Digits digits is off by one part in 2 * Parts at most.    *)
Parts == Pow10[Digits - 1]

(* A call rounds less often than that: no more than five times a trade and *)
(* twice for each lot a sell touches.  In the code 5 * 1000 + 2 * 1000^2   *)
(* is far below 10^49.                                                     *)
ASSUME RoundingsAssumption == 5 * MaxTrades + 2 * MaxTrades * MaxTrades <= Parts

ASSUME NumbersAssumption == {FloatLiteral, NotANumber, Infinite} \cap Int = {}

NoEpoch == -1  \* an opaque label, which denotes no instant

(* Unix milliseconds and seconds are told apart by magnitude. *)
EpochSeconds(n) == IF n >= MilliFrom THEN n \div PerSecond ELSE n

(* A time is [kind, rank, epoch]: Python orders times of one kind by rank  *)
(* (a number by its value, a text by its characters) and raises TypeError  *)
(* across kinds; epoch is the instant it denotes.                          *)
ASSUME TimesAssumption ==
  \A t \in RawTrades \ {NotAnObject} : t.time # NoTime =>
    /\ t.time.rank \in Int
    /\ t.time.epoch \in Nat \cup {NoEpoch}
    /\ t.time.kind = "number" => t.time.epoch = EpochSeconds(t.time.rank)

ErrorCodes ==
  {"none", "MALFORMED_INVOCATION", "UNKNOWN_METHOD", "TOO_MANY_TRADES",
   "INVALID_SIDE", "INVALID_ASSET", "FLOAT_REJECTED", "INVALID_NUMBER",
   "BAD_TIMESTAMP", "INSUFFICIENT_INVENTORY"}
Methods == {"FIFO", "LIFO", "HIFO", "ACB"}
PooledMethods == {"ACB"}
Sides == {"buy", "sell"}
Slots == 1..MaxTrades

VARIABLES
  request,    \* the payload, never written
  phase,      \* where the call is
  error,      \* [code, at] of the typed error, at = trade number or 0
  parsed,     \* the trades read so far; from "match" on, in sorted order
  pos,        \* slot of the trade being matched
  held,       \* what is left of the lot opened at each slot
  unitCost,   \* its unit cost, in 1/Scale
  remaining,  \* what the sell being matched still has to consume
  basis,      \* cost of what it has consumed, in 1/Scale
  taken,      \* taken[s][p]: what the sell at slot s consumed of lot p
  disposals,  \* completed sells, [slot, proceeds, basis]
  totals      \* running sums over disposals

vars == <<request, phase, error, parsed, pos, held, unitCost, remaining,
          basis, taken, disposals, totals>>

inventory == <<held, unitCost>>
sale == <<remaining, basis, taken>>
results == <<disposals, totals>>

(***************************************************************************)
(* Reading a trade: the first check that fails decides the error.          *)
(***************************************************************************)
DecRefusal(v) ==
  IF v = FloatLiteral THEN "FLOAT_REJECTED"
  ELSE IF v \notin Int THEN "INVALID_NUMBER" ELSE "none"

(* Mutant: only the amount's sign is looked at. *)
NegativeAmount(t) == t.amount <= 0
Negative(t) == t.amount <= 0 \/ t.price < 0 \/ t.fee < 0

Refusal(t) ==
  IF t = NotAnObject THEN "MALFORMED_INVOCATION"
  ELSE IF t.side \notin Sides THEN "INVALID_SIDE"
  ELSE IF t.asset \notin DOMAIN Upper THEN "INVALID_ASSET"
  ELSE IF DecRefusal(t.amount) # "none" THEN DecRefusal(t.amount)
  ELSE IF DecRefusal(t.price) # "none" THEN DecRefusal(t.price)
  ELSE IF DecRefusal(t.fee) # "none" THEN DecRefusal(t.fee)
  ELSE IF Negative(t) THEN "INVALID_NUMBER"
  ELSE IF t.time = NoTime THEN "BAD_TIMESTAMP"
  ELSE "none"

Comparable(ts) ==
  \A i, j \in DOMAIN ts : ts[i].time.kind = ts[j].time.kind

Before(a, b) ==
  \/ a.time.rank < b.time.rank
  \/ a.time.rank = b.time.rank /\ a.i < b.i

(***************************************************************************)
(* The inventory                                                           *)
(***************************************************************************)
Pooled == request.method \in PooledMethods
Current == parsed[pos]

(* The result of a sum or product of money. *)
Kept(x) == Rounded(x, Digits)

Cost(t) == Kept(Kept(t.amount * t.price * Scale) + t.fee * Scale)
UnitCost(cost, amount) == Quotient(cost, amount, Digits)

(* Mutant: one inventory for all assets. *)
LotsOfAnyAsset(a) == {p \in DOMAIN parsed : held[p] > 0}
Lots(a) == {p \in DOMAIN parsed : parsed[p].asset = a /\ held[p] > 0}
Available(a) == SumFunctionOnSet(held, Lots(a))

(* Mutant: a sell is refused only when nothing is held. *)
OversoldWhenEmpty == Available(Current.asset) = 0
(* Mutant: the whole position cannot be sold. *)
OversoldByAll == Current.amount >= Available(Current.asset)
Oversold == Current.amount > Available(Current.asset)

(* Mutant: the cheapest lot first. *)
PrecedesByCost(p, q) ==
  CASE request.method = "LIFO" -> p > q
    [] request.method = "HIFO" -> \/ unitCost[p] < unitCost[q]
                                  \/ unitCost[p] = unitCost[q] /\ p < q
    [] OTHER -> p < q
(* The order in which a sell visits the lots of its asset. *)
Precedes(p, q) ==
  CASE request.method = "LIFO" -> p > q
    [] request.method = "HIFO" -> \/ unitCost[p] > unitCost[q]
                                  \/ unitCost[p] = unitCost[q] /\ p < q
    [] OTHER -> p < q

(* Mutant: the oldest lot, whatever the method. *)
OldestLots == {p \in Lots(Current.asset) : \A q \in Lots(Current.asset) : p <= q}
(* The next lot of that order. *)
NextLots ==
  {p \in Lots(Current.asset) : \A q \in Lots(Current.asset) \ {p} : Precedes(p, q)}

(* Mutant: the average is taken before the quantity is added. *)
StalePoolCost(pool, t) ==
  UnitCost(Kept(Kept(held[pool] * unitCost[pool]) + Cost(t)), held[pool])
(* Mutant: unit costs are averaged without weights. *)
UnweightedPoolCost(pool, t) ==
  UnitCost(Kept(unitCost[pool] + UnitCost(Cost(t), t.amount)), 2)
(* The average cost of a pool once a buy is merged into it. *)
PoolCost(pool, t) ==
  UnitCost(Kept(Kept(held[pool] * unitCost[pool]) + Cost(t)), held[pool] + t.amount)

(***************************************************************************)
(* The call                                                                *)
(***************************************************************************)
Init ==
  /\ request \in Requests
  /\ phase = "header"
  /\ error = [code |-> "none", at |-> 0]
  /\ parsed = <<>>
  /\ pos = 1
  /\ held = [p \in Slots |-> 0]
  /\ unitCost = [p \in Slots |-> 0]
  /\ remaining = 0
  /\ basis = 0
  /\ taken = [s \in Slots |-> [p \in Slots |-> 0]]
  /\ disposals = <<>>
  /\ totals = [proceeds |-> 0, basis |-> 0]

Fail(code, at) ==
  /\ error' = [code |-> code, at |-> at]
  /\ phase' = "failed"

HeaderRefusal ==
  IF request.trades = NoRaw THEN "MALFORMED_INVOCATION"
  ELSE IF request.method \notin Methods THEN "UNKNOWN_METHOD"
  ELSE IF request.trades \in {NotAList, <<>>} THEN "MALFORMED_INVOCATION"
  ELSE IF Len(request.trades) > MaxTrades THEN "TOO_MANY_TRADES"
  ELSE "none"

CheckHeader ==
  /\ phase = "header"
  /\ IF HeaderRefusal = "none"
       THEN phase' = "parse" /\ UNCHANGED error
       ELSE Fail(HeaderRefusal, 0)
  /\ UNCHANGED <<request, parsed, pos, inventory, sale, results>>

Reading == phase = "parse" /\ Len(parsed) < Len(request.trades)

ParseTrade ==
  /\ Reading
  /\ LET i == Len(parsed) + 1
         t == request.trades[i]
     IN  /\ Refusal(t) = "none"
         /\ parsed' = Append(parsed,
              [i |-> i, side |-> t.side, asset |-> Upper[t.asset],
               amount |-> t.amount, price |-> t.price, fee |-> t.fee,
               time |-> t.time])
  /\ UNCHANGED <<request, phase, error, pos, inventory, sale, results>>

RefuseTrade ==
  /\ Reading
  /\ LET i == Len(parsed) + 1
     IN  /\ Refusal(request.trades[i]) # "none"
         /\ Fail(Refusal(request.trades[i]), i)
  /\ UNCHANGED <<request, parsed, pos, inventory, sale, results>>

SortTrades ==
  /\ phase = "parse"
  /\ Len(parsed) = Len(request.trades)
  /\ IF Comparable(parsed)
       THEN /\ \E f \in [DOMAIN parsed -> DOMAIN parsed] :
                  /\ \A j, k \in DOMAIN parsed :
                        j < k => Before(parsed[f[j]], parsed[f[k]])
                  /\ parsed' = [k \in DOMAIN parsed |-> parsed[f[k]]]
            /\ phase' = "match"
            /\ UNCHANGED error
       ELSE Fail("BAD_TIMESTAMP", 0) /\ UNCHANGED parsed
  /\ UNCHANGED <<request, pos, inventory, sale, results>>

Matching(side) ==
  /\ phase = "match"
  /\ pos <= Len(parsed)
  /\ Current.side = side

OpenLot ==
  /\ Matching("buy")
  /\ Pooled => Lots(Current.asset) = {}
  /\ held' = [held EXCEPT ![pos] = Current.amount]
  /\ unitCost' = [unitCost EXCEPT
                    ![pos] = UnitCost(Cost(Current), Current.amount)]
  /\ pos' = pos + 1
  /\ UNCHANGED <<request, phase, error, parsed, sale, results>>

(* Under ACB an asset has one pool, and a buy is merged into it. *)
MergeIntoPool ==
  /\ Matching("buy")
  /\ Pooled
  /\ \E pool \in Lots(Current.asset) :
       /\ \A q \in Lots(Current.asset) : pool <= q
       /\ held' = [held EXCEPT ![pool] = @ + Current.amount]
       /\ unitCost' = [unitCost EXCEPT ![pool] = PoolCost(pool, Current)]
  /\ pos' = pos + 1
  /\ UNCHANGED <<request, phase, error, parsed, sale, results>>

RefuseSell ==
  /\ Matching("sell")
  /\ Oversold
  /\ Fail("INSUFFICIENT_INVENTORY", Current.i)
  /\ UNCHANGED <<request, parsed, pos, inventory, sale, results>>

BeginSell ==
  /\ Matching("sell")
  /\ ~Oversold
  /\ remaining' = Current.amount
  /\ basis' = 0
  /\ phase' = "consume"
  /\ UNCHANGED <<request, error, parsed, pos, inventory, taken, results>>

(* Mutant: the lot keeps what the sell takes from it. *)
ConsumeAndKeep(p, take) ==
  /\ UNCHANGED held
  /\ remaining' = remaining - take
  /\ basis' = Kept(basis + Kept(take * unitCost[p]))
  /\ taken' = [taken EXCEPT ![pos][p] = @ + take]
Consume(p, take) ==
  /\ held' = [held EXCEPT ![p] = @ - take]
  /\ remaining' = remaining - take
  /\ basis' = Kept(basis + Kept(take * unitCost[p]))
  /\ taken' = [taken EXCEPT ![pos][p] = @ + take]

(* One round of the loop over the lots.  Every earlier round has emptied   *)
(* its lot, so the next of the order fixed when the sell began is the      *)
(* first of the lots that still hold something.                            *)
ConsumeLot ==
  /\ phase = "consume"
  /\ remaining > 0
  /\ \E p \in NextLots :
       Consume(p, IF held[p] <= remaining THEN held[p] ELSE remaining)
  /\ UNCHANGED <<request, phase, error, parsed, pos, unitCost, results>>

(* The loop ends when nothing remains to be sold or no lot is left. *)
FinishSell ==
  /\ phase = "consume"
  /\ remaining = 0 \/ Lots(Current.asset) = {}
  /\ LET proceeds == Kept(Kept(Current.amount * Current.price * Scale)
                            - Current.fee * Scale)
     IN  /\ disposals' = Append(disposals,
              [slot |-> pos, proceeds |-> proceeds, basis |-> basis])
         /\ totals' = [proceeds |-> Kept(totals.proceeds + proceeds),
                       basis |-> Kept(totals.basis + basis)]
  /\ phase' = "match"
  /\ pos' = pos + 1
  /\ UNCHANGED <<request, error, parsed, inventory, sale>>

Report ==
  /\ phase = "match"
  /\ pos > Len(parsed)
  /\ phase' = "done"
  /\ UNCHANGED <<request, error, parsed, pos, inventory, sale, results>>

Match ==
  \/ OpenLot \/ MergeIntoPool
  \/ RefuseSell \/ BeginSell \/ ConsumeLot \/ FinishSell

Next ==
  \/ CheckHeader \/ ParseTrade \/ RefuseTrade \/ SortTrades
  \/ Match \/ Report

Spec == Init /\ [][Next]_vars

-------------------------------------------------------------------------------
(***************************************************************************)
(* Correctness                                                             *)
(***************************************************************************)
ParsedTrades ==
  [i : Nat, side : Sides, asset : Assets, amount : Nat \ {0}, price : Nat,
   fee : Nat, time : {t.time : t \in RawTrades \ {NotAnObject}} \ {NoTime}]

(* The type invariant: in particular no trade that reaches the matching    *)
(* loop has an amount that is not positive or a negative price or fee      *)
(* (lots.py:394-397), and no lot ever holds a negative quantity.           *)
TypeOK ==
  /\ request \in Requests
  /\ phase \in {"header", "parse", "match", "consume", "done", "failed"}
  /\ error \in [code : ErrorCodes, at : Nat]
  /\ parsed \in Seq(ParsedTrades)
  /\ Len(parsed) <= MaxTrades
  /\ pos \in Nat \ {0}
  /\ pos <= Len(parsed) + 1
  /\ held \in [Slots -> Nat]
  /\ unitCost \in [Slots -> Nat]
  /\ remaining \in Nat
  /\ basis \in Nat
  /\ taken \in [Slots -> [Slots -> Nat]]
  /\ disposals \in Seq([slot : Slots, proceeds : Int, basis : Nat])
  /\ totals \in [proceeds : Int, basis : Nat]

Bought(q, a) == q \in DOMAIN parsed /\ parsed[q].side = "buy" /\ parsed[q].asset = a
BuysOf(a) == {q \in 1..(pos - 1) : Bought(q, a)}
Buys == {q \in 1..(pos - 1) : parsed[q].side = "buy"}

(* FIFO consumes the oldest lots first, LIFO the newest, HIFO the dearest  *)
(* (lots.py:17): if any sell so far has touched a lot, every lot that the  *)
(* method prefers and that had been bought before that sell is used up,    *)
(* then and for ever after.                                                *)
ConsumptionDiscipline ==
  ~Pooled =>
    \A s, p, q \in Slots :
      /\ taken[s][p] > 0
      /\ q < s /\ q # p
      /\ Bought(q, parsed[s].asset)
      /\ Precedes(q, p)
      => held[q] = 0

(* A sell consumes only lots of its own asset that were bought at an       *)
(* earlier place in the sorted ledger: no lot is used before it exists.    *)
LotsOfThePast ==
  \A s, p \in Slots :
    taken[s][p] > 0 => p < s /\ s <= pos /\ Bought(p, parsed[s].asset)

(* Every unit of a lot is sold at most once: what is left of a lot and     *)
(* what the sells took from it always make up what was bought              *)
(* (lots.py:458-460, 465).                                                 *)
LotsConserved ==
  ~Pooled =>
    \A p \in Buys :
      held[p] + SumFunction([s \in Slots |-> taken[s][p]]) = parsed[p].amount

(* "never a silently clamped number" (lots.py:8): a completed disposal has *)
(* consumed lots for its full amount, and a sell in progress can.          *)
NoSilentClamp ==
  /\ \A k \in DOMAIN disposals :
       LET s == disposals[k].slot
       IN  SumFunction(taken[s]) = parsed[s].amount
  /\ phase = "consume" => remaining <= Available(Current.asset)

(* How far n roundings to Digits digits may take a sum of money from its   *)
(* exact value x, doubled and in parts, if the quotients among them were   *)
(* also rounded by half a 1/Scale, grid times in all.                      *)
Slack(x, grid, n) == Parts * grid + n * (2 * x + grid)
NoMore(w, x, grid, n) == 2 * Parts * (w - x) <= Slack(x, grid, n)
NoLess(w, x, grid, n) == 2 * Parts * (x - w) <= Slack(x, grid, n)
Accounts(w, x, grid, n) == NoMore(w, x, grid, n) /\ NoLess(w, x, grid, n)

(* ACB keeps a single pool per asset (lots.py:420-427, 443), and its       *)
(* average stays between the cheapest and the dearest purchase, but for    *)
(* the three roundings of every merge (lots.py:425, 427).                  *)
PoolAverages ==
  Pooled =>
    \A a \in Assets : \A p \in Lots(a) :
      /\ \A q \in Lots(a) : q = p
      /\ LET n == Cardinality(BuysOf(a))
             paid == {UnitCost(Cost(parsed[q]), parsed[q].amount) : q \in BuysOf(a)}
         IN  /\ \E u \in paid : NoMore(unitCost[p], u, n, 3 * n)
             /\ \E u \in paid : NoLess(unitCost[p], u, n, 3 * n)

(* A quotient is rounded once per unit of the amount it is a cost of: of   *)
(* a lot opened, or of the pool a buy is merged into.                      *)
RoundedUnits(p) ==
  IF Pooled
  THEN SumFunctionOnSet([q \in Slots |-> parsed[q].amount],
                        {q \in BuysOf(parsed[p].asset) : q <= p})
  ELSE parsed[p].amount

Portions(s) == {p \in Slots : taken[s][p] > 0}

(* Cost is neither created nor lost beyond rounding: the basis reported    *)
(* so far and the cost of the lots still held add up to what was paid,     *)
(* fees included (lots.py:14, 418), up to five roundings of a trade        *)
(* (lots.py:418-433, 477) and two for each lot a sell took from            *)
(* (lots.py:461).                                                          *)
CostConserved ==
  LET heldCost == SumFunction([p \in Slots |-> held[p] * unitCost[p]])
      inSale == IF phase = "consume" THEN basis ELSE 0
      paid == SumFunctionOnSet(
                [p \in Slots |-> (parsed[p].amount * parsed[p].price + parsed[p].fee) * Scale],
                Buys)
      grid == SumFunctionOnSet([p \in Slots |-> RoundedUnits(p)], Buys)
      roundings == 5 * (pos - 1)
                   + 2 * SumFunction([s \in Slots |-> Cardinality(Portions(s))])
  IN  Accounts(totals.basis + inSale + heldCost, paid, grid, roundings)

(* "Trades are processed in chronological order; ties keep input order"    *)
(* (lots.py:16), for the instants the times denote.                        *)
Chronological ==
  phase \in {"match", "done"} =>
    \A j, k \in DOMAIN parsed :
      LET tj == parsed[j].time.epoch
          tk == parsed[k].time.epoch
      IN  j < k /\ tj # NoEpoch /\ tk # NoEpoch =>
            \/ tj < tk
            \/ tj = tk /\ parsed[j].i < parsed[k].i

(* HIFO takes from the lots on hand the units that cost most: no other     *)
(* choice among them would give the sell a larger basis (lots.py:17,       *)
(* 448-450), before the sum is rounded.                                    *)
HifoMaximisesBasis ==
  request.method = "HIFO" /\ phase = "consume" /\ remaining = 0 =>
    LET lots == {p \in Buys : parsed[p].asset = Current.asset}
        choices == {f \in [lots -> 0..Current.amount] :
                      /\ SumFunction(f) = Current.amount
                      /\ \A p \in lots : f[p] <= held[p] + taken[pos][p]}
        costOf(f) == SumFunction([p \in lots |-> f[p] * unitCost[p]])
    IN  \A f \in choices : costOf(f) <= costOf(taken[pos])

(* The engine implements the quantity ledger: one position per asset,      *)
(* buys added, sells subtracted, the first sell that exceeds the position  *)
(* refused and no other (lots.py:6-8, 436-440).  A sell takes effect when  *)
(* it is finished.                                                         *)
Status ==
  CASE phase \in {"header", "parse"} -> "open"
    [] phase \in {"match", "consume"} -> "running"
    [] phase = "done" -> "complete"
    [] OTHER -> IF error.code = "INSUFFICIENT_INVENTORY" THEN "refused" ELSE "malformed"

Entry(t) == [side |-> t.side, asset |-> t.asset, amount |-> t.amount]

OrderedLedger ==
  IF Status \in {"open", "malformed"} THEN <<>>
  ELSE [k \in DOMAIN parsed |-> Entry(parsed[k])]

(* Until the sell in progress is finished, what it took still counts. *)
Position ==
  [a \in Assets |->
    Available(a) + IF phase = "consume" /\ Current.asset = a
                   THEN SumFunction(taken[pos]) ELSE 0]

Positions == INSTANCE PositionLedger WITH
  ledger <- OrderedLedger, next <- pos, position <- Position, status <- Status

ImplementsPositions == Positions!Spec
===============================================================================
