----------------------------- MODULE LedgerViews -----------------------------
(***************************************************************************)
(* The other computations over a trade ledger in evm_canon/lots.py:        *)
(* balances (/lots/balances), check_ledger (/lots/validate) and            *)
(* holding_period (/lots/holding-period).  The first two are functions of  *)
(* the request, the third of a request and its completed matching; they    *)
(* are compared with what the engine of LotLedger does with that request.  *)
(***************************************************************************)
EXTENDS LotLedger, SequencesExt

CONSTANTS
  NaN,            \* "NaN", which Decimal() reads but will not compare
  NoAsset,        \* an asset that is not a string
  SecondsPerDay,  \* 86400
  CheckerDigits,  \* 28, the precision of Python's default context
  DaysAsked,      \* values of long_term_days considered
  NotDays,        \* long_term_days that is not made of digits, or a bool
  OddDays         \* one the digit test lets through and int() does not read

Nameless == ""  \* an asset that is a string, yet no symbol

ASSUME ViewsAssumption ==
  /\ {NoAsset, Nameless} \cap DOMAIN Upper = {}
  /\ {SecondsPerDay, CheckerDigits} \subseteq Nat \ {0}
  /\ DaysAsked \subseteq Int \cup {NotDays, OddDays}
  /\ {NotDays, OddDays} \cap Int = {} /\ NotDays # OddDays

(* What a field that should be a number may be. *)
ASSUME FieldsAssumption ==
  \A t \in RawTrades \ {NotAnObject} :
    {t.amount, t.price, t.fee} \subseteq Int \cup {FloatLiteral, NotANumber, Infinite, NaN}

(* All three refuse trades they cannot read as they refuse none. *)
Trades == IF request.trades \in {NoRaw, NotAList} THEN <<>> ELSE request.trades
First(S) == CHOOSE i \in S : \A j \in S : i <= j

(***************************************************************************)
(* balances: one pass, no matching, prices not read                        *)
(***************************************************************************)
BalancesRefusal(t) ==
  IF t = NotAnObject THEN "MALFORMED_INVOCATION"
  ELSE IF t.side \notin Sides THEN "INVALID_SIDE"
  ELSE IF t.asset \notin DOMAIN Upper THEN "INVALID_ASSET"
  ELSE IF DecRefusal(t.amount) # "none" THEN DecRefusal(t.amount)
  ELSE IF t.amount <= 0 THEN "INVALID_NUMBER"
  ELSE IF DecRefusal(t.fee) # "none" THEN DecRefusal(t.fee)
  ELSE IF t.time = NoTime THEN "BAD_TIMESTAMP"
  ELSE "none"

(* Times are compared within an asset only, with those read before. *)
BalancesTrouble(i) ==
  IF BalancesRefusal(Trades[i]) # "none" THEN BalancesRefusal(Trades[i])
  ELSE IF \E j \in 1..(i - 1) :
            /\ BalancesRefusal(Trades[j]) = "none"
            /\ Upper[Trades[j].asset] = Upper[Trades[i].asset]
            /\ Trades[j].time.kind # Trades[i].time.kind
       THEN "BAD_TIMESTAMP"
  ELSE "none"

(* Mutant: spellings of an asset are told apart. *)
NetBySpelling(a) ==
  LET moved(side) == {i \in DOMAIN Trades : Trades[i].side = side /\ Trades[i].asset = a}
      amounts == [i \in DOMAIN Trades |-> Trades[i].amount]
  IN  SumFunctionOnSet(amounts, moved("buy")) - SumFunctionOnSet(amounts, moved("sell"))
Net(a) ==
  LET moved(side) == {i \in DOMAIN Trades :
                        Trades[i].side = side /\ Upper[Trades[i].asset] = a}
      amounts == [i \in DOMAIN Trades |-> Trades[i].amount]
  IN  SumFunctionOnSet(amounts, moved("buy")) - SumFunctionOnSet(amounts, moved("sell"))

(* Mutant: a short position is an error. *)
BalancesErrorIfShort ==
  IF \E i \in DOMAIN Trades : BalancesTrouble(i) # "none" THEN "INVALID_NUMBER"
  ELSE IF \E a \in Assets : Net(a) < 0 THEN "INSUFFICIENT_INVENTORY" ELSE "none"
BalancesError ==
  LET troubled == {i \in DOMAIN Trades : BalancesTrouble(i) # "none"}
  IN  IF Trades = <<>> THEN "MALFORMED_INVOCATION"
      ELSE IF Len(Trades) > MaxTrades THEN "TOO_MANY_TRADES"
      ELSE IF troubled # {} THEN BalancesTrouble(First(troubled))
      ELSE "none"

(***************************************************************************)
(* check_ledger: collects the issues of every trade and goes on            *)
(***************************************************************************)
Numbers(t) == {t.amount, t.price, t.fee}

(* Mutant: off by one. *)
BelowByOne(v, n) == v # Infinite /\ v < n - 1
Below(v, n) == v # Infinite /\ v < n

TradeIssues(t) ==
  IF t = NotAnObject THEN {"MALFORMED_TRADE"}
  ELSE LET readable == Numbers(t) \cap {FloatLiteral, NotANumber} = {}
       IN UNION {
         IF t.side \notin Sides THEN {"INVALID_SIDE"} ELSE {},
         IF t.asset \notin DOMAIN Upper THEN {"INVALID_ASSET"} ELSE {},
         IF FloatLiteral \in Numbers(t) THEN {"FLOAT_REJECTED"} ELSE {},
         IF NotANumber \in Numbers(t) THEN {"INVALID_NUMBER"} ELSE {},
         IF readable /\ (Below(t.amount, 1) \/ Below(t.price, 0) \/ Below(t.fee, 0))
           THEN {"INVALID_NUMBER"} ELSE {},
         IF t.time = NoTime THEN {"BAD_TIMESTAMP"} ELSE {}}

(* Trades that take part in the running balance; the empty string is an    *)
(* invalid asset, yet a string.                                            *)
Usable == {i \in DOMAIN Trades :
  TradeIssues(Trades[i]) \subseteq IF Trades[i] # NotAnObject /\ Trades[i].asset = Nameless
                                   THEN {"INVALID_ASSET"} ELSE {}}

AssetOf(i) == IF Trades[i].asset = Nameless THEN Nameless ELSE Upper[Trades[i].asset]

Twins(i, j) ==
  /\ AssetOf(i) = AssetOf(j)
  /\ \A field \in {"side", "amount", "price", "time"} : Trades[i][field] = Trades[j][field]

Duplicates == {i \in Usable : \E j \in Usable : j < i /\ Twins(i, j)}

SortableTimes ==
  \A i, j \in Usable : Trades[i].time.kind = Trades[j].time.kind

(* Mutant: the ledger is settled as it was sent. *)
CleanUnsorted == IF SortableTimes THEN SetToSortSeq(Usable, LAMBDA i, j : i < j) ELSE <<>>
(* By time; ties keep input order. *)
Clean ==
  LET Earlier(i, j) ==
        \/ Trades[i].time.rank < Trades[j].time.rank
        \/ Trades[i].time.rank = Trades[j].time.rank /\ i < j
  IN  IF SortableTimes
      THEN CHOOSE s \in [1..Cardinality(Usable) -> Usable] :
             \A j, k \in DOMAIN s : j < k => Earlier(s[j], s[k])
      ELSE <<>>

(* Mutant: selling all counts as selling too much. *)
Reaches(x, y) == y # Infinite /\ (x = Infinite \/ x >= y)
Exceeds(x, y) == y # Infinite /\ (x = Infinite \/ x > y)
(* Mutant: one digit less. *)
PlusNarrow(x, y) ==
  IF Infinite \in {x, y} THEN Infinite
  ELSE LET unit == Pow10[Surplus(x + y, CheckerDigits) + 1]
       IN  RoundDiv(x + y, unit) * unit
Plus(x, y) ==
  IF Infinite \in {x, y} THEN Infinite ELSE Rounded(x + y, CheckerDigits)
(* Never of two infinities: that raises, see TakesInfinity. *)
Minus(x, y) == IF x = Infinite THEN Infinite ELSE Rounded(x - y, CheckerDigits)

(* One round of the running balance: an oversell is noted and the balance  *)
(* starts again from zero.  No precision is set here, so the sums are      *)
(* rounded to the default one; the engine's are taken to be exact.         *)
Settle(state, i) ==
  LET a == AssetOf(i)
      n == Trades[i].amount
      has == state.balance[a]
      bought == Trades[i].side = "buy"
      short == ~bought /\ Exceeds(n, has)
  IN  [balance |-> [state.balance EXCEPT
         ![a] = IF bought THEN Plus(has, n) ELSE IF short THEN 0 ELSE Minus(has, n)],
       oversells |-> IF short THEN Append(state.oversells, i) ELSE state.oversells]

(* The state once these trades are settled. *)
Settled(trades) ==
  FoldLeft(Settle,
           [balance |-> [a \in Assets \cup {Nameless} |-> 0], oversells |-> <<>>],
           trades)

Oversells == Settled(Clean).oversells

(* An infinite sell of an infinite balance is no oversell: the difference  *)
(* is taken, and raises InvalidOperation.                                  *)
TakesInfinity ==
  \E i \in Usable :
    /\ Trades[i].side = "sell" /\ Trades[i].amount = Infinite
    /\ \E k \in DOMAIN Clean :
         /\ Clean[k] = i
         /\ Settled(SubSeq(Clean, 1, k - 1)).balance[AssetOf(i)] = Infinite

(* The report, as issues [code, at]. *)
Issues ==
  (UNION {{[code |-> c, at |-> i] : c \in TradeIssues(Trades[i])} : i \in DOMAIN Trades})
  \cup {[code |-> "POSSIBLE_DUPLICATE", at |-> i] : i \in Duplicates}
  \cup (IF SortableTimes THEN {} ELSE {[code |-> "BAD_TIMESTAMP", at |-> 0]})
  \cup {[code |-> "INSUFFICIENT_INVENTORY", at |-> Oversells[k]] : k \in DOMAIN Oversells}

CheckOk == Trades # <<>> /\ Issues = {}

(* Comparing NaN raises InvalidOperation, which nothing here catches; a    *)
(* fee is compared only if the price is not negative.                      *)
ComparesNaN ==
  \E i \in DOMAIN Trades :
    LET t == Trades[i]
    IN  /\ t # NotAnObject
        /\ Numbers(t) \cap {FloatLiteral, NotANumber} = {}
        /\ \/ NaN \in {t.amount, t.price}
           \/ t.fee = NaN /\ ~Below(t.price, 0)

CheckRaises == ComparesNaN \/ TakesInfinity

(***************************************************************************)
(* holding_period: a completed matching split by how long lots were held   *)
(***************************************************************************)
EpochOf(slot) == parsed[slot].time.epoch

(* Instants are read disposal by disposal, the sale's before its lots'. *)
HoldingUnclear(k) ==
  LET s == disposals[k].slot
  IN  \E q \in {s} \cup Portions(s) : EpochOf(q) = NoEpoch

HoldingRefusal(days) ==
  LET unclear == {k \in DOMAIN disposals : HoldingUnclear(k)}
  IN  IF request.trades = NoRaw THEN [code |-> "MALFORMED_INVOCATION", at |-> 0]
      ELSE IF Pooled THEN [code |-> "NO_LOT_TRAIL", at |-> 0]
      ELSE IF days = OddDays THEN [code |-> "raises", at |-> 0]
      ELSE IF days \notin Nat THEN [code |-> "INVALID_NUMBER", at |-> 0]
      ELSE IF phase = "failed" THEN error
      ELSE IF unclear # {}
      THEN [code |-> "TIME_NOT_ABSOLUTE",
            at |-> LET k == First(unclear)
                   IN  IF EpochOf(disposals[k].slot) = NoEpoch THEN k ELSE 0]
      ELSE [code |-> "none", at |-> 0]

LongTerm(s, p, days) == EpochOf(s) - EpochOf(p) > days * SecondsPerDay

(* Mutant: proceeds per unit of the lot rather than of the sale. *)
ShareOfLot(d, p) ==
  Quotient(Kept(d.proceeds * taken[d.slot][p]), parsed[p].amount, Digits)
Share(d, p) ==
  Quotient(Kept(d.proceeds * taken[d.slot][p]), parsed[d.slot].amount, Digits)

(* A side of the split once the portion p of disposal d is added to it. *)
WithPortion(d, p, side) ==
  [proceeds |-> Kept(side.proceeds + Share(d, p)),
   basis |-> Kept(side.basis + Kept(taken[d.slot][p] * unitCost[p]))]

LastOf(portions) == CHOOSE p \in portions : \A q \in portions \ {p} : Precedes(q, p)

(* Portions are added in the order they were consumed. *)
Bucket(d, long, days) ==
  LET portions == {p \in Portions(d.slot) : LongTerm(d.slot, p, days) = long}
      side == MapThenFoldSet(LAMBDA p, sum : WithPortion(d, p, sum),
                             [proceeds |-> 0, basis |-> 0],
                             LAMBDA p : p, LastOf, portions)
  IN  [amount |-> SumFunctionOnSet(taken[d.slot], portions),
       proceeds |-> side.proceeds, basis |-> side.basis]

-------------------------------------------------------------------------------
(***************************************************************************)
(* Correctness                                                             *)
(***************************************************************************)

(* The net position balances reports is the inventory that every method    *)
(* leaves (lots.py:165-173, 228, 482).                                     *)
BalancesAgree ==
  phase = "done" =>
    BalancesError = "none" /\ \A a \in Assets : Net(a) = Available(a)

(* balances answers "even when the ledger is too broken for cost-basis     *)
(* matching to run at all" (lots.py:168-170), that is when a sell exceeds  *)
(* what is held.                                                           *)
BalancesSurvive ==
  phase = "failed" /\ error.code = "INSUFFICIENT_INVENTORY" => BalancesError = "none"

(* The running balance of check_ledger is exact for ledgers that buy less  *)
(* of an asset than its digits count (lots.py:243, 316-330).               *)
FitsChecker ==
  \A a \in Assets :
    LET buys == {i \in DOMAIN Trades :
                   /\ Refusal(Trades[i]) = "none"
                   /\ Trades[i].side = "buy" /\ Upper[Trades[i].asset] = a}
    IN  SumFunctionOnSet([i \in DOMAIN Trades |-> Trades[i].amount], buys)
          < Pow10[CheckerDigits]

(* A ledger the engine can match has nothing wrong with it: check_ledger   *)
(* may only wonder at duplicates (lots.py:242-248, 298-302), as long as    *)
(* its sums are exact.                                                     *)
CheckerAccepts ==
  phase = "done" /\ FitsChecker => \A issue \in Issues : issue.code = "POSSIBLE_DUPLICATE"

(* When the engine stops at an oversell, check_ledger reports that trade   *)
(* as the first oversell in time (lots.py:316-330, 436-440).               *)
CheckerFindsOversell ==
  phase = "failed" /\ error.code = "INSUFFICIENT_INVENTORY" /\ FitsChecker =>
    Oversells # <<>> /\ Oversells[1] = error.at

(* "Every problem in a trade ledger reported at once" (server.py:94): for  *)
(* a ledger the engine refuses check_ledger answers, and not with ok.      *)
CheckerComplete ==
  phase = "failed" /\ request.method \in Methods => ~CheckRaises /\ ~CheckOk

(* The part of it the code keeps: with finite numbers, exact sums and no   *)
(* more trades than the engine takes, ok means matchable (lots.py:242-248, *)
(* 332).                                                                   *)
CheckerCompleteWithinLimits ==
  /\ phase = "failed"
  /\ request.method \in Methods
  /\ Len(Trades) <= MaxTrades
  /\ FitsChecker
  /\ \A i \in DOMAIN Trades :
       Trades[i] # NotAnObject => Numbers(Trades[i]) \cap {Infinite, NaN} = {}
  => ~CheckRaises /\ ~CheckOk

(* The short- and long-term portions of a disposal make up the disposal    *)
(* (lots.py:126-135): its amount exactly; its proceeds up to the rounding  *)
(* of a product, a quotient and a sum per portion; and together they cost  *)
(* what the lots consumed cost, up to the rounding of a product and a sum  *)
(* per portion, as the basis of the disposal does (lots.py:461).           *)
HoldingSplitComplete ==
  phase = "done" =>
    \A k \in DOMAIN disposals, days \in DaysAsked :
      HoldingRefusal(days).code = "none" =>
        LET d == disposals[k]
            long == Bucket(d, TRUE, days)
            short == Bucket(d, FALSE, days)
            n == Cardinality(Portions(d.slot))
            sold == parsed[d.slot].amount
            cost == SumFunction([p \in Slots |-> taken[d.slot][p] * unitCost[p]])
            sign == IF d.proceeds < 0 THEN -1 ELSE 1
        IN  /\ long.amount + short.amount = sold
            /\ Accounts(sign * (long.proceeds + short.proceeds) * sold,
                        sign * d.proceeds * sold, n * sold, 3 * n)
            /\ Accounts(long.basis + short.basis, cost, 0, 2 * n)
            /\ Accounts(d.basis, cost, 0, 2 * n)
===============================================================================
