------------------------------- MODULE MCLedger -------------------------------
(* Instances of LotLedger and LedgerViews for TLC. *)
EXTENDS LedgerViews

CONSTANTS MaxLength  \* bound: trades in a request made of well-formed trades

MCAssets == {"ETH", "BTC"}
MCUpper == [s \in {"ETH", "eth", "BTC"} |-> IF s = "BTC" THEN "BTC" ELSE "ETH"]
MCDays == {0, 2, 4, -1, NotDays, OddDays}

At(n) == [kind |-> "number", rank |-> n, epoch |-> EpochSeconds(n)]
Label(n) == [kind |-> "text", rank |-> n, epoch |-> NoEpoch]
Iso(n) == [kind |-> "text", rank |-> n, epoch |-> n]

Trade(side, asset, amount, price, fee, time) ==
  [side |-> side, asset |-> asset, amount |-> amount, price |-> price,
   fee |-> fee, time |-> time]

(* Unit costs 3.5, 7.667, 5 and 12.67, of which the second and the last    *)
(* are rounded, as are three times the second and its sums with others;    *)
(* two spellings of one asset; sells that fit one lot, need two, or exceed *)
(* what is held; a sell at the time of a buy; proceeds below zero;         *)
(* positions of more than one digit.                                       *)
GoodTrades ==
  { Trade("buy", "ETH", 2, 3, 1, At(1)),
    Trade("buy", "eth", 3, 7, 2, At(2)),
    Trade("buy", "ETH", 1, 5, 0, At(3)),
    Trade("buy", "BTC", 3, 12, 2, At(1)),
    Trade("sell", "ETH", 1, 4, 0, At(2)),
    Trade("sell", "eth", 3, 6, 1, At(3)),
    Trade("sell", "ETH", 2, 1, 3, At(3)),
    Trade("sell", "BTC", 1, 9, 0, At(2)) }

(* Lots held for long and for short: with SecondsPerDay = 2 the cutoffs    *)
(* are 0, 4 and 8 seconds, and a lot sold at 9 or at 5 was held for 8, 4   *)
(* or 0 seconds, and so on either side.                                    *)
DatedTrades ==
  { Trade("buy", "ETH", 2, 3, 1, At(1)), Trade("buy", "eth", 1, 4, 0, At(5)),
    Trade("buy", "ETH", 1, 4, 0, Iso(5)),
    Trade("sell", "ETH", 1, 4, 2, At(5)), Trade("sell", "eth", 3, 7, 0, At(9)),
    Trade("sell", "ETH", 1, 5, 0, Label(9)) }

BadTrades ==
  { NotAnObject,
    Trade("swap", "ETH", 1, 1, 0, At(1)),
    Trade("buy", "", 1, 1, 0, At(1)),
    Trade("sell", NoAsset, 1, 1, 0, At(1)),
    Trade("buy", "ETH", FloatLiteral, 1, 0, At(1)),
    Trade("buy", "ETH", 1, NotANumber, 0, At(1)),
    Trade("buy", "ETH", 1, 1, FloatLiteral, At(1)),
    Trade("buy", "ETH", 0, 1, 0, At(1)),
    Trade("sell", "ETH", 1, 1, -1, At(1)),
    Trade("buy", "ETH", 1, 1, 0, NoTime),
    Trade("buy", "ETH", 1, 1, 0, Label(1)) }

Endless ==
  {Trade(side, "ETH", Infinite, 1, 0, At(1)) : side \in Sides}
Unordered == Trade("buy", "ETH", NaN, 1, 0, At(1))

Sequences(S, n) == UNION {[1..k -> S] : k \in 0..n}

WellFormedRequests ==
  [method : Methods,
   trades : Sequences(GoodTrades, MaxLength) \cup Sequences(DatedTrades, MaxLength)]

MalformedRequests ==
  [method : {"FIFO", "ACB", "AVCO"},
   trades : Sequences(GoodTrades \cup BadTrades \cup Endless, 2)
            \cup {[k \in 1..(MaxTrades + 1) |-> g] : g \in GoodTrades}
            \cup {NoRaw, NotAList}]

MCRequests == WellFormedRequests \cup MalformedRequests

(* The small requests of the runs that contradict a sentence of the docs.  *)
(* MilliFrom = 100 and PerSecond = 10: At(120) is twelve seconds.          *)
MixedUnits ==
  { Trade("buy", "ETH", 1, 3, 0, At(5)), Trade("buy", "ETH", 1, 4, 0, At(120)),
    Trade("sell", "ETH", 1, 6, 0, At(9)), Trade("sell", "ETH", 1, 6, 0, At(20)) }

MixedRequests == [method : Methods, trades : Sequences(MixedUnits, MaxLength)]

NotFiniteRequests ==
  [method : Methods, trades : Sequences(GoodTrades \cup Endless \cup {Unordered}, 2)]

MCRawTrades ==
  GoodTrades \cup DatedTrades \cup BadTrades \cup Endless \cup {Unordered} \cup MixedUnits
===============================================================================
