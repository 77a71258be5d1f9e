---------------------------- MODULE MCCanonicalize ----------------------------
(* Instances of Canonicalize for TLC. *)
EXTENDS Canonicalize, MCRegistry

Whole(v) == [form |-> "int", value |-> v]
Digits(v) == [form |-> "digits", human |-> FALSE, value |-> v]
Text(v) == [form |-> "digits", value |-> v]
HumanDigits(v) == [form |-> "digits", human |-> TRUE, value |-> v]
Fraction(n, k) == [form |-> "fraction", n |-> n, k |-> k]
Float(n, k) == [form |-> "float", n |-> n, k |-> k]
Infinity == [form |-> "infinity"]
NaN == [form |-> "nan"]
Endlessly == [form |-> "endless"]
Other == [form |-> "other"]
Number(v) == [form |-> "number", value |-> v]

Named(s) == [form |-> "alias", value |-> s]
Id(n) == [form |-> "id", value |-> n]

(* Which asset is meant: every way of naming it, with and without a chain. *)
IdentityPayloads ==
  [address : {Absent, "0xusdc1", "0xFake", "0xnothex"},
   symbol : {Absent, "usdc", "ETH", "MATIC", "DUP", "NOPE", "0xFake"},
   name : {Absent, "0xWeth1"},
   chainId : {Absent, 1, 10, 99},
   chain : {NoCell, Named("mainnet"), Named("polygon"), Named("mars"), Id(137)},
   hint : {Absent, "eth", "mars"},
   prefer : {"registry", "onchain"},
   decimals : {NoCell, Whole(2)},
   amount : {Digits(15)}, time : {NoCell}, schema : {"default"}]

(* Numbers int() does not read. *)
EndlessPayloads ==
  [address : {Absent}, symbol : {"USDC"}, name : {Absent}, chainId : {1},
   chain : {NoCell, Endlessly}, hint : {Absent}, prefer : {"registry"},
   decimals : {NoCell, Endlessly},
   amount : {Digits(15)}, time : {NoCell}, schema : {"default"}]

(* How much is meant, and when. *)
Amounts ==
  {NoCell, Other, NaN, Infinity, Whole(-2), Whole(0), Whole(15), Whole(1235), Digits(20),
   Digits(999999), HumanDigits(7), Fraction(15, 1), Fraction(1235, 2), Fraction(5, 3), Fraction(1200, 3), Float(-15, 1), Float(25, 1)}

Times ==
  {NoCell, Number(0), Number(5), Number(15), Number(30), Number(250),
   [form |-> "iso", value |-> 4], [form |-> "naive", value |-> 4],
   [form |-> "unparseable"], [form |-> "beyond"]}

ValuePayloads ==
  [address : {Absent, "0xFake"},
   symbol : {Absent, "USDC"},
   name : {Absent},
   chainId : {1}, chain : {NoCell}, hint : {Absent},
   prefer : {"registry", "onchain"},
   decimals : {NoCell, Whole(-1), Whole(0), Whole(2), Whole(5), Text(2), Text(5), Text(8),
               Text(17)},
   amount : Amounts,
   time : Times,
   schema : {"default", "accepting", "refusing"}]

MCPayloads == IdentityPayloads \cup ValuePayloads \cup EndlessPayloads

(* The small sets of the runs that contradict a sentence of the docs. *)
UnhintedPayloads ==
  {p \in ValuePayloads : p.time = NoCell /\ p.schema = "default"}
===============================================================================
