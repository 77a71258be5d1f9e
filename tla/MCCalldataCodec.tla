--------------------------- MODULE MCCalldataCodec ---------------------------
(* Instances of CalldataCodec for TLC. *)
EXTENDS CalldataCodec, MCRegistry

(* Scaled down: 9999, 999, 99 and 9 stand for the largest integers of 256, *)
(* 160, 48 and 8 bits, 500 for 2**128, three digits for the 28 of the      *)
(* decimal context, five for its largest exponent.                         *)
MCMaxUint == [bits \in {256, 160, 48, 8} |->
  CASE bits = 256 -> 9999 [] bits = 160 -> 999 [] bits = 48 -> 99 [] bits = 8 -> 9]

Address == [kind |-> "address"]
Bool == [kind |-> "bool"]
Tuple == [kind |-> "tuple"]
Uint(bits) == [kind |-> "uint", bits |-> bits]
Bytes == [kind |-> "bytes", size |-> Absent]
Bytes32 == [kind |-> "bytes", size |-> 32]
Array(item) == [kind |-> "array", item |-> item]

P(name, type) == [name |-> name, type |-> type]
S(sig, name, params, standard) ==
  [sig |-> sig, name |-> name, params |-> params, standard |-> standard]

(* The functions of the signature set that differ in what the code does    *)
(* with them; of permit, those parameters that do.                         *)
MCSignatures ==
  { S("approve(erc20)", "approve", <<P("spender", Address), P("amount", Uint(256))>>, "ERC-20/721"),
    S("approve(permit2)", "approve",
      <<P("token", Address), P("spender", Address), P("amount", Uint(160)),
        P("expiration", Uint(48))>>, "Permit2"),
    S("increaseAllowance(erc20)", "increaseAllowance",
      <<P("spender", Address), P("addedValue", Uint(256))>>, "ERC-20"),
    S("permit(eip2612)", "permit",
      <<P("spender", Address), P("value", Uint(256)), P("v", Uint(8)), P("r", Bytes32)>>,
      "EIP-2612"),
    S("setApprovalForAll(erc721)", "setApprovalForAll",
      <<P("operator", Address), P("approved", Bool)>>, "ERC-721/1155"),
    S("swap(v2)", "swap",
      <<P("amountIn", Uint(256)), P("amountOutMin", Uint(256)), P("path", Array(Address))>>,
      "UniswapV2"),
    S("safeBatchTransferFrom(erc1155)", "safeBatchTransferFrom",
      <<P("ids", Array(Uint(256))), P("data", Bytes)>>, "ERC-1155"),
    S("exactInput(v3)", "exactInput", <<P("params", Tuple)>>, "UniswapV3"),
    S("upgradeTo(proxy)", "upgradeTo", <<P("newImplementation", Address)>>, "proxy"),
    S("deposit(weth)", "deposit", <<>>, "WETH") }

Whole(v) == [form |-> "int", value |-> v]
Digits(v) == [form |-> "digits", value |-> v]
Fraction(n, k) == [form |-> "fraction", n |-> n, k |-> k]
Exotic(n, k) == [form |-> "exotic", n |-> n, k |-> k]
Infinity == [form |-> "infinity"]
Endless == [form |-> "endless"]
Other == [form |-> "other"]
At(a) == [form |-> "address", value |-> a, size |-> 20]
Hex(h, size) == [form |-> "hex", value |-> h, size |-> size]
Truth(b) == [form |-> "bool", value |-> b]
Items(s) == [form |-> "list", items |-> s]
Fake == At("0xFake")

Named(values) == [form |-> "named", values |-> values]
List(values) == [form |-> "list", values |-> values]

(* An amount in every form, at the limits of the types and of the          *)
(* threshold, representable or not.                                        *)
Plain ==
  {Whole(-1), Whole(0), Whole(499), Whole(500), Whole(999), Whole(1000), Whole(10000),
   Digits(7), Digits(999), Fraction(15, 1), Fraction(125, 2), Fraction(5, 3),
   Fraction(999, 1), Fraction(1235, 2), [form |-> "float"], Other}
AllAmounts == Plain \cup {Exotic(15, 1), Exotic(-5, 1), Exotic(-20, 1), Exotic(50, 0), Infinity, Endless}

ApproveArgs(amounts) ==
  {Named([n \in {"spender", "amount"} |-> IF n = "amount" THEN a ELSE Fake]) : a \in amounts}

(* Whose decimals scale an amount: every way of naming the token.          *)
TokenCalls(amounts) ==
  [function : {"approve"}, args : ApproveArgs(amounts),
   token : {Absent, "0xusdc1", "0xDupA", "0xFake", "usdc", "WETH", "DUP", "NOPE"},
   chain : {NoCell, [form |-> "id", value |-> 1], [form |-> "id", value |-> 99],
            [form |-> "alias", value |-> "polygon"], [form |-> "alias", value |-> "mars"], Endless},
   decimals : {NoCell, Whole(2), Whole(-1), Other},
   value : {NoCell}]

(* Decimals that lead to the ends of the decimal context, and beyond.      *)
ShiftedCalls ==
  [function : {"approve"}, args : ApproveArgs({Fraction(15, 1), Fraction(0, 1)}),
   token : {"0xFake"}, chain : {NoCell},
   decimals : {Whole(d) : d \in {-17, -8, 5, 6, 7, 17}}, value : {NoCell}]

(* What a call may do, and how it is spelled.                              *)
Spellings ==
  ApproveArgs({Whole(499), Whole(500), Fraction(15, 1)})
  \cup {List(<<Fake, a>>) : a \in {Whole(500), Digits(20)}}
  \cup {List(<<Fake, Fake, a, e>>) : a \in {Whole(499), Whole(999), Whole(1000)},
                                     e \in {Whole(99), Whole(100)}}
  \cup {Named([n \in {"token", "spender", "amount", "expiration"} |->
                 IF n = "amount" THEN Whole(600) ELSE IF n = "expiration" THEN Whole(9) ELSE At("0xusdc1")]),
        Named([n \in {"spender", "addedValue"} |->
                 IF n = "addedValue" THEN Whole(500) ELSE Fake]),
        Named([n \in {"operator", "approved"} |->
                 IF n = "approved" THEN Truth(TRUE) ELSE Fake]),
        Named([n \in {"operator", "approved", "unused"} |->
                 IF n = "operator" THEN Fake ELSE Truth(FALSE)]),
        Named([n \in {"operator", "approved"} |-> Fake]),
        List(<<Fake, Whole(500), Whole(9), Hex("abcd", 2)>>),
        List(<<Fake, Digits(500), Digits(10), Hex("abcd", 2)>>),
        List(<<Fake, Whole(1), Whole(1), Hex("long", 33)>>),
        List(<<Whole(20), Fraction(15, 1), Items(<<Fake, At("0xusdc1")>>)>>),
        List(<<Fraction(15, 1), Digits(3), Items(<<Fake, Whole(3)>>)>>),
        List(<<Fraction(15, 1), Fraction(25, 1), Fake>>),
        List(<<Items(<<Whole(1), Digits(20)>>), Hex("abcd", 2)>>),
        List(<<Whole(5), Hex("abcd", 2)>>),
        List(<<Items(<<>>), Whole(1)>>), List(<<Fake>>), List(<<>>),
        NoCell, Other}

FunctionTexts == {s.sig : s \in MCSignatures} \cup {s.name : s \in MCSignatures}

SpelledCalls ==
  [function : FunctionTexts \cup {Absent, "nosuchfn"}, args : Spellings,
   token : {"USDC"}, chain : {[form |-> "id", value |-> 1]}, decimals : {NoCell},
   value : {NoCell, Digits(0), Digits(7), Endless, Other}]

MCCalls == TokenCalls(AllAmounts) \cup ShiftedCalls \cup SpelledCalls

(* The small sets of the runs that contradict a sentence of the docs. *)
Usdc(spelled) ==
  [function : {"approve", "swap"}, args : spelled, token : {"USDC"},
   chain : {[form |-> "id", value |-> 1]}, decimals : {NoCell}, value : {NoCell}]
ExoticCalls == Usdc(ApproveArgs({Fraction(15, 1), Exotic(15, 1)}))
MixedCalls == Usdc({List(<<a, b, Items(<<Fake>>)>>) :
                      a, b \in {Whole(20), Digits(20), Fraction(15, 1)}})
BatchCalls ==
  [function : {"safeBatchTransferFrom"},
   args : {List(<<Items(<<Whole(n), Whole(20)>>), Hex("abcd", 2)>>) : n \in 0..7},
   token : {"USDC"}, chain : {[form |-> "id", value |-> 1]}, decimals : {NoCell},
   value : {NoCell, Digits(0), Other}]
===============================================================================
