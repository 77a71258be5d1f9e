---------------------------- MODULE CalldataCodec ----------------------------
(***************************************************************************)
(* encode_call() of evm_canon/encode.py and decode_calldata() of           *)
(* evm_canon/decoder.py: a named function and its arguments become         *)
(* calldata, and calldata is read back, with the same warnings for whoever *)
(* is about to sign.                                                       *)
(*                                                                         *)
(* One behaviour is one call encoded stage by stage, in the order of the   *)
(* code, and then, if the caller wants, whatever calldata the caller hands *)
(* to the decoder: the bytes just made, or bytes that lost a word, have a  *)
(* selector nobody knows, are too short, or are no bytes at all.           *)
(*                                                                         *)
(* Arguments are cells [form, ...]: what the JSON value or text is.  A     *)
(* text with a fraction is [n, k], for n / 10^k: form "fraction" when it   *)
(* is digits, a point and digits, form "exotic" when it is anything else   *)
(* Python's Decimal reads, such as "+1.5", "1.5e0" or "-5".  Calldata is   *)
(* the signature its selector is the hash of, and one word per argument.   *)
(***************************************************************************)
EXTENDS TokenRegistry, DecimalMath, Sequences

CONSTANTS
  Signatures,         \* records [sig, name, params, standard]; a parameter
                      \*   is [name, type], a type [kind, ...]
  Calls,              \* the calls considered
  MaxUint,            \* by number of bits: the largest integer of that type
  UnlimitedThreshold, \* 2**128: approvals from here on count as unlimited
  Precision,          \* 28: digits of Python's default decimal context
  MaxExponent         \* 999999: its largest exponent, and the smallest negated

VARIABLES
  call,      \* what the caller sent
  phase,     \* the next stage, or "refused", "raised", "encoded", "read"
  error,     \* code of the typed error
  entry,     \* the signature meant, or Absent
  token,     \* [to, decimals, chain, by]
  args,      \* the arguments coerced so far
  reading,   \* amount_interpreted_as: "none", "raw" or "human"
  tx,        \* the transaction handed back, or Absent
  flags,     \* its risk flags
  received,  \* calldata the decoder was given, or Absent
  answer     \* what the decoder said, or Absent

vars == <<call, phase, error, entry, token, args, reading, tx, flags, received, answer>>

(* The places after the point of the smallest number of the context, and   *)
(* how far it shifts a number.                                             *)
Places == MaxExponent + Precision - 1
ShiftLimit == 2 * (MaxExponent + Precision)

(* Parameters, what a caller may write for one, and what becomes of it.    *)
(* An "endless" text is taken for digits but not read by int().            *)
NoCell == [form |-> "absent"]
PlainTypes ==
  [kind : {"address", "bool", "tuple"}]
  \cup [kind : {"uint"}, bits : DOMAIN MaxUint]
  \cup [kind : {"bytes"}, size : Nat \cup {Absent}]
Types == PlainTypes \cup [kind : {"array"}, item : PlainTypes]
PlainCells ==
  [form : {"int"}, value : Int] \cup [form : {"digits"}, value : Nat]
  \cup [form : {"fraction"}, n : Nat, k : Nat] \cup [form : {"exotic"}, n : Int, k : Int]
  \cup [form : {"address"}, value : DOMAIN Checksum, size : Nat]
  \cup [form : {"hex"}, value : STRING, size : Nat]
  \cup [form : {"bool"}, value : BOOLEAN]
  \cup [form : {"float", "infinity", "endless", "other"}]
Cells == PlainCells \cup [form : {"list"}, items : Seq(PlainCells)]
PlainValues ==
  Int \cup BOOLEAN \cup Addresses \cup [of : STRING \cup DOMAIN Checksum, size : Nat]
Values == PlainValues \cup Seq(PlainValues)

ASSUME SignatureAssumption ==
  /\ \A s \in Signatures :
       /\ s \in [sig : STRING, name : STRING, standard : STRING,
                params : Seq([name : STRING, type : Types])]
       /\ \A i, j \in DOMAIN s.params : s.params[i].name = s.params[j].name => i = j
  /\ \A s, t \in Signatures : s.sig = t.sig => s = t
  /\ \A s, t \in Signatures : s.sig # t.name
(* Allowances are integers, one to a function, and approvals are Booleans. *)
ASSUME AllowanceAssumption ==
  \A s \in Signatures : \A i, j \in DOMAIN s.params :
    /\ /\ s.name \in {"approve", "increaseAllowance"}
       /\ {s.params[i].name, s.params[j].name} \subseteq {"amount", "addedValue"}
       => i = j /\ s.params[i].type.kind = "uint"
    /\ s.name = "setApprovalForAll" /\ s.params[i].name = "approved"
       => s.params[i].type.kind = "bool"
ASSUME CallsAssumption ==
  \A c \in Calls :
    /\ c.args.form \in {"named", "list", "absent", "other"}
    /\ c.args.form = "named" => \A n \in DOMAIN c.args.values : c.args.values[n] \in Cells
    /\ c.args.form = "list" => c.args.values \in Seq(Cells)
    /\ c.decimals.form = "int" => c.decimals.value \in Int
    /\ c.value.form = "digits" => c.value.value \in Nat
ASSUME NumbersAssumption ==
  /\ \A bits \in DOMAIN MaxUint : MaxUint[bits] \in Nat
  /\ UnlimitedThreshold \in Nat /\ {Precision, MaxExponent} \subseteq Nat \ {0}
ASSUME NoneAssumption == Absent \notin Signatures /\ Absent \notin Seq(Values)

NoToken == [to |-> Absent, decimals |-> NoCell, chain |-> Absent, by |-> "none"]

Init ==
  /\ call \in Calls
  /\ phase = "function"
  /\ error = "none"
  /\ entry = Absent
  /\ token = NoToken
  /\ args = <<>>
  /\ reading = "none"
  /\ tx = Absent
  /\ flags = {}
  /\ received = Absent
  /\ answer = Absent

encoding == <<call, entry, token, args, reading, tx, flags>>

Refuse(code) ==
  /\ phase' = IF code = "raises" THEN "raised" ELSE "refused"
  /\ error' = code
  /\ UNCHANGED <<encoding, received, answer>>

(***************************************************************************)
(* encode: the function                                                    *)
(***************************************************************************)

ParamNames(s) == {s.params[i].name : i \in DOMAIN s.params}

(* Named arguments must be the parameters, positional ones as many.        *)
Fits(s) ==
  CASE call.args.form = "named" -> ParamNames(s) = DOMAIN call.args.values
    [] call.args.form = "list" -> Len(s.params) = Len(call.args.values)
    [] OTHER -> s.params = <<>>

Overloads == {s \in Signatures : s.name = call.function}

(* The signatures a function may mean: its full text names one; a name     *)
(* with several signatures is settled by the arguments or not at all.      *)
Meant ==
  LET exact == {s \in Signatures : s.sig = call.function}
  IN  IF exact # {} THEN exact
      ELSE IF Cardinality(Overloads) > 1 THEN {s \in Overloads : Fits(s)}
      ELSE Overloads

FindFunction ==
  /\ phase = "function"
  /\ Cardinality(Meant) = 1
  /\ entry' \in Meant
  /\ phase' = "token"
  /\ UNCHANGED <<call, error, token, args, reading, tx, flags, received, answer>>

RefuseFunction ==
  /\ phase = "function"
  /\ Cardinality(Meant) # 1
  /\ Refuse(IF call.function = Absent THEN "MALFORMED_INVOCATION"
            ELSE IF Overloads = {} THEN "UNKNOWN_FUNCTION" ELSE "AMBIGUOUS_FUNCTION")

(***************************************************************************)
(* encode: the token                                                       *)
(***************************************************************************)

StatedChain ==
  CASE call.chain.form = "id" -> {call.chain.value} \cap ChainIds
    [] call.chain.form = "alias" /\ call.chain.value \in DOMAIN Alias ->
         {Alias[call.chain.value]}
    [] OTHER -> {}
Chain == IF StatedChain = {} THEN Absent ELSE CHOOSE id \in StatedChain : TRUE

IsAddress == call.token \in DOMAIN Checksum

Described(address, decimals, chain, by) ==
  [to |-> address, decimals |-> decimals, chain |-> chain, by |-> by]
InRegistry(t) ==
  Described(t.address, [form |-> "int", value |-> t.decimals], t.chainId, "registry")
AsStated(address) == Described(address, call.decimals, Chain, "caller")

(* Mutant: what the caller says of a contract goes before the registry. *)
ByAddressCallerFirst ==
  LET known == TokensByAddress(Chain, Checksum[call.token])
  IN  IF known = {} \/ call.decimals # NoCell
      THEN {AsStated(Checksum[call.token])} ELSE {InRegistry(t) : t \in known}
(* The registry is only asked about an address when the chain is known.    *)
ByAddress ==
  LET known == TokensByAddress(Chain, Checksum[call.token])
  IN  IF known = {} THEN {AsStated(Checksum[call.token])} ELSE {InRegistry(t) : t \in known}

(* The tokens a call may mean, none of which need be one. *)
TokensMeant ==
  IF call.token = Absent THEN {[AsStated(Absent) EXCEPT !.by = "none"]}
  ELSE IF IsAddress THEN ByAddress
  ELSE {InRegistry(t) : t \in TokensBySymbol(call.token, Chain)}

TokenRefusal ==
  IF call.chain.form = "endless" THEN "raises"
  ELSE IF call.chain # NoCell /\ StatedChain = {} THEN "UNKNOWN_CHAIN"
  ELSE IF TokensMeant = {} THEN "TICKER_UNRESOLVED"
  ELSE IF Cardinality(TokensMeant) > 1 THEN "TICKER_AMBIGUOUS" ELSE "none"

ResolveToken ==
  /\ phase = "token"
  /\ TokenRefusal = "none"
  /\ token' \in TokensMeant
  /\ phase' = "arguments"
  /\ UNCHANGED <<call, error, entry, args, reading, tx, flags, received, answer>>

RefuseToken ==
  /\ phase = "token"
  /\ TokenRefusal # "none"
  /\ Refuse(TokenRefusal)

(***************************************************************************)
(* encode: the arguments                                                   *)
(***************************************************************************)

(* A full signature may come with any arguments, a single one with more    *)
(* named arguments than it has parameters; those are not looked at.        *)
ArgumentsRefusal ==
  CASE call.args.form = "named" ->
         IF ParamNames(entry) \subseteq DOMAIN call.args.values
         THEN "none" ELSE "MISSING_ARGUMENT"
    [] call.args.form = "list" ->
         IF Len(call.args.values) = Len(entry.params) THEN "none" ELSE "MISSING_ARGUMENT"
    [] OTHER ->
         IF call.args.form = "absent" /\ entry.params = <<>>
         THEN "none" ELSE "MALFORMED_INVOCATION"

Ordered ==
  IF call.args.form = "named"
  THEN [i \in DOMAIN entry.params |-> call.args.values[entry.params[i].name]]
  ELSE call.args.values

OrderArguments ==
  /\ phase = "arguments"
  /\ ArgumentsRefusal = "none"
  /\ phase' = "coerce"
  /\ UNCHANGED <<error, encoding, received, answer>>

RefuseArguments ==
  /\ phase = "arguments"
  /\ ArgumentsRefusal # "none"
  /\ Refuse(ArgumentsRefusal)

(* scaleb shifts the point, and rounds to the context. *)
Shift(c) == c.k - token.decimals.value
Scaled(c) == [n |-> Shifted(c.n, Shift(c), Precision, Places), k |-> Shift(c)]
OutOfRange(c) ==
  \/ Abs(token.decimals.value) > ShiftLimit
  \/ Scaled(c).n # 0 /\ DigitCount[Scaled(c).n] - Shift(c) > MaxExponent + 1

Truncated(d) ==
  IF d.k <= 0 THEN d.n * Pow10[-d.k]
  ELSE IF d.n >= 0 THEN d.n \div Pow10[d.k] ELSE -((-d.n) \div Pow10[d.k])

(* Mutant: what is left of the point is enough. *)
RepresentableAlways(d) == TRUE
Representable(d) == d.k <= 0 \/ d.n % Pow10[d.k] = 0

(* Mutant: a text of digits is a human amount too. *)
NumberIfHuman(c) ==
  CASE c.form = "digits" /\ token.decimals.form = "int" ->
         Truncated([n |-> c.value, k |-> -token.decimals.value])
    [] c.form = "digits" /\ token.decimals.form # "int" -> c.value
    [] c.form = "int" -> c.value
    [] c.form = "fraction" -> Truncated(Scaled(c))
    [] c.form = "exotic" -> Truncated(c)
(* An integer, or a text of digits, is in base units; digits with a point  *)
(* are a human amount; whatever else is a number loses its fraction.       *)
Number(c) ==
  CASE c.form \in {"int", "digits"} -> c.value
    [] c.form = "fraction" -> Truncated(Scaled(c))
    [] c.form = "exotic" -> Truncated(c)

(* Mutant: only the sign is looked at. *)
WithinAnyWidth(n, bits) == n >= 0
Within(n, bits) == n \in 0..MaxUint[bits]

(* Decimals a caller states are used as they are; Decimal only shifts by   *)
(* an integer, and not beyond its exponents.                               *)
NumberRefusal(c, bits) ==
  IF c.form = "float" THEN "FLOAT_REJECTED"
  ELSE IF c.form \in {"infinity", "endless"} THEN "raises"
  ELSE IF c.form \notin {"int", "digits", "fraction", "exotic"} THEN "INVALID_NUMBER"
  ELSE IF c.form = "fraction" /\ token.decimals = NoCell THEN "DECIMALS_UNKNOWN"
  ELSE IF c.form = "fraction" /\ (token.decimals.form # "int" \/ OutOfRange(c)) THEN "raises"
  ELSE IF c.form = "fraction" /\ ~Representable(Scaled(c)) THEN "AMOUNT_NOT_REPRESENTABLE"
  ELSE IF ~Within(Number(c), bits) THEN "INVALID_NUMBER" ELSE "none"

IsHex(c) == c.form \in {"hex", "address"}

(* The types whose name begins with "uint" are read as one integer, and    *)
(* uint256[] is one of them.                                               *)
IsNumber(type) ==
  \/ type.kind = "uint"
  \/ type.kind = "array" /\ type.item.kind = "uint"
Bits(type) == IF type.kind = "uint" THEN type.bits ELSE type.item.bits
IsArray(type) == type.kind = "array" /\ ~IsNumber(type)

ScalarRefusal(c, type) ==
  CASE type.kind = "address" -> IF c.form = "address" THEN "none" ELSE "INVALID_ADDRESS"
    [] type.kind = "bool" -> IF c.form = "bool" THEN "none" ELSE "INVALID_NUMBER"
    [] IsNumber(type) -> NumberRefusal(c, Bits(type))
    [] type.kind = "bytes" -> IF IsHex(c) THEN "none" ELSE "INVALID_BYTES"
    [] OTHER -> "UNSUPPORTED_TYPE"

Scalar(c, type) ==
  CASE type.kind = "address" -> Checksum[c.value]
    [] type.kind = "bool" -> c.value
    [] IsNumber(type) -> Number(c)
    [] type.kind = "bytes" -> [of |-> c.value, size |-> c.size]

ScalarReading(c, type) ==
  CASE IsNumber(type) /\ c.form \in {"int", "digits"} -> "raw"
    [] IsNumber(type) /\ c.form = "fraction" -> "human"
    [] OTHER -> "none"

FirstOf(s, nothing) ==
  LET things == {i \in DOMAIN s : s[i] # nothing}
  IN  IF things = {} THEN nothing
      ELSE s[CHOOSE i \in things : \A j \in things : i <= j]

(* The items of an array one after the other, anything else by itself. *)
ItemRefusals(c, type) ==
  IF ~IsArray(type) THEN <<ScalarRefusal(c, type)>>
  ELSE IF c.form # "list" THEN <<"INVALID_ARRAY">>
  ELSE [i \in DOMAIN c.items |-> ScalarRefusal(c.items[i], type.item)]
Coerced(c, type) ==
  IF ~IsArray(type) THEN Scalar(c, type)
  ELSE [i \in DOMAIN c.items |-> Scalar(c.items[i], type.item)]
ItemReadings(c, type) ==
  IF ~IsArray(type) THEN <<ScalarReading(c, type)>>
  ELSE [i \in DOMAIN c.items |-> ScalarReading(c.items[i], type.item)]

NextCell == Ordered[Len(args) + 1]
NextType == entry.params[Len(args) + 1].type
ArgumentRefusal == FirstOf(ItemRefusals(NextCell, NextType), "none")

(* The first reading used is the one the report tells. *)
CoerceArgument ==
  /\ phase = "coerce"
  /\ Len(args) < Len(entry.params)
  /\ ArgumentRefusal = "none"
  /\ args' = Append(args, Coerced(NextCell, NextType))
  /\ reading' = FirstOf(<<reading>> \o ItemReadings(NextCell, NextType), "none")
  /\ UNCHANGED <<call, phase, error, entry, token, tx, flags, received, answer>>

RefuseArgument ==
  /\ phase = "coerce"
  /\ Len(args) < Len(entry.params)
  /\ ArgumentRefusal # "none"
  /\ Refuse(ArgumentRefusal)

(***************************************************************************)
(* encode: the transaction                                                 *)
(***************************************************************************)

(* Mutant: the parameter of increaseAllowance is forgotten. *)
AllowanceOfApprove(s, values) ==
  LET named == {i \in DOMAIN s.params : s.params[i].name = "amount"}
  IN  IF named = {} THEN 0 ELSE values[CHOOSE i \in named : TRUE]
(* The allowance a call grants, under either name. *)
Allowance(s, values) ==
  LET named == {i \in DOMAIN s.params : s.params[i].name \in {"amount", "addedValue"}}
  IN  IF named = {} THEN 0 ELSE values[CHOOSE i \in named : TRUE]

RiskFlags(s, values, wei) ==
  LET rules ==
        [unlimited_approval |->
           \/ /\ s.name \in {"approve", "increaseAllowance"}
              /\ Allowance(s, values) >= UnlimitedThreshold
           \/ /\ s.name = "approve" /\ s.standard = "Permit2"
              /\ Allowance(s, values) >= MaxUint[160],
         approval_for_all_granted |->
           s.name = "setApprovalForAll" /\ \E i \in DOMAIN s.params :
             s.params[i].name = "approved" /\ values[i] = TRUE,
         signature_based_allowance |-> s.name = "permit",
         admin_action |->
           s.name \in {"transferOwnership", "renounceOwnership", "upgradeTo",
                       "upgradeToAndCall"},
         sends_native_value |-> wei > 0 /\ s.name # "deposit"]
  IN  {f \in DOMAIN rules : rules[f]}

(* eth_abi pads short bytes of a fixed size and refuses long ones, and     *)
(* refuses an integer where an array belongs.                              *)
TooLong(v, type) == type.kind = "bytes" /\ type.size # Absent /\ v.size > type.size
NoArray(type) == type.kind = "array" /\ IsNumber(type)
Word(v, type) ==
  IF type.kind = "bytes" /\ type.size # Absent THEN [v EXCEPT !.size = type.size] ELSE v
Encodable ==
  \A i \in DOMAIN args :
    ~TooLong(args[i], entry.params[i].type) /\ ~NoArray(entry.params[i].type)

Coercion == phase = "coerce" /\ Len(args) = Len(entry.params)
Wei == IF call.value.form = "digits" THEN call.value.value ELSE 0

RefuseValue ==
  /\ Coercion
  /\ call.value.form \notin {"absent", "digits"}
  /\ Refuse(IF call.value.form = "endless" THEN "raises" ELSE "INVALID_VALUE")

RaiseOnEncoding ==
  /\ Coercion
  /\ call.value.form \in {"absent", "digits"}
  /\ ~Encodable
  /\ Refuse("raises")

Encode ==
  /\ Coercion
  /\ call.value.form \in {"absent", "digits"}
  /\ Encodable
  /\ tx' = [to |-> token.to, chain |-> token.chain, selector |-> entry.sig,
            words |-> [i \in DOMAIN args |-> Word(args[i], entry.params[i].type)],
            value |-> Wei]
  /\ flags' = RiskFlags(entry, args, Wei)
  /\ phase' = "encoded"
  /\ UNCHANGED <<call, error, entry, token, args, reading, received, answer>>

(***************************************************************************)
(* decode                                                                  *)
(***************************************************************************)

(* What a caller who holds the transaction may send to be decoded: its     *)
(* calldata, the same without the last word, with a selector that is in no *)
(* signature set, less than a selector, nothing, a text that is not hex,   *)
(* or no object to hold it; its value, or one that is no number or endless *)
(* digits; and the address it goes to, or a text that is none.             *)
Deliveries ==
  {[data |-> d, value |-> v, to |-> a] :
     d \in {"intact", "foreign", "short", "empty", "nothex", "unwrapped"}
           \cup (IF tx.words = <<>> THEN {} ELSE {"cut"}),
     v \in {"wei", "endless", "other"}, a \in {"address", "other"}}

Deliver ==
  /\ phase = "encoded"
  /\ received' \in Deliveries
  /\ phase' = "decode"
  /\ UNCHANGED <<error, encoding, answer>>

(* The order of these is the order of the code. *)
CalldataRefusal ==
  IF received.data = "unwrapped" THEN "MALFORMED_INVOCATION"
  ELSE IF received.data = "nothex" THEN "INVALID_CALLDATA"
  ELSE IF received.value = "other" THEN "INVALID_VALUE"
  ELSE IF received.value = "endless" THEN "raises"
  ELSE IF received.to = "other" THEN "INVALID_ADDRESS"
  ELSE IF received.data = "short" THEN "INVALID_CALLDATA" ELSE "none"

RefuseCalldata ==
  /\ phase = "decode"
  /\ CalldataRefusal # "none"
  /\ Refuse(CalldataRefusal)

Read(decoded, sig, values, warnings, nulls) ==
  /\ phase' = "read"
  /\ answer' = [decoded |-> decoded, sig |-> sig, args |-> values,
                flags |-> warnings, nulls |-> nulls]
  /\ UNCHANGED <<error, encoding, received>>

DecodeNothing ==
  /\ phase = "decode" /\ CalldataRefusal = "none"
  /\ received.data = "empty"
  /\ Read(TRUE, Absent, Absent, {}, {"selector", "function", "standard"})

DecodeUnknown ==
  /\ phase = "decode" /\ CalldataRefusal = "none"
  /\ received.data = "foreign"
  /\ Read(FALSE, Absent, Absent,
          {"unknown_selector"}
            \cup (IF tx.value > 0 THEN {"native_value_to_unknown_function"} ELSE {}),
          {"function", "standard"})

(* Mutant: nothing is said of arguments that could not be read. *)
NoMismatchFlag == {}
MismatchFlag == {"calldata_args_mismatch"}

DecodeMismatch ==
  /\ phase = "decode" /\ CalldataRefusal = "none"
  /\ received.data = "cut"
  /\ Read(FALSE, tx.selector, Absent, MismatchFlag, {"function.args"})

BySelector(sig) == CHOOSE s \in Signatures : s.sig = sig

Decode ==
  /\ phase = "decode" /\ CalldataRefusal = "none"
  /\ received.data = "intact"
  /\ Read(TRUE, tx.selector, tx.words,
          RiskFlags(BySelector(tx.selector), tx.words, tx.value), {})

Next ==
  \/ FindFunction \/ RefuseFunction
  \/ ResolveToken \/ RefuseToken
  \/ OrderArguments \/ RefuseArguments
  \/ CoerceArgument \/ RefuseArgument
  \/ RefuseValue \/ RaiseOnEncoding \/ Encode
  \/ Deliver \/ RefuseCalldata
  \/ DecodeNothing \/ DecodeUnknown \/ DecodeMismatch \/ Decode

Spec == Init /\ [][Next]_vars

(***************************************************************************)
(* Properties                                                              *)
(***************************************************************************)

Encoded == tx # Absent

(* Every variable has its type, and every integer accepted fits the        *)
(* unsigned type of its parameter (encode.py:115-118), whichever way the   *)
(* caller wrote it.                                                        *)
UintFits(v, type) == IsNumber(type) => v \in 0..MaxUint[Bits(type)]
TypeOK ==
  /\ call \in Calls
  /\ phase \in {"function", "token", "arguments", "coerce", "encoded", "decode",
                "read", "refused", "raised"}
  /\ (error = "raises") = (phase = "raised")
  /\ entry \in Signatures \cup {Absent}
  /\ token.chain \in ChainIds \cup {Absent} /\ token.to \in Addresses \cup {Absent}
  /\ reading \in {"none", "raw", "human"}
  /\ Len(args) <= (IF entry = Absent THEN 0 ELSE Len(entry.params))
  /\ \A i \in DOMAIN args : UintFits(args[i], entry.params[i].type)

(* What the caller who wrote a cell expects to be signed; amounts written  *)
(* with a fraction are the business of AmountsAsWritten.                   *)
MeansScalar(c, word, type) ==
  CASE type.kind = "address" -> word = Checksum[c.value]
    [] type.kind = "bytes" -> word.of = c.value
    [] type.kind \in {"bool", "uint"} -> "value" \in DOMAIN c => word = c.value
Means(c, word, type) ==
  IF type.kind # "array" THEN MeansScalar(c, word, type)
  ELSE /\ Len(word) = Len(c.items)
       /\ \A i \in DOMAIN word : MeansScalar(c.items[i], word[i], type.item)

(* Calldata this program made is calldata it can read back (encode.py:7-10 *)
(* and test_encode_decode_roundtrip): the decoder finds the function the   *)
(* caller asked for, under each name the caller used the value the caller  *)
(* gave, and warns of exactly what the encoder warned of.                  *)
RoundTrip ==
  phase = "read" /\ received.data = "intact" =>
    LET s == BySelector(answer.sig)
    IN  /\ answer.decoded
        /\ call.function \in {s.sig, s.name}
        /\ \A i \in DOMAIN s.params :
             Means(IF call.args.form = "named" THEN call.args.values[s.params[i].name]
                   ELSE call.args.values[i],
                   answer.args[i], s.params[i].type)
        /\ answer.flags = flags

(* Nobody is handed a call to sign without being told what it gives away   *)
(* (encode.py:18-21, decoder.py:26-27): an allowance of 2**128 or more, of *)
(* any of the standards, an operator for all tokens, or native value along *)
(* with a call that is not a deposit.  Warning of one is no excuse for     *)
(* silence about another.                                                  *)
Grants(function, param) ==
  /\ entry.name = function
  /\ \E i \in DOMAIN entry.params :
       /\ entry.params[i].name = param
       /\ CASE entry.params[i].type.kind = "uint" -> tx.words[i] >= UnlimitedThreshold
            [] OTHER -> tx.words[i]
WarnedBeforeSigning ==
  Encoded =>
    /\ \/ Grants("approve", "amount") \/ Grants("increaseAllowance", "addedValue")
       \/ Grants("permit", "value") \/ Grants("setApprovalForAll", "approved")
       => flags \ {"sends_native_value"} # {}
    /\ tx.value > 0 /\ entry.name # "deposit" => "sends_native_value" \in flags

(* The decoder never presents calldata it could not read as harmless       *)
(* (decoder.py:7-10): without arguments and without a decoded function     *)
(* there is a warning, and a null in the result is a null in the report.   *)
DecoderIsHonest ==
  phase = "read" =>
    /\ answer.decoded /\ received.data # "empty" => answer.args # Absent
    /\ ~answer.decoded => answer.flags # {}
    /\ answer.args = Absent => answer.nulls \cap {"function", "function.args"} # {}

(* When the contract is one the registry has on the stated chain, or was   *)
(* named by its symbol, amounts are scaled by the registry's decimals,     *)
(* whatever decimals came along in the call (encode.py:171-188), and the   *)
(* transaction goes to that contract on that chain.                        *)
DecimalsOfTheToken ==
  \A t \in Tokens :
    Encoded /\ tx.to = t.address /\ tx.chain = t.chainId =>
      token.decimals = [form |-> "int", value |-> t.decimals]

(* An amount written as a number is the number signed, shifted by the      *)
(* decimals of the token when it is written with a fraction: n / 10^k      *)
(* units of the token are word / 10^decimals.                              *)
AsWritten(c, word) ==
  c.form \in {"fraction", "exotic"} /\ c.k > 0 =>
    /\ token.decimals.form = "int"
    /\ LET shift == c.k - token.decimals.value
       IN  IF shift >= 0 THEN word * Pow10[shift] = c.n ELSE word = c.n * Pow10[-shift]

Amounts == {i \in DOMAIN args : entry.params[i].type.kind = "uint"}

(* encode.py:3-4 promises "the exact bytes to put in a transaction's data  *)
(* field" and encode.py:14-17 that an amount is never "10^18 times off":   *)
(* every amount of an encoded call is the one the caller wrote.            *)
AmountsAsWritten ==
  Encoded => \A i \in Amounts : AsWritten(Ordered[i], args[i])

(* So it is for the plain spelling, digits with a point, as long as the    *)
(* digits fit into the decimal context, and the caller's decimals do not   *)
(* lead below its smallest number (encode.py:99-109).                      *)
PlainAmountsAsWritten ==
  Encoded => \A i \in Amounts :
    /\ Ordered[i].form = "fraction"
    /\ DigitCount[Ordered[i].n] <= Precision /\ Shift(Ordered[i]) <= Places
    => AsWritten(Ordered[i], args[i])

(* "Every response reports which reading was used" (encode.py:16): the     *)
(* reading reported is that of each amount written with a fraction.        *)
ReadingsReported ==
  Encoded => \A i \in Amounts :
    /\ Ordered[i].form = "fraction" => reading = "human"
    /\ Ordered[i].form \in {"int", "digits"} => reading = "raw"

(* "Scope is deliberately the same pinned signature set the decoder        *)
(* understands" (encode.py:7-8), so arrays of integers are in it: a list   *)
(* of integers that fit is not refused as no number.                       *)
FittingList(c, type) ==
  /\ NoArray(type) /\ c.form = "list"
  /\ \A i \in DOMAIN c.items :
       c.items[i].form = "int" /\ Within(c.items[i].value, type.item.bits)
ScopeOfTheDecoder ==
  phase = "refused" /\ error = "INVALID_NUMBER" => ~FittingList(NextCell, NextType)
===============================================================================
